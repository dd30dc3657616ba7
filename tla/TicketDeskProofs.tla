-------------------------- MODULE TicketDeskProofs --------------------------
(***************************************************************************)
(* Proofs about TicketDesk, for any number of requests, tickets, codes and *)
(* accounts: its type invariant, the uniqueness of codes, the uniqueness   *)
(* of an API redemption, the finality of a settled redemption, that the    *)
(* collection implements TicketLedger, that the answers to redemption      *)
(* requests are true, and that issue requests are answered in full.        *)
(***************************************************************************)
EXTENDS TicketDesk, SequenceTheorems, FiniteSetTheorems, TLAPS

AllForms == DeskForms \cup PartnerForms \cup ClerkForms \cup {None}

(* Where a request of each kind can be, and what its local variables hold  *)
(* there.                                                                  *)
DeskPositions ==
    {"idle", "find", "save", "answered", "bad_request", "error"}
PartnerPositions ==
    {"idle", "find", "user", "modify", "created", "conflict", "not_found",
     "bad_request", "error"}
ClerkPositions ==
    {"idle", "insert", "issued", "bad_request", "forbidden", "error"}

DeskAt(r) ==
    /\ pc[r] \in DeskPositions
    /\ pc[r] \in {"idle", "bad_request"} => results[r] = <<>>
    /\ pc[r] # "idle" => form[r] \in DeskForms
    /\ pc[r] \in {"find", "save"} => Len(results[r]) < Len(form[r].codes)
    /\ pc[r] = "save" =>
          /\ loaded[r] \in Stored
          /\ ticket[loaded[r]].code = CurrentCode(r)
          /\ Permitted(r, loaded[r])

PartnerAt(r) ==
    /\ pc[r] \in PartnerPositions
    /\ pc[r] # "idle" => form[r] \in PartnerForms
    /\ pc[r] = "find" => form[r].code \in Codes
    /\ pc[r] \in {"user", "modify", "created", "conflict"} =>
          /\ loaded[r] \in Stored
          /\ ticket[loaded[r]].code = form[r].code
    /\ pc[r] \in {"created", "conflict"} => Redeemed(loaded[r])

ClerkAt(r) ==
    /\ pc[r] \in ClerkPositions
    /\ pc[r] = "idle" => issued[r].attempts = 0
    /\ pc[r] # "idle" => form[r] \in ClerkForms
    /\ pc[r] = "insert" =>
          /\ form[r].to \in Owners
          /\ form[r].by \in Users
          /\ issued[r].attempts < MAX_CODE_ATTEMPTS

IInv ==
    /\ TypeOK
    /\ \A r \in Desk : DeskAt(r)
    /\ \A r \in Partner : PartnerAt(r)
    /\ \A r \in Clerk : ClerkAt(r)
    /\ CodesUnique

(* What every step leaves of the tickets that were stored before it.       *)
Keeps ==
    /\ Stored \subseteq Stored'
    /\ \A t \in Stored :
          /\ ticket'[t].code = ticket[t].code
          /\ ticket'[t].issued_to = ticket[t].issued_to
          /\ ticket[t].redeemed # None => ticket'[t].redeemed # None

-----------------------------------------------------------------------------
(* What one write does to the collection.                                  *)

(* Recording a redemption changes the redeemed field of one stored ticket. *)
LEMMA RecordEffect ==
    ASSUME ticket \in [TicketIds -> Ticket \cup {None}],
           NEW t \in TicketIds, t \in Stored,
           NEW x \in Redemption,
           Record(t, x)
    PROVE  /\ ticket' \in [TicketIds -> Ticket \cup {None}]
           /\ Stored' = Stored
           /\ \A u \in Stored :
                /\ ticket'[u].code = ticket[u].code
                /\ ticket'[u].issued_to = ticket[u].issued_to
                /\ ticket'[u].issued_by = ticket[u].issued_by
                /\ u # t => ticket'[u] = ticket[u]
           /\ ticket'[t].redeemed = x
  <1>1. ticket[t] \in Ticket
    BY DEF Stored
  <1>2. [ticket[t] EXCEPT !.redeemed = x] \in Ticket
    BY <1>1 DEF Ticket
  <1>3. ticket' = [ticket EXCEPT ![t] = [ticket[t] EXCEPT !.redeemed = x]]
    BY DEF Record
  <1>4. ticket' \in [TicketIds -> Ticket \cup {None}]
    BY <1>2, <1>3
  <1>5. ticket'[t] = [ticket[t] EXCEPT !.redeemed = x]
    BY <1>3
  <1>6. \A u \in TicketIds : u # t => ticket'[u] = ticket[u]
    BY <1>3
  <1>7. ticket'[t] # None
    BY <1>2, <1>5, NoneAssumption
  <1>8. Stored' = Stored
    BY <1>6, <1>7 DEF Stored
  <1>9. /\ ticket'[t].code = ticket[t].code
        /\ ticket'[t].issued_to = ticket[t].issued_to
        /\ ticket'[t].issued_by = ticket[t].issued_by
        /\ ticket'[t].redeemed = x
    BY <1>1, <1>5 DEF Ticket
  <1> QED
    BY <1>4, <1>6, <1>8, <1>9 DEF Stored

(* Inserting a ticket adds one document and leaves the others alone.       *)
LEMMA InsertEffect ==
    ASSUME ticket \in [TicketIds -> Ticket \cup {None}],
           NEW r \in Clerk, NEW t \in TicketIds, NEW c \in Codes,
           form[r].to \in Owners, form[r].by \in Users,
           Insert(r, t, c)
    PROVE  /\ ticket' \in [TicketIds -> Ticket \cup {None}]
           /\ Stored' = Stored \cup {t}
           /\ t \notin Stored
           /\ \A u \in Stored : ticket'[u] = ticket[u]
           /\ ticket'[t] = NewTicket(r, c)
           /\ ticket'[t].code = c
  <1>1. NewTicket(r, c) \in Ticket
    BY DEF NewTicket, Ticket
  <1>2. ticket' = [ticket EXCEPT ![t] = NewTicket(r, c)]
    BY DEF Insert
  <1>3. t \notin Stored
    BY DEF Insert
  <1>4. Stored' = Stored \cup {t}
    BY <1>1, <1>2, NoneAssumption DEF Stored
  <1>5. ticket'[t] = NewTicket(r, c)
    BY <1>2
  <1>6. NewTicket(r, c).code = c
    BY DEF NewTicket
  <1> QED
    BY <1>1, <1>2, <1>3, <1>4, <1>5, <1>6 DEF Stored

-----------------------------------------------------------------------------
(* A request that takes no step keeps its part of the invariant.           *)

(* A web request that waits: the ticket it is to save stays stored, with   *)
(* its code and its owner.                                                 *)
LEMMA DeskFrame ==
    ASSUME NEW s \in Desk, DeskAt(s), Keeps,
           pc'[s] = pc[s], form'[s] = form[s],
           loaded'[s] = loaded[s], results'[s] = results[s]
    PROVE  DeskAt(s)'
  BY DEF DeskAt, Keeps, CurrentCode, Permitted

(* A call that waits: the ticket it has found stays stored, and redeemed   *)
(* once it is.                                                             *)
LEMMA PartnerFrame ==
    ASSUME NEW s \in Partner, PartnerAt(s), Keeps,
           pc'[s] = pc[s], form'[s] = form[s], loaded'[s] = loaded[s]
    PROVE  PartnerAt(s)'
  BY DEF PartnerAt, Keeps, Redeemed

(* An issue request that waits: nobody else writes what it keeps.          *)
LEMMA ClerkFrame ==
    ASSUME NEW s \in Clerk, ClerkAt(s),
           pc'[s] = pc[s], form'[s] = form[s], issued'[s] = issued[s]
    PROVE  ClerkAt(s)'
  BY DEF ClerkAt

(* A step that leaves the collection alone keeps the tickets.              *)
LEMMA KeepsUnchanged == ticket' = ticket => Keeps /\ Stored' = Stored
  BY DEF Keeps, Stored

(* And their codes unique.                                                 *)
LEMMA UniqueUnchanged ==
    ASSUME CodesUnique, ticket' = ticket
    PROVE  CodesUnique'
  BY DEF CodesUnique, Stored

(* So does a recorded redemption.                                          *)
LEMMA KeepsRecord ==
    ASSUME TypeOK, CodesUnique,
           NEW t \in TicketIds, t \in Stored,
           NEW x \in Redemption,
           Record(t, x)
    PROVE  Keeps /\ CodesUnique'
  <1>1. ticket \in [TicketIds -> Ticket \cup {None}]
    BY DEF TypeOK
  <1>2. Keeps
    BY <1>1, RecordEffect, NoneAssumption DEF Keeps
  <1>3. CodesUnique'
    BY <1>1, RecordEffect DEF CodesUnique
  <1> QED
    BY <1>2, <1>3

(* So does an insert, which the unique index admits.                       *)
LEMMA KeepsInsert ==
    ASSUME TypeOK, CodesUnique,
           NEW r \in Clerk, NEW t \in TicketIds, NEW c \in Codes,
           form[r].to \in Owners, form[r].by \in Users,
           Insert(r, t, c)
    PROVE  Keeps /\ CodesUnique'
  <1>1. ticket \in [TicketIds -> Ticket \cup {None}]
    BY DEF TypeOK
  <1>2. Keeps
    BY <1>1, InsertEffect DEF Keeps
  <1>3. \A u \in Stored : ticket[u].code # c
    BY DEF Insert, WithCode
  <1>4. ticket'[t].code = c
    BY <1>1, InsertEffect
  <1>5. CodesUnique'
    BY <1>1, <1>3, <1>4, InsertEffect DEF CodesUnique
  <1> QED
    BY <1>2, <1>5

-----------------------------------------------------------------------------
(* The steps of a Desk request.                                            *)

(* A step of r leaves the positions and the forms of the other requests    *)
(* alone.                                                                  *)
OthersStay(r) ==
    \A s \in Requests \ {r} : pc'[s] = pc[s] /\ form'[s] = form[s]

(* The answer grows by one entry, for the code the request had come to.    *)
LEMMA ReportEffect ==
    ASSUME TypeOK, NEW r \in Desk, form[r] \in DeskForms,
           Len(results[r]) < Len(form[r].codes),
           NEW outcome \in Outcomes, Report(r, outcome)
    PROVE  /\ CurrentCode(r) \in Codes
           /\ results' \in [Desk -> Seq(Entries)]
           /\ results'[r] = Append(results[r],
                               [code |-> CurrentCode(r), result |-> outcome])
           /\ Len(results'[r]) = Len(results[r]) + 1
           /\ \A s \in Desk \ {r} : results'[s] = results[s]
           /\ pc' \in [Requests -> {"idle"} \cup Working \cup Ended]
           /\ \A s \in Requests \ {r} : pc'[s] = pc[s]
           /\ pc'[r] \in {"answered", "find"}
           /\ pc'[r] = "find" => Len(results'[r]) < Len(form[r].codes)
  <1> DEFINE e == [code |-> CurrentCode(r), result |-> outcome]
  <1>1. form[r].codes \in Seq(Codes)
    BY FormCodesAssumption DEF DeskForms
  <1>2. results[r] \in Seq(Entries) /\ Len(results[r]) \in Nat
    BY DEF TypeOK
  <1>3. CurrentCode(r) \in Codes
    BY <1>1, <1>2 DEF CurrentCode
  <1>4. e \in Entries
    BY <1>3 DEF Entries
  <1>5. /\ Append(results[r], e) \in Seq(Entries)
        /\ Len(Append(results[r], e)) = Len(results[r]) + 1
    BY <1>2, <1>4, AppendProperties
  <1>6. results' = [results EXCEPT ![r] = Append(results[r], e)]
    BY DEF Report
  <1>7. results' \in [Desk -> Seq(Entries)]
    BY <1>5, <1>6 DEF TypeOK
  <1>8. /\ results'[r] = Append(results[r], e)
        /\ \A s \in Desk \ {r} : results'[s] = results[s]
    BY <1>6 DEF TypeOK
  <1>9. pc' = [pc EXCEPT ![r] = IF Len(results[r]) + 1 = Len(form[r].codes)
                                  THEN "answered" ELSE "find"]
    BY DEF Report, Goto
  <1>10. /\ pc' \in [Requests -> {"idle"} \cup Working \cup Ended]
         /\ \A s \in Requests \ {r} : pc'[s] = pc[s]
         /\ pc'[r] = IF Len(results[r]) + 1 = Len(form[r].codes)
                       THEN "answered" ELSE "find"
    BY <1>9 DEF TypeOK, Requests, Working, Ended
  <1>11. Len(form[r].codes) \in Nat
    BY <1>1
  <1>12. pc'[r] = "find" => Len(results'[r]) < Len(form[r].codes)
    BY <1>2, <1>5, <1>8, <1>10, <1>11
  <1> QED
    BY <1>3, <1>5, <1>7, <1>8, <1>10, <1>12

(* The invariant after a step of a Desk request, from what the step does   *)
(* to that request's own part of it.                                       *)
LEMMA DeskStepFrame ==
    ASSUME IInv, NEW r \in Desk,
           TypeOK', Keeps, CodesUnique', DeskAt(r)',
           OthersStay(r),
           \A s \in Requests \ {r} :
               s \in Desk \cup Partner => loaded'[s] = loaded[s],
           \A s \in Desk \ {r} : results'[s] = results[s],
           issued' = issued
    PROVE  IInv'
  <1>1. ASSUME NEW s \in Desk PROVE DeskAt(s)'
    BY <1>1, DeskFrame DEF IInv, OthersStay, Requests
  <1>2. ASSUME NEW s \in Partner PROVE PartnerAt(s)'
    BY <1>2, PartnerFrame, KindsAssumption DEF IInv, OthersStay, Requests
  <1>3. ASSUME NEW s \in Clerk PROVE ClerkAt(s)'
    BY <1>3, ClerkFrame, KindsAssumption DEF IInv, OthersStay, Requests
  <1> QED
    BY <1>1, <1>2, <1>3 DEF IInv

(* A form arrives: with a code in it there is one to look for.             *)
LEMMA DeskBeginStep ==
    ASSUME IInv, NEW r \in Desk, DeskBegin(r)
    PROVE  IInv'
  <1>1. PICK f \in DeskForms :
          /\ form' = [form EXCEPT ![r] = f]
          /\ Goto(r, IF f.codes = <<>> THEN "bad_request" ELSE "find")
    BY DEF DeskBegin
  <1>2. UNCHANGED <<ticket, loaded, results, bearer, issued>>
    BY DEF DeskBegin
  <1>3. TypeOK'
    BY <1>1, <1>2, KindsAssumption
    DEF IInv, TypeOK, Goto, Requests, Working, Ended
  <1>4. form'[r] = f /\ OthersStay(r)
    BY <1>1 DEF IInv, TypeOK, Goto, Requests, OthersStay
  <1>5. pc'[r] = IF f.codes = <<>> THEN "bad_request" ELSE "find"
    BY <1>1 DEF IInv, TypeOK, Goto, Requests
  <1>6. f.codes # <<>> => Len(f.codes) \in Nat \ {0}
    BY EmptySeq, FormCodesAssumption DEF DeskForms
  <1>7. results[r] = <<>>
    BY DEF IInv, DeskAt, DeskBegin
  <1>8. DeskAt(r)'
    BY <1>1, <1>2, <1>4, <1>5, <1>6, <1>7 DEF DeskAt, DeskPositions
  <1>9. Keeps /\ CodesUnique'
    BY <1>2, KeepsUnchanged, UniqueUnchanged DEF IInv
  <1> QED
    BY <1>2, <1>3, <1>4, <1>8, <1>9, DeskStepFrame

(* A ticket is read: the one to be saved is stored under the current code, *)
(* and its redemption is permitted.                                        *)
LEMMA DeskFindStep ==
    ASSUME IInv, NEW r \in Desk, DeskFind(r)
    PROVE  IInv'
  <1>1. UNCHANGED <<ticket, form, bearer, issued>> /\ pc[r] = "find"
    BY DEF DeskFind
  <1>2. Keeps /\ CodesUnique' /\ Stored' = Stored
    BY <1>1, KeepsUnchanged, UniqueUnchanged DEF IInv
  <1>3. form[r] \in DeskForms /\ Len(results[r]) < Len(form[r].codes)
    BY <1>1 DEF IInv, DeskAt
  <1>4. ASSUME NEW outcome \in Outcomes, Report(r, outcome),
               NEW x \in TicketIds \cup {None},
               loaded' = [loaded EXCEPT ![r] = x]
        PROVE  IInv'
    <2>1. TypeOK'
      BY <1>1, <1>3, <1>4, ReportEffect DEF IInv, TypeOK
    <2>2. DeskAt(r)'
      BY <1>1, <1>3, <1>4, ReportEffect DEF IInv, DeskAt, DeskPositions
    <2>3. OthersStay(r)
      BY <1>1, <1>3, <1>4, ReportEffect DEF IInv, OthersStay
    <2>4. \A s \in Desk \ {r} : results'[s] = results[s]
      BY <1>3, <1>4, ReportEffect DEF IInv
    <2>5. \A s \in Requests \ {r} : s \in Desk \cup Partner =>
                                       loaded'[s] = loaded[s]
      BY <1>4 DEF IInv, TypeOK
    <2> QED
      BY <1>1, <1>2, <2>1, <2>2, <2>3, <2>4, <2>5, DeskStepFrame
  <1>5. ASSUME NEW t \in WithCode(CurrentCode(r)),
               loaded' = [loaded EXCEPT ![r] = t],
               Permitted(r, t), Goto(r, "save"), UNCHANGED results
        PROVE  IInv'
    <2>1. t \in Stored /\ t \in TicketIds /\ ticket[t].code = CurrentCode(r)
      BY DEF WithCode, Stored
    <2>2. TypeOK'
      BY <1>1, <1>5, <2>1 DEF IInv, TypeOK, Goto, Working
    <2>3. loaded'[r] = t /\ pc'[r] = "save"
      BY <1>5 DEF IInv, TypeOK, Goto, Requests
    <2>4. CurrentCode(r)' = CurrentCode(r) /\ Permitted(r, t)'
      BY <1>1, <1>5 DEF CurrentCode, Permitted
    <2>5. DeskAt(r)'
      BY <1>1, <1>2, <1>3, <1>5, <2>1, <2>3, <2>4
      DEF DeskAt, DeskPositions, Permitted
    <2>6. OthersStay(r)
      BY <1>1, <1>5 DEF IInv, TypeOK, Goto, OthersStay
    <2>7. \A s \in Requests \ {r} : s \in Desk \cup Partner =>
                                       loaded'[s] = loaded[s]
      BY <1>5 DEF IInv, TypeOK
    <2> QED
      BY <1>1, <1>2, <1>5, <2>2, <2>5, <2>6, <2>7, DeskStepFrame
  <1>6. \A t \in WithCode(CurrentCode(r)) : t \in TicketIds
    BY DEF WithCode, Stored
  <1> QED
    BY <1>4, <1>5, <1>6 DEF DeskFind, Outcomes

(* What a Desk request records is a well-formed redemption of a stored     *)
(* ticket.                                                                 *)
LEMMA DeskRedemptionType ==
    ASSUME IInv, NEW r \in Desk, pc[r] = "save"
    PROVE  /\ loaded[r] \in TicketIds
           /\ loaded[r] \in Stored
           /\ DeskRedemption(r) \in Redemption
           /\ form[r] \in DeskForms
           /\ Len(results[r]) < Len(form[r].codes)
  <1>1. form[r] \in DeskForms /\ loaded[r] \in Stored /\ Permitted(r, loaded[r])
    BY DEF IInv, DeskAt
  <1>2. form[r].by \in Viewers
    BY <1>1 DEF Permitted, DeskForms
  <1>3. DeskRedemption(r) \in Redemption
    BY <1>2 DEF DeskRedemption, Redemption, Viewers
  <1> QED
    BY <1>1, <1>3 DEF IInv, DeskAt, Stored

(* A redemption is saved, with or without one already there.               *)
LEMMA DeskSaveStep ==
    ASSUME IInv, NEW r \in Desk, DeskSave(r)
    PROVE  IInv'
  <1>1. /\ pc[r] = "save"
        /\ Record(loaded[r], DeskRedemption(r))
        /\ Report(r, "redeemed OK")
        /\ UNCHANGED <<form, loaded, bearer, issued>>
    BY DEF DeskSave
  <1>2. /\ loaded[r] \in TicketIds
        /\ loaded[r] \in Stored
        /\ DeskRedemption(r) \in Redemption
        /\ form[r] \in DeskForms
        /\ Len(results[r]) < Len(form[r].codes)
    BY <1>1, DeskRedemptionType
  <1>3. Keeps /\ CodesUnique'
    BY <1>1, <1>2, KeepsRecord DEF IInv
  <1>4. ticket' \in [TicketIds -> Ticket \cup {None}]
    BY <1>1, <1>2, RecordEffect DEF IInv, TypeOK
  <1>5. "redeemed OK" \in Outcomes
    BY DEF Outcomes
  <1>6. TypeOK'
    BY <1>1, <1>2, <1>4, <1>5, ReportEffect DEF IInv, TypeOK
  <1>7. DeskAt(r)'
    BY <1>1, <1>2, <1>5, ReportEffect DEF IInv, DeskAt, DeskPositions
  <1>8. OthersStay(r) /\ \A s \in Desk \ {r} : results'[s] = results[s]
    BY <1>1, <1>2, <1>5, ReportEffect DEF IInv, OthersStay
  <1> QED
    BY <1>1, <1>3, <1>6, <1>7, <1>8, DeskStepFrame

(* A round trip of the web form fails, after the save or before it.        *)
LEMMA DeskFailStep ==
    ASSUME IInv, NEW r \in Desk, DeskFail(r)
    PROVE  IInv'
  <1>1. /\ pc[r] \in {"find", "save"}
        /\ Goto(r, "error")
        /\ UNCHANGED <<form, loaded, results, bearer, issued>>
    BY DEF DeskFail
  <1>2. /\ Keeps
        /\ CodesUnique'
        /\ ticket' \in [TicketIds -> Ticket \cup {None}]
    <2>1. CASE UNCHANGED ticket
      BY <2>1, KeepsUnchanged, UniqueUnchanged DEF IInv, TypeOK
    <2>2. CASE pc[r] = "save" /\ Record(loaded[r], DeskRedemption(r))
      BY <2>2, DeskRedemptionType, KeepsRecord, RecordEffect DEF IInv, TypeOK
    <2> QED
      BY <2>1, <2>2 DEF DeskFail
  <1>3. TypeOK'
    BY <1>1, <1>2 DEF IInv, TypeOK, Goto, Ended
  <1>4. pc'[r] = "error" /\ OthersStay(r)
    BY <1>1 DEF IInv, TypeOK, Goto, Requests, OthersStay
  <1>5. DeskAt(r)'
    BY <1>1, <1>4 DEF IInv, DeskAt, DeskPositions
  <1> QED
    BY <1>1, <1>2, <1>3, <1>4, <1>5, DeskStepFrame

-----------------------------------------------------------------------------
(* The steps of a Partner request.                                         *)

(* What a call's step has to establish, the rest of the state being out of *)
(* its reach.                                                              *)
LEMMA PartnerStepFrame ==
    ASSUME IInv, NEW r \in Partner,
           TypeOK', Keeps, CodesUnique', PartnerAt(r)',
           OthersStay(r),
           \A s \in Requests \ {r} :
               s \in Desk \cup Partner => loaded'[s] = loaded[s],
           UNCHANGED <<results, issued>>
    PROVE  IInv'
  <1>1. ASSUME NEW s \in Desk PROVE DeskAt(s)'
    BY <1>1, DeskFrame, KindsAssumption DEF IInv, OthersStay, Requests
  <1>2. ASSUME NEW s \in Partner PROVE PartnerAt(s)'
    BY <1>2, PartnerFrame DEF IInv, OthersStay, Requests
  <1>3. ASSUME NEW s \in Clerk PROVE ClerkAt(s)'
    BY <1>3, ClerkFrame, KindsAssumption DEF IInv, OthersStay, Requests
  <1> QED
    BY <1>1, <1>2, <1>3 DEF IInv

(* A call arrives.                                                         *)
LEMMA PartnerBeginStep ==
    ASSUME IInv, NEW r \in Partner, PartnerBegin(r)
    PROVE  IInv'
  <1>1. PICK f \in PartnerForms :
          /\ form' = [form EXCEPT ![r] = f]
          /\ Goto(r, IF f.code = None THEN "bad_request" ELSE "find")
    BY DEF PartnerBegin
  <1>2. UNCHANGED <<ticket, loaded, results, bearer, issued>>
    BY DEF PartnerBegin
  <1>3. TypeOK'
    BY <1>1, <1>2, KindsAssumption
    DEF IInv, TypeOK, Goto, Requests, Working, Ended
  <1>4. form'[r] = f /\ OthersStay(r)
    BY <1>1 DEF IInv, TypeOK, Goto, Requests, OthersStay
  <1>5. pc'[r] = IF f.code = None THEN "bad_request" ELSE "find"
    BY <1>1 DEF IInv, TypeOK, Goto, Requests
  <1>6. PartnerAt(r)'
    BY <1>4, <1>5 DEF PartnerAt, PartnerPositions, PartnerForms
  <1>7. Keeps /\ CodesUnique'
    BY <1>2, KeepsUnchanged, UniqueUnchanged DEF IInv
  <1> QED
    BY <1>2, <1>3, <1>4, <1>6, <1>7, PartnerStepFrame

(* The ticket of the code is read.                                         *)
LEMMA PartnerFindStep ==
    ASSUME IInv, NEW r \in Partner, PartnerFind(r)
    PROVE  IInv'
  <1>1. pc[r] = "find" /\ UNCHANGED <<ticket, form, results, bearer, issued>>
    BY DEF PartnerFind
  <1>2. Keeps /\ CodesUnique' /\ Stored' = Stored
    BY <1>1, KeepsUnchanged, UniqueUnchanged DEF IInv
  <1>3. CASE Goto(r, "not_found") /\ UNCHANGED loaded
    <2>1. TypeOK'
      BY <1>1, <1>3 DEF IInv, TypeOK, Goto, Ended
    <2>2. pc'[r] = "not_found" /\ OthersStay(r)
      BY <1>1, <1>3 DEF IInv, TypeOK, Goto, Requests, OthersStay
    <2>3. PartnerAt(r)'
      BY <1>1, <2>2 DEF IInv, PartnerAt, PartnerPositions
    <2> QED
      BY <1>1, <1>2, <1>3, <2>1, <2>2, <2>3, PartnerStepFrame
  <1>4. ASSUME NEW t \in WithCode(form[r].code),
               loaded' = [loaded EXCEPT ![r] = t], Goto(r, "user")
        PROVE  IInv'
    <2>1. t \in Stored /\ t \in TicketIds /\ ticket[t].code = form[r].code
      BY DEF WithCode, Stored
    <2>2. TypeOK'
      BY <1>1, <1>4, <2>1 DEF IInv, TypeOK, Goto, Working
    <2>3. pc'[r] = "user" /\ loaded'[r] = t /\ OthersStay(r)
      BY <1>1, <1>4 DEF IInv, TypeOK, Goto, Requests, OthersStay
    <2>4. PartnerAt(r)'
      BY <1>1, <1>2, <2>1, <2>3 DEF IInv, PartnerAt, PartnerPositions
    <2>5. \A s \in Requests \ {r} : s \in Desk \cup Partner =>
                                       loaded'[s] = loaded[s]
      BY <1>4 DEF IInv, TypeOK
    <2> QED
      BY <1>1, <1>2, <2>2, <2>3, <2>4, <2>5, PartnerStepFrame
  <1> QED
    BY <1>3, <1>4 DEF PartnerFind

(* The account of the partner's user is read.                              *)
LEMMA PartnerUserStep ==
    ASSUME IInv, NEW r \in Partner, PartnerUser(r)
    PROVE  IInv'
  <1>1. /\ pc[r] = "user"
        /\ Goto(r, "modify")
        /\ UNCHANGED <<ticket, form, loaded, results, issued>>
    BY DEF PartnerUser
  <1>2. bearer' \in [Partner -> Users \cup {None}]
    BY DEF PartnerUser, IInv, TypeOK
  <1>3. Keeps /\ CodesUnique' /\ Stored' = Stored
    BY <1>1, KeepsUnchanged, UniqueUnchanged DEF IInv
  <1>4. TypeOK'
    BY <1>1, <1>2 DEF IInv, TypeOK, Goto, Working
  <1>5. pc'[r] = "modify" /\ OthersStay(r)
    BY <1>1 DEF IInv, TypeOK, Goto, Requests, OthersStay
  <1>6. PartnerAt(r)'
    BY <1>1, <1>3, <1>5 DEF IInv, PartnerAt, PartnerPositions
  <1> QED
    BY <1>1, <1>3, <1>4, <1>5, <1>6, PartnerStepFrame

(* What a call is about to record, and where.                              *)
LEMMA PartnerRedemptionType ==
    ASSUME IInv, NEW r \in Partner, pc[r] = "modify"
    PROVE  /\ loaded[r] \in TicketIds
           /\ loaded[r] \in Stored
           /\ PartnerRedemption(r) \in Redemption
  BY DEF IInv, TypeOK, PartnerAt, PartnerRedemption, Redemption, Stored

(* The conditional update: redeemed by it, or redeemed already.            *)
LEMMA PartnerModifyStep ==
    ASSUME IInv, NEW r \in Partner, PartnerModify(r)
    PROVE  IInv'
  <1>1. pc[r] = "modify" /\ UNCHANGED <<form, loaded, results, bearer, issued>>
    BY DEF PartnerModify
  <1>2. /\ loaded[r] \in TicketIds
        /\ loaded[r] \in Stored
        /\ PartnerRedemption(r) \in Redemption
    BY <1>1, PartnerRedemptionType
  <1>3. CASE Record(loaded[r], PartnerRedemption(r)) /\ Goto(r, "created")
    <2>1. /\ Keeps
          /\ CodesUnique'
          /\ ticket' \in [TicketIds -> Ticket \cup {None}]
          /\ Stored' = Stored
          /\ ticket'[loaded[r]].redeemed # None
      BY <1>2, <1>3, KeepsRecord, RecordEffect, NoneAssumption DEF IInv, TypeOK
    <2>2. TypeOK'
      BY <1>1, <1>3, <2>1 DEF IInv, TypeOK, Goto, Ended
    <2>3. pc'[r] = "created" /\ OthersStay(r)
      BY <1>1, <1>3 DEF IInv, TypeOK, Goto, Requests, OthersStay
    <2>4. PartnerAt(r)'
      BY <1>1, <1>2, <2>1, <2>3
      DEF IInv, PartnerAt, PartnerPositions, Redeemed, Keeps
    <2> QED
      BY <1>1, <2>1, <2>2, <2>3, <2>4, PartnerStepFrame
  <1>4. CASE /\ ticket[loaded[r]].redeemed # None
             /\ Goto(r, "conflict")
             /\ UNCHANGED ticket
    <2>1. Keeps /\ CodesUnique' /\ Stored' = Stored
      BY <1>4, KeepsUnchanged, UniqueUnchanged DEF IInv
    <2>2. TypeOK'
      BY <1>1, <1>4 DEF IInv, TypeOK, Goto, Ended
    <2>3. pc'[r] = "conflict" /\ OthersStay(r)
      BY <1>1, <1>4 DEF IInv, TypeOK, Goto, Requests, OthersStay
    <2>4. PartnerAt(r)'
      BY <1>1, <1>2, <1>4, <2>1, <2>3
      DEF IInv, PartnerAt, PartnerPositions, Redeemed
    <2> QED
      BY <1>1, <2>1, <2>2, <2>3, <2>4, PartnerStepFrame
  <1> QED
    BY <1>3, <1>4 DEF PartnerModify

(* A round trip of a call fails, after the update or before it.            *)
LEMMA PartnerFailStep ==
    ASSUME IInv, NEW r \in Partner, PartnerFail(r)
    PROVE  IInv'
  <1>1. /\ pc[r] \in {"find", "user", "modify"}
        /\ Goto(r, "error")
        /\ UNCHANGED <<form, loaded, results, bearer, issued>>
    BY DEF PartnerFail
  <1>2. /\ Keeps
        /\ CodesUnique'
        /\ ticket' \in [TicketIds -> Ticket \cup {None}]
    <2>1. CASE UNCHANGED ticket
      BY <2>1, KeepsUnchanged, UniqueUnchanged DEF IInv, TypeOK
    <2>2. CASE pc[r] = "modify" /\ Record(loaded[r], PartnerRedemption(r))
      BY <2>2, PartnerRedemptionType, KeepsRecord, RecordEffect
      DEF IInv, TypeOK
    <2> QED
      BY <2>1, <2>2 DEF PartnerFail
  <1>3. TypeOK'
    BY <1>1, <1>2 DEF IInv, TypeOK, Goto, Ended
  <1>4. pc'[r] = "error" /\ OthersStay(r)
    BY <1>1 DEF IInv, TypeOK, Goto, Requests, OthersStay
  <1>5. PartnerAt(r)'
    BY <1>1, <1>4 DEF IInv, PartnerAt, PartnerPositions
  <1> QED
    BY <1>1, <1>2, <1>3, <1>4, <1>5, PartnerStepFrame

-----------------------------------------------------------------------------
(* The steps of a Clerk request.                                           *)

(* What an issue request's step has to establish.                          *)
LEMMA ClerkStepFrame ==
    ASSUME IInv, NEW r \in Clerk,
           TypeOK', Keeps, CodesUnique', ClerkAt(r)',
           OthersStay(r),
           \A s \in Clerk \ {r} : issued'[s] = issued[s],
           UNCHANGED <<loaded, results>>
    PROVE  IInv'
  <1>1. ASSUME NEW s \in Desk PROVE DeskAt(s)'
    BY <1>1, DeskFrame, KindsAssumption DEF IInv, OthersStay, Requests
  <1>2. ASSUME NEW s \in Partner PROVE PartnerAt(s)'
    BY <1>2, PartnerFrame, KindsAssumption DEF IInv, OthersStay, Requests
  <1>3. ASSUME NEW s \in Clerk PROVE ClerkAt(s)'
    BY <1>3, ClerkFrame DEF IInv, OthersStay, Requests
  <1> QED
    BY <1>1, <1>2, <1>3 DEF IInv

(* An issue form arrives: an accepted one has a recipient and a sender.    *)
LEMMA ClerkBeginStep ==
    ASSUME IInv, NEW r \in Clerk, ClerkBegin(r)
    PROVE  IInv'
  <1>1. PICK f \in ClerkForms, recipientExists \in BOOLEAN :
          /\ form' = [form EXCEPT ![r] = f]
          /\ Goto(r, ClerkVerdict(f, recipientExists))
    BY DEF ClerkBegin
  <1>2. pc[r] = "idle" /\ UNCHANGED <<ticket, loaded, results, bearer, issued>>
    BY DEF ClerkBegin
  <1> DEFINE verdict == ClerkVerdict(f, recipientExists)
  <1>3. /\ verdict \in {"bad_request", "forbidden", "insert"}
        /\ verdict = "insert" => f.to \in Owners /\ f.by \in Users
    BY DEF ClerkVerdict, ClerkForms
  <1>4. TypeOK'
    BY <1>1, <1>2, <1>3, KindsAssumption
    DEF IInv, TypeOK, Goto, Requests, Working, Ended
  <1>5. form'[r] = f /\ pc'[r] = verdict /\ OthersStay(r)
    BY <1>1 DEF IInv, TypeOK, Goto, Requests, OthersStay
  <1>6. issued[r].attempts < MAX_CODE_ATTEMPTS
    BY <1>2, LimitsAssumption DEF IInv, ClerkAt
  <1>7. ClerkAt(r)'
    BY <1>2, <1>3, <1>5, <1>6 DEF ClerkAt, ClerkPositions
  <1>8. Keeps /\ CodesUnique'
    BY <1>2, KeepsUnchanged, UniqueUnchanged DEF IInv
  <1> QED
    BY <1>2, <1>4, <1>5, <1>7, <1>8, ClerkStepFrame

(* A ticket is inserted under a code that no other ticket has.             *)
LEMMA ClerkInsertStep ==
    ASSUME IInv, NEW r \in Clerk, ClerkInsert(r)
    PROVE  IInv'
  <1>1. pc[r] = "insert" /\ UNCHANGED <<form, loaded, results, bearer>>
    BY DEF ClerkInsert
  <1>2. PICK t \in TicketIds, c \in Codes :
          /\ Insert(r, t, c)
          /\ issued' = [issued EXCEPT ![r] =
                          [tickets |-> issued[r].tickets \cup {t},
                           attempts |-> 0]]
    BY DEF ClerkInsert
  <1>3. form[r] \in ClerkForms /\ form[r].to \in Owners /\ form[r].by \in Users
    BY <1>1 DEF IInv, ClerkAt
  <1>4. Keeps /\ CodesUnique' /\ ticket' \in [TicketIds -> Ticket \cup {None}]
    BY <1>2, <1>3, KeepsInsert, InsertEffect DEF IInv, TypeOK
  <1>5. PICK where \in {"issued", "insert"} : Goto(r, where)
    BY DEF ClerkInsert
  <1>6. /\ issued'[r].attempts = 0
        /\ \A s \in Clerk \ {r} : issued'[s] = issued[s]
        /\ issued' \in [Clerk -> [tickets : SUBSET TicketIds,
                                  attempts : 0..MAX_CODE_ATTEMPTS]]
    BY <1>2, LimitsAssumption DEF IInv, TypeOK
  <1>7. TypeOK'
    BY <1>1, <1>4, <1>5, <1>6 DEF IInv, TypeOK, Goto, Working, Ended
  <1>8. pc'[r] = where /\ OthersStay(r)
    BY <1>1, <1>5 DEF IInv, TypeOK, Goto, Requests, OthersStay
  <1>9. ClerkAt(r)'
    BY <1>1, <1>3, <1>6, <1>8, LimitsAssumption DEF ClerkAt, ClerkPositions
  <1> QED
    BY <1>1, <1>4, <1>6, <1>7, <1>8, <1>9, ClerkStepFrame

(* A code is taken: the attempts stay within their limit.                  *)
LEMMA ClerkCollisionStep ==
    ASSUME IInv, NEW r \in Clerk, ClerkCollision(r)
    PROVE  IInv'
  <1>1. /\ pc[r] = "insert"
        /\ UNCHANGED <<ticket, form, loaded, results, bearer>>
        /\ issued' = [issued EXCEPT ![r].attempts = issued[r].attempts + 1]
        /\ Goto(r, IF issued'[r].attempts = MAX_CODE_ATTEMPTS
                     THEN "error" ELSE "insert")
    BY DEF ClerkCollision
  <1>2. /\ form[r] \in ClerkForms
        /\ form[r].to \in Owners
        /\ form[r].by \in Users
        /\ issued[r].attempts < MAX_CODE_ATTEMPTS
    BY <1>1 DEF IInv, ClerkAt
  <1> DEFINE i == [issued[r] EXCEPT !.attempts = issued[r].attempts + 1]
             Counts == [tickets : SUBSET TicketIds,
                        attempts : 0..MAX_CODE_ATTEMPTS]
  <1>3. /\ issued'[r].attempts = issued[r].attempts + 1
        /\ issued[r].attempts \in Nat
        /\ issued'[r].attempts \in 0..MAX_CODE_ATTEMPTS
        /\ \A s \in Clerk \ {r} : issued'[s] = issued[s]
        /\ issued' \in [Clerk -> Counts]
    <2>1. issued \in [Clerk -> Counts] /\ issued[r] \in Counts
      BY DEF IInv, TypeOK
    <2>2. issued[r].attempts \in Nat
      BY <2>1, LimitsAssumption
    <2>3. i.attempts = issued[r].attempts + 1 /\ i.tickets = issued[r].tickets
      BY <2>1
    <2>4. issued[r].attempts + 1 \in 0..MAX_CODE_ATTEMPTS
      BY <1>2, <2>2, LimitsAssumption
    <2>5. i \in Counts
      BY <2>1, <2>4
    <2>6. issued' = [issued EXCEPT ![r] = i]
      BY <1>1
    <2> HIDE DEF i, Counts
    <2> QED
      BY <2>1, <2>2, <2>3, <2>4, <2>5, <2>6
  <1>4. TypeOK'
    BY <1>1, <1>3 DEF IInv, TypeOK, Goto, Working, Ended
  <1>5. /\ pc'[r] = IF issued'[r].attempts = MAX_CODE_ATTEMPTS
                      THEN "error" ELSE "insert"
        /\ OthersStay(r)
    BY <1>1 DEF IInv, TypeOK, Goto, Requests, OthersStay
  <1>6. ClerkAt(r)'
    BY <1>1, <1>2, <1>3, <1>5, LimitsAssumption DEF ClerkAt, ClerkPositions
  <1>7. Keeps /\ CodesUnique'
    BY <1>1, KeepsUnchanged, UniqueUnchanged DEF IInv
  <1> QED
    BY <1>1, <1>3, <1>4, <1>5, <1>6, <1>7, ClerkStepFrame

(* An insert fails, with a ticket stored or without.                       *)
LEMMA ClerkFailStep ==
    ASSUME IInv, NEW r \in Clerk, ClerkFail(r)
    PROVE  IInv'
  <1>1. /\ pc[r] = "insert"
        /\ Goto(r, "error")
        /\ UNCHANGED <<form, loaded, results, bearer, issued>>
    BY DEF ClerkFail
  <1>2. /\ form[r] \in ClerkForms
        /\ form[r].to \in Owners
        /\ form[r].by \in Users
    BY <1>1 DEF IInv, ClerkAt
  <1>3. /\ Keeps
        /\ CodesUnique'
        /\ ticket' \in [TicketIds -> Ticket \cup {None}]
    <2>1. CASE UNCHANGED ticket
      BY <2>1, KeepsUnchanged, UniqueUnchanged DEF IInv, TypeOK
    <2>2. ASSUME NEW t \in TicketIds, NEW c \in Codes, Insert(r, t, c)
          PROVE  /\ Keeps
                 /\ CodesUnique'
                 /\ ticket' \in [TicketIds -> Ticket \cup {None}]
      BY <1>2, <2>2, KeepsInsert, InsertEffect DEF IInv, TypeOK
    <2> QED
      BY <2>1, <2>2 DEF ClerkFail
  <1>4. TypeOK'
    BY <1>1, <1>3 DEF IInv, TypeOK, Goto, Ended
  <1>5. pc'[r] = "error" /\ OthersStay(r)
    BY <1>1 DEF IInv, TypeOK, Goto, Requests, OthersStay
  <1>6. ClerkAt(r)'
    BY <1>1, <1>2, <1>5 DEF ClerkAt, ClerkPositions
  <1> QED
    BY <1>1, <1>3, <1>4, <1>5, <1>6, ClerkStepFrame

-----------------------------------------------------------------------------
(* The invariant of the specification.                                     *)

(* The invariant holds of the empty collection.                            *)
LEMMA InitInv == Init => IInv
  <1> SUFFICES ASSUME Init PROVE IInv
    OBVIOUS
  <1>1. TypeOK
    <2>1. [tickets |-> {}, attempts |-> 0]
             \in [tickets : SUBSET TicketIds, attempts : 0..MAX_CODE_ATTEMPTS]
      BY LimitsAssumption
    <2>2. <<>> \in Seq(Entries)
      BY EmptySeq
    <2> QED
      BY <2>1, <2>2 DEF Init, TypeOK, Requests
  <1>2. \A r \in Desk : DeskAt(r)
    BY DEF Init, DeskAt, DeskPositions, Requests
  <1>3. \A r \in Partner : PartnerAt(r)
    BY DEF Init, PartnerAt, PartnerPositions, Requests
  <1>4. \A r \in Clerk : ClerkAt(r)
    BY LimitsAssumption DEF Init, ClerkAt, ClerkPositions, Requests
  <1>5. CodesUnique
    BY DEF Init, CodesUnique, Stored
  <1> QED
    BY <1>1, <1>2, <1>3, <1>4, <1>5 DEF IInv

(* It holds on while nothing happens.                                      *)
LEMMA StutterInv == IInv /\ UNCHANGED vars => IInv'
  <1> SUFFICES ASSUME IInv, UNCHANGED vars PROVE IInv'
    OBVIOUS
  <1>1. TypeOK'
    BY DEF IInv, TypeOK, vars
  <1>2. Keeps /\ CodesUnique'
    BY KeepsUnchanged, UniqueUnchanged DEF IInv, vars
  <1>3. \A r \in Desk : DeskAt(r)'
    BY <1>2, DeskFrame DEF IInv, vars
  <1>4. \A r \in Partner : PartnerAt(r)'
    BY <1>2, PartnerFrame DEF IInv, vars
  <1>5. \A r \in Clerk : ClerkAt(r)'
    BY ClerkFrame DEF IInv, vars
  <1> QED
    BY <1>1, <1>2, <1>3, <1>4, <1>5 DEF IInv

(* It is inductive: one lemma above for each action.                       *)
LEMMA NextInv == IInv /\ [Next]_vars => IInv'
  <1> SUFFICES ASSUME IInv, [Next]_vars PROVE IInv'
    OBVIOUS
  <1>1. ASSUME NEW r \in Desk, DeskBegin(r) \/ DeskStep(r) \/ DeskFail(r)
        PROVE  IInv'
    BY <1>1, DeskBeginStep, DeskFindStep, DeskSaveStep, DeskFailStep
    DEF DeskStep
  <1>2. ASSUME NEW r \in Partner,
               PartnerBegin(r) \/ PartnerStep(r) \/ PartnerFail(r)
        PROVE  IInv'
    BY <1>2, PartnerBeginStep, PartnerFindStep, PartnerUserStep,
       PartnerModifyStep, PartnerFailStep
    DEF PartnerStep
  <1>3. ASSUME NEW r \in Clerk, ClerkBegin(r) \/ ClerkStep(r) \/ ClerkFail(r)
        PROVE  IInv'
    BY <1>3, ClerkBeginStep, ClerkInsertStep, ClerkCollisionStep, ClerkFailStep
    DEF ClerkStep
  <1>4. CASE UNCHANGED vars
    BY <1>4, StutterInv
  <1> QED
    BY <1>1, <1>2, <1>3, <1>4 DEF Next, AllEnded

(* Every reachable state satisfies the inductive invariant: the state of   *)
(* each handler's local variables is the one its position promises.        *)
THEOREM Invariance == Spec => []IInv
  BY InitInv, NextInv, PTL DEF Spec

(* Type correctness of the specification.                                  *)
THEOREM TypeCorrect == Spec => []TypeOK
  BY Invariance, PTL DEF IInv

(* No two tickets ever share a code, whatever the clerks draw.             *)
THEOREM CodesAreUnique == Spec => []CodesUnique
  BY Invariance, PTL DEF IInv

-----------------------------------------------------------------------------
(* At most one redemption of a ticket is answered 201.                     *)

(* A call is newly answered 201 only by its own PartnerModify, on a ticket *)
(* that was not redeemed before.                                           *)
LEMMA NewlyCreated ==
    ASSUME IInv, [Next]_vars, NEW r \in Partner, pc'[r] = "created"
    PROVE  /\ loaded'[r] = loaded[r]
           /\ \/ pc[r] = "created"
              \/ /\ PartnerModify(r)
                 /\ ticket[loaded[r]].redeemed = None
  <1>1. CASE UNCHANGED vars
    BY <1>1 DEF vars
  <1>2. ASSUME NEW s \in Desk, DeskBegin(s) \/ DeskStep(s) \/ DeskFail(s)
        PROVE  pc[r] = "created" /\ loaded'[r] = loaded[r]
    <2>1. r # s /\ r \in Requests
      BY KindsAssumption DEF Requests
    <2>2. pc'[r] = pc[r]
      BY <1>2, <2>1 DEF IInv, TypeOK, DeskBegin, DeskStep, DeskFind, DeskSave,
                        DeskFail, Report, Goto
    <2>3. loaded'[r] = loaded[r]
      BY <1>2, <2>1 DEF IInv, TypeOK, DeskBegin, DeskStep, DeskFind, DeskSave,
                        DeskFail
    <2> QED
      BY <2>2, <2>3
  <1>3. ASSUME NEW s \in Clerk, ClerkBegin(s) \/ ClerkStep(s) \/ ClerkFail(s)
        PROVE  pc[r] = "created" /\ loaded'[r] = loaded[r]
    <2>1. r # s /\ r \in Requests
      BY KindsAssumption DEF Requests
    <2> QED
      BY <1>3, <2>1 DEF IInv, TypeOK, ClerkBegin, ClerkStep, ClerkInsert,
                        ClerkCollision, ClerkFail, Goto
  <1>4. ASSUME NEW s \in Partner \ {r},
               PartnerBegin(s) \/ PartnerStep(s) \/ PartnerFail(s)
        PROVE  pc[r] = "created" /\ loaded'[r] = loaded[r]
    <2>1. r # s /\ r \in Requests
      BY DEF Requests
    <2> QED
      BY <1>4, <2>1 DEF IInv, TypeOK, PartnerBegin, PartnerStep, PartnerFind,
                        PartnerUser, PartnerModify, PartnerFail, Goto
  <1>5. ASSUME \/ PartnerBegin(r) \/ PartnerFind(r)
               \/ PartnerUser(r) \/ PartnerFail(r)
        PROVE  FALSE
    <2>1. r \in Requests
      BY DEF Requests
    <2> QED
      BY <1>5, <2>1 DEF IInv, TypeOK, PartnerBegin, PartnerFind, PartnerUser,
                        PartnerFail, Goto
  <1>6. ASSUME PartnerModify(r)
        PROVE  loaded'[r] = loaded[r] /\ ticket[loaded[r]].redeemed = None
    <2>1. r \in Requests
      BY DEF Requests
    <2> QED
      BY <1>6, <2>1 DEF IInv, TypeOK, PartnerModify, Goto
  <1> QED
    BY <1>1, <1>2, <1>3, <1>4, <1>5, <1>6 DEF Next, AllEnded, PartnerStep

(* A call is answered 201 only if the ticket was unredeemed, which no      *)
(* other call answered 201 can then claim.                                 *)
LEMMA OnceStep ==
    ASSUME IInv, ApiRedeemedOnce, [Next]_vars
    PROVE  ApiRedeemedOnce'
  <1> SUFFICES ASSUME NEW r \in Partner, NEW s \in Partner,
                      pc'[r] = "created", pc'[s] = "created",
                      loaded'[r] = loaded'[s]
               PROVE  r = s
    BY DEF ApiRedeemedOnce
  <1>1. loaded[r] = loaded[s]
    BY NewlyCreated
  <1>2. \A q \in Partner : pc[q] = "created" => ticket[loaded[q]].redeemed # None
    BY DEF IInv, PartnerAt, Redeemed
  <1>3. CASE pc[r] = "created" /\ pc[s] = "created"
    BY <1>1, <1>3 DEF ApiRedeemedOnce
  <1>4. CASE PartnerModify(r) /\ ticket[loaded[r]].redeemed = None
    <2> SUFFICES ASSUME r # s PROVE FALSE
      OBVIOUS
    <2>1. pc[s] # "created"
      BY <1>1, <1>2, <1>4
    <2>2. r \in Requests /\ s \in Requests
      BY DEF Requests
    <2>3. pc'[s] = pc[s]
      BY <1>4, <2>2 DEF IInv, TypeOK, PartnerModify, Goto
    <2> QED
      BY <2>1, <2>3
  <1>5. CASE PartnerModify(s) /\ ticket[loaded[s]].redeemed = None
    <2> SUFFICES ASSUME r # s PROVE FALSE
      OBVIOUS
    <2>1. pc[r] # "created"
      BY <1>1, <1>2, <1>5
    <2>2. r \in Requests /\ s \in Requests
      BY DEF Requests
    <2>3. pc'[r] = pc[r]
      BY <1>5, <2>2 DEF IInv, TypeOK, PartnerModify, Goto
    <2> QED
      BY <2>1, <2>3
  <1> QED
    BY <1>3, <1>4, <1>5, NewlyCreated

(* Of all the API calls for one ticket, at most one is answered 201, for   *)
(* any number of calls, desk requests and tickets.                         *)
THEOREM ApiOnce == Spec => []ApiRedeemedOnce
  <1>1. Init => ApiRedeemedOnce
    BY DEF Init, ApiRedeemedOnce, Requests
  <1> QED
    BY <1>1, OnceStep, Invariance, PTL DEF Spec

-----------------------------------------------------------------------------
(* The collection implements the ledger, and a settled ticket is final.    *)

(* What a step does to the collection: nothing, one insert by a clerk, one *)
(* redemption by a desk, or one first redemption by a partner.             *)
DeskRecords(r) ==
    /\ DeskSave(r) \/ DeskFail(r)
    /\ pc[r] = "save"
    /\ Record(loaded[r], DeskRedemption(r))

PartnerRecords(r) ==
    /\ pc[r] = "modify"
    /\ ticket[loaded[r]].redeemed = None
    /\ Record(loaded[r], PartnerRedemption(r))

ClerkInserts(r) ==
    /\ pc[r] = "insert"
    /\ \E t \in TicketIds, c \in Codes : Insert(r, t, c)

(* The collection changes by a recorded redemption or an insert only.      *)
LEMMA StepKinds ==
    ASSUME [Next]_vars
    PROVE  \/ UNCHANGED ticket
           \/ \E r \in Desk : DeskRecords(r)
           \/ \E r \in Partner : PartnerRecords(r)
           \/ \E r \in Clerk : ClerkInserts(r)
  <1>1. CASE UNCHANGED vars
    BY <1>1 DEF vars
  <1>2. ASSUME NEW r \in Desk, DeskBegin(r) \/ DeskStep(r) \/ DeskFail(r)
        PROVE  UNCHANGED ticket \/ DeskRecords(r)
    BY <1>2 DEF DeskBegin, DeskStep, DeskFind, DeskSave, DeskFail, DeskRecords
  <1>3. ASSUME NEW r \in Partner,
               PartnerBegin(r) \/ PartnerStep(r) \/ PartnerFail(r)
        PROVE  UNCHANGED ticket \/ PartnerRecords(r)
    BY <1>3 DEF PartnerBegin, PartnerStep, PartnerFind, PartnerUser,
                PartnerModify, PartnerFail, PartnerRecords
  <1>4. ASSUME NEW r \in Clerk, ClerkBegin(r) \/ ClerkStep(r) \/ ClerkFail(r)
        PROVE  UNCHANGED ticket \/ ClerkInserts(r)
    BY <1>4 DEF ClerkBegin, ClerkStep, ClerkInsert, ClerkCollision, ClerkFail,
                ClerkInserts
  <1> QED
    BY <1>1, <1>2, <1>3, <1>4 DEF Next, AllEnded

(* The ledger's variables, as functions of the collection.                 *)
issueMap == [t \in TicketIds |-> IssuePart(t)]
redemptionMap ==
    [t \in TicketIds |-> IF t \in Stored THEN ticket[t].redeemed ELSE None]

(* Recording a redemption is the same change of the ledger.                *)
LEMMA RecordMaps ==
    ASSUME TypeOK, NEW t \in TicketIds, t \in Stored, NEW x \in Redemption,
           Record(t, x)
    PROVE  /\ issueMap' = issueMap
           /\ redemptionMap' = [redemptionMap EXCEPT ![t] = x]
           /\ issueMap[t] # None
           /\ redemptionMap[t] = ticket[t].redeemed
  <1>1. ticket \in [TicketIds -> Ticket \cup {None}]
    BY DEF TypeOK
  <1>2. /\ Stored' = Stored
        /\ \A u \in Stored :
             /\ ticket'[u].code = ticket[u].code
             /\ ticket'[u].issued_to = ticket[u].issued_to
             /\ ticket'[u].issued_by = ticket[u].issued_by
             /\ u # t => ticket'[u] = ticket[u]
        /\ ticket'[t].redeemed = x
    BY <1>1, RecordEffect
  <1>3. \A u \in TicketIds : IssuePart(u)' = IssuePart(u)
    BY <1>2 DEF IssuePart
  <1>4. issueMap' = issueMap
    BY <1>3 DEF issueMap
  <1>5. redemptionMap' = [redemptionMap EXCEPT ![t] = x]
    BY <1>2 DEF redemptionMap
  <1>6. ticket[t] \in Ticket
    BY <1>1 DEF Stored
  <1>7. IssuePart(t) \in IssueData
    BY <1>6 DEF IssuePart, Ticket, IssueData
  <1>8. issueMap[t] # None
    BY <1>7, NoneAssumption DEF issueMap
  <1>9. redemptionMap[t] = ticket[t].redeemed
    BY DEF redemptionMap
  <1> QED
    BY <1>4, <1>5, <1>8, <1>9

(* A recorded redemption is a step of the ledger.                          *)
LEMMA RecordIsLedgerStep ==
    ASSUME IInv, NEW t \in TicketIds, t \in Stored, NEW x \in Redemption,
           Record(t, x),
           ticket[t].redeemed = None \/ x.req \in Desk
    PROVE  Ledger!Next
  <1>1. /\ issueMap' = issueMap
        /\ redemptionMap' = [redemptionMap EXCEPT ![t] = x]
        /\ issueMap[t] # None
        /\ redemptionMap[t] = ticket[t].redeemed
    BY RecordMaps DEF IInv
  <1>2. CASE redemptionMap[t] = None
    <2>1. Ledger!Redeem(t, x)
      BY <1>1, <1>2 DEF Ledger!Redeem, issueMap, redemptionMap
    <2> QED
      BY <2>1 DEF Ledger!Next
  <1>3. CASE redemptionMap[t] # None
    <2>1. x \in {y \in Redemption : y.req \in Desk}
      BY <1>1, <1>3
    <2>2. Ledger!Rerecord(t, x)
      BY <1>1, <1>3, <2>1 DEF Ledger!Rerecord, issueMap, redemptionMap
    <2> QED
      BY <2>2 DEF Ledger!Next
  <1> QED
    BY <1>2, <1>3

(* Every step of the requests is a step of the ledger, or leaves it alone. *)
LEMMA LedgerStep ==
    ASSUME IInv, [Next]_vars
    PROVE  [Ledger!Next]_(Ledger!vars)
  <1> DEFINE Step == [Ledger!Next]_(Ledger!vars)
  <1>1. CASE UNCHANGED ticket
    <2>1. \A t \in TicketIds : IssuePart(t)' = IssuePart(t)
      BY <1>1 DEF IssuePart, Stored
    <2>2. issueMap' = issueMap
      BY <2>1 DEF issueMap
    <2>3. redemptionMap' = redemptionMap
      BY <1>1 DEF redemptionMap, Stored
    <2> QED
      BY <2>2, <2>3 DEF Ledger!vars, issueMap, redemptionMap
  <1>2. ASSUME NEW r \in Desk, DeskRecords(r)
        PROVE  Step
    <2>1. DeskRedemption(r).req \in Desk
      BY DEF DeskRedemption
    <2> QED
      BY <1>2, <2>1, DeskRedemptionType, RecordIsLedgerStep DEF DeskRecords
  <1>3. ASSUME NEW r \in Partner, PartnerRecords(r)
        PROVE  Step
    BY <1>3, PartnerRedemptionType, RecordIsLedgerStep DEF PartnerRecords
  <1>4. ASSUME NEW r \in Clerk, ClerkInserts(r)
        PROVE  Step
    <2>1. PICK t \in TicketIds, c \in Codes : Insert(r, t, c)
      BY <1>4 DEF ClerkInserts
    <2>2. form[r].to \in Owners /\ form[r].by \in Users
      BY <1>4 DEF IInv, ClerkAt, ClerkInserts
    <2> DEFINE i == [code |-> c, issued_to |-> form[r].to,
                     issued_by |-> form[r].by]
    <2>3. i \in IssueData
      BY <2>2 DEF IssueData
    <2>4. /\ Stored' = Stored \cup {t}
          /\ t \notin Stored
          /\ \A u \in Stored : ticket'[u] = ticket[u]
          /\ ticket'[t] = NewTicket(r, c)
      BY <2>1, <2>2, InsertEffect DEF IInv, TypeOK
    <2>5. IssuePart(t)' = i
      BY <2>4 DEF IssuePart, NewTicket
    <2>6. \A u \in TicketIds \ {t} : IssuePart(u)' = IssuePart(u)
      BY <2>4 DEF IssuePart
    <2>7. issueMap' = [issueMap EXCEPT ![t] = i]
      BY <2>5, <2>6 DEF issueMap
    <2>8. redemptionMap' = redemptionMap
      BY <2>4 DEF redemptionMap, NewTicket
    <2>9. issueMap[t] = None
      BY <2>4 DEF issueMap, IssuePart
    <2>10. c \notin Ledger!CodesInUse
      <3>1. \A u \in Stored : ticket[u].code # c
        BY <2>1 DEF Insert, WithCode
      <3>2. \A u \in TicketIds : issueMap[u] # None => issueMap[u].code # c
        BY <3>1 DEF issueMap, IssuePart
      <3> QED
        BY <3>2 DEF Ledger!CodesInUse, issueMap
    <2>11. i.code = c
      OBVIOUS
    <2> HIDE DEF i
    <2>12. Ledger!Issue(t, i)
      BY <2>7, <2>8, <2>9, <2>10, <2>11 DEF Ledger!Issue, issueMap, redemptionMap
    <2> QED
      BY <2>3, <2>12 DEF Ledger!Next
  <1> QED
    BY <1>1, <1>2, <1>3, <1>4, StepKinds

(* The ticket collection implements the ledger: issue data never changes,  *)
(* a redemption is never taken back, and only web-form requests can record *)
(* one over another.                                                       *)
THEOREM ImplementsLedger == Spec => LedgerSpec
  <1>1. Init => Ledger!Init
    BY DEF Init, Ledger!Init, IssuePart, Stored
  <1> QED
    BY <1>1, LedgerStep, Invariance, PTL DEF Spec, LedgerSpec, Ledger!Spec

(* No Desk request comes to hold a ticket that is redeemed already.        *)
LEMMA SettledStep ==
    ASSUME IInv, [Next]_vars, NEW t \in TicketIds, Settled(t)
    PROVE  Settled(t)' /\ ticket'[t] = ticket[t]
  <1>1. t \in Stored /\ ticket[t].redeemed # None
    BY DEF Settled, Redeemed
  <1>2. ticket \in [TicketIds -> Ticket \cup {None}]
    BY DEF IInv, TypeOK
  <1>3. ticket'[t] = ticket[t]
    <2>1. ASSUME NEW r \in Desk, DeskRecords(r) PROVE ticket'[t] = ticket[t]
      BY <1>1, <1>2, <2>1, DeskRedemptionType, RecordEffect
      DEF DeskRecords, Settled
    <2>2. ASSUME NEW r \in Partner, PartnerRecords(r)
          PROVE  ticket'[t] = ticket[t]
      BY <1>1, <1>2, <2>2, PartnerRedemptionType, RecordEffect
      DEF PartnerRecords
    <2>3. ASSUME NEW r \in Clerk, ClerkInserts(r) PROVE ticket'[t] = ticket[t]
      BY <1>1, <1>2, <2>3 DEF ClerkInserts, Insert
    <2> QED
      BY <2>1, <2>2, <2>3, StepKinds
  <1>4. Redeemed(t)'
    BY <1>1, <1>3 DEF Redeemed, Stored
  <1>5. ASSUME NEW r \in Desk, pc'[r] = "save", loaded'[r] = t
        PROVE  FALSE
    <2>1. ~(pc[r] = "save" /\ loaded[r] = t)
      BY DEF Settled
    <2>2. r \in Requests
      BY DEF Requests
    <2>3. CASE UNCHANGED vars
      BY <1>5, <2>1, <2>3 DEF vars
    <2>4. ASSUME NEW s \in Desk \ {r}, DeskBegin(s) \/ DeskStep(s) \/ DeskFail(s)
          PROVE  FALSE
      <3>1. pc'[r] = pc[r]
        BY <2>2, <2>4 DEF IInv, TypeOK, DeskBegin, DeskStep, DeskFind, DeskSave,
                          DeskFail, Report, Goto
      <3>2. loaded'[r] = loaded[r]
        BY <2>4 DEF IInv, TypeOK, DeskBegin, DeskStep, DeskFind, DeskSave, DeskFail
      <3> QED
        BY <1>5, <2>1, <3>1, <3>2
    <2>5. ASSUME NEW s \in Partner,
                 PartnerBegin(s) \/ PartnerStep(s) \/ PartnerFail(s)
          PROVE  FALSE
      <3>1. r # s
        BY KindsAssumption
      <3>2. pc'[r] = pc[r] /\ loaded'[r] = loaded[r]
        BY <2>2, <2>5, <3>1
        DEF IInv, TypeOK, PartnerBegin, PartnerStep, PartnerFind, PartnerUser,
            PartnerModify, PartnerFail, Goto
      <3> QED
        BY <1>5, <2>1, <3>2
    <2>6. ASSUME NEW s \in Clerk, ClerkBegin(s) \/ ClerkStep(s) \/ ClerkFail(s)
          PROVE  FALSE
      <3>1. r # s
        BY KindsAssumption
      <3>2. pc'[r] = pc[r] /\ loaded'[r] = loaded[r]
        BY <2>2, <2>6, <3>1
        DEF IInv, TypeOK, ClerkBegin, ClerkStep, ClerkInsert, ClerkCollision,
            ClerkFail, Goto
      <3> QED
        BY <1>5, <2>1, <3>2
    <2>7. ASSUME DeskBegin(r) \/ DeskSave(r) \/ DeskFail(r)
          PROVE  FALSE
      BY <1>5, <2>2, <2>7
      DEF IInv, TypeOK, DeskBegin, DeskSave, DeskFail, Report, Goto
    <2>8. ASSUME DeskFind(r)
          PROVE  FALSE
      <3>1. ASSUME NEW outcome \in Outcomes, Report(r, outcome) PROVE FALSE
        BY <1>5, <2>2, <3>1 DEF IInv, TypeOK, Report, Goto
      <3>2. ASSUME NEW u \in WithCode(CurrentCode(r)),
                   loaded' = [loaded EXCEPT ![r] = u],
                   ticket[u].redeemed = None
            PROVE  FALSE
        BY <1>1, <1>5, <3>2 DEF IInv, TypeOK
      <3> QED
        BY <2>8, <3>1, <3>2 DEF DeskFind, Outcomes
    <2> QED
      BY <2>3, <2>4, <2>5, <2>6, <2>7, <2>8 DEF Next, AllEnded, DeskStep
  <1> QED
    BY <1>3, <1>4, <1>5 DEF Settled

(* Once no Desk request that read a redeemed ticket as unredeemed is left, *)
(* the ticket's document never changes again.                              *)
THEOREM SettledIsFinal == Spec => SettledForever
  <1>1. IInv /\ [Next]_vars =>
          [\A t \in TicketIds :
             Settled(t) => Settled(t)' /\ ticket'[t] = ticket[t]]_vars
    BY SettledStep
  <1> QED
    BY <1>1, Invariance, PTL DEF Spec, SettledForever
-----------------------------------------------------------------------------
(* Answers.  What a request does to its own local variables, and what any  *)
(* step leaves of a ticket.                                                *)

DeskOwn(r) == <<pc[r], form[r], loaded[r], results[r]>>

(* A Desk request moves by its own actions only.                           *)
LEMMA DeskMoves ==
    ASSUME IInv, [Next]_vars, NEW r \in Desk
    PROVE  \/ UNCHANGED DeskOwn(r)
           \/ DeskBegin(r) \/ DeskStep(r) \/ DeskFail(r)
  <1>1. r \in Requests
    BY DEF Requests
  <1>2. CASE UNCHANGED vars
    BY <1>2 DEF vars, DeskOwn
  <1>3. ASSUME NEW s \in Desk \ {r}, DeskBegin(s) \/ DeskStep(s) \/ DeskFail(s)
        PROVE  UNCHANGED DeskOwn(r)
    <2>1. pc'[r] = pc[r] /\ form'[r] = form[r]
      BY <1>1, <1>3 DEF IInv, TypeOK, DeskBegin, DeskStep, DeskFind, DeskSave,
                        DeskFail, Report, Goto
    <2>2. loaded'[r] = loaded[r] /\ results'[r] = results[r]
      BY <1>3 DEF IInv, TypeOK, DeskBegin, DeskStep, DeskFind, DeskSave,
                  DeskFail, Report
    <2> QED
      BY <2>1, <2>2 DEF DeskOwn
  <1>4. ASSUME NEW s \in Partner,
               PartnerBegin(s) \/ PartnerStep(s) \/ PartnerFail(s)
        PROVE  UNCHANGED DeskOwn(r)
    <2>1. r # s
      BY KindsAssumption
    <2> QED
      BY <1>1, <1>4, <2>1
      DEF IInv, TypeOK, PartnerBegin, PartnerStep, PartnerFind, PartnerUser,
          PartnerModify, PartnerFail, Goto, DeskOwn
  <1>5. ASSUME NEW s \in Clerk, ClerkBegin(s) \/ ClerkStep(s) \/ ClerkFail(s)
        PROVE  UNCHANGED DeskOwn(r)
    <2>1. r # s
      BY KindsAssumption
    <2> QED
      BY <1>1, <1>5, <2>1
      DEF IInv, TypeOK, ClerkBegin, ClerkStep, ClerkInsert, ClerkCollision,
          ClerkFail, Goto, DeskOwn
  <1> QED
    BY <1>2, <1>3, <1>4, <1>5 DEF Next, AllEnded

(* What one step of a Desk request that has begun does to its answer: no   *)
(* more than one entry is added, for the code it had come to.              *)
Reports(r, outcome) ==
    /\ pc[r] \in {"find", "save"}
    /\ Len(results[r]) < Len(form[r].codes)
    /\ CurrentCode(r) \in Codes
    /\ form'[r] = form[r]
    /\ results'[r] = Append(results[r],
                       [code |-> CurrentCode(r), result |-> outcome])
    /\ pc'[r] \in {"find", "answered"}

(* Report, in a state of the invariant, is such a step.                    *)
LEMMA ReportIsReports ==
    ASSUME IInv, NEW r \in Desk, pc[r] \in {"find", "save"},
           NEW outcome \in Outcomes, Report(r, outcome), form' = form
    PROVE  Reports(r, outcome)
  <1>1. form[r] \in DeskForms /\ Len(results[r]) < Len(form[r].codes)
    BY DEF IInv, DeskAt
  <1> QED
    BY <1>1, ReportEffect DEF IInv, Reports

(* A request that has begun keeps its form and does not begin again.       *)
LEMMA DeskFormStays ==
    ASSUME IInv, [Next]_vars, NEW r \in Desk, pc[r] # "idle"
    PROVE  form'[r] = form[r] /\ pc'[r] # "idle"
  <1>1. CASE UNCHANGED DeskOwn(r)
    BY <1>1 DEF DeskOwn
  <1>2. CASE DeskFind(r) \/ DeskSave(r) \/ DeskFail(r)
    <2>1. r \in Requests
      BY DEF Requests
    <2> QED
      BY <1>2, <2>1
      DEF IInv, TypeOK, DeskFind, DeskSave, DeskFail, Report, Goto
  <1> QED
    BY <1>1, <1>2, DeskMoves DEF DeskBegin, DeskStep

(* A ticket is left as it is, or its redemption is recorded, or it is new. *)
LEMMA TicketMoves ==
    ASSUME IInv, [Next]_vars, NEW t \in Stored'
    PROVE  \/ t \in Stored /\ ticket'[t] = ticket[t]
           \/ /\ t \in Stored
              /\ ticket'[t].code = ticket[t].code
              /\ ticket'[t].issued_to = ticket[t].issued_to
              /\ ticket'[t].issued_by = ticket[t].issued_by
              /\ \/ \E r \in Desk : /\ DeskSave(r) \/ DeskFail(r)
                                    /\ pc[r] = "save" /\ loaded[r] = t
                                    /\ ticket'[t].redeemed = DeskRedemption(r)
                 \/ \E r \in Partner :
                       ticket'[t].redeemed = PartnerRedemption(r)
           \/ /\ t \notin Stored
              /\ ticket'[t].redeemed = None
              /\ \E r \in Clerk : ClerkInserts(r)
  <1>1. t \in TicketIds
    BY DEF Stored
  <1>2. ticket \in [TicketIds -> Ticket \cup {None}]
    BY DEF IInv, TypeOK
  <1>3. CASE UNCHANGED ticket
    BY <1>3 DEF Stored
  <1>4. ASSUME NEW r \in Desk, DeskRecords(r), t # loaded[r]
        PROVE  t \in Stored /\ ticket'[t] = ticket[t]
    BY <1>1, <1>2, <1>4, DeskRedemptionType, RecordEffect DEF DeskRecords
  <1>5. ASSUME NEW r \in Desk, DeskRecords(r), t = loaded[r]
        PROVE  /\ t \in Stored
               /\ ticket'[t].code = ticket[t].code
               /\ ticket'[t].issued_to = ticket[t].issued_to
               /\ ticket'[t].issued_by = ticket[t].issued_by
               /\ pc[r] = "save"
               /\ ticket'[t].redeemed = DeskRedemption(r)
    BY <1>1, <1>2, <1>5, DeskRedemptionType, RecordEffect DEF DeskRecords
  <1>6. ASSUME NEW r \in Partner, PartnerRecords(r), t # loaded[r]
        PROVE  t \in Stored /\ ticket'[t] = ticket[t]
    BY <1>1, <1>2, <1>6, PartnerRedemptionType, RecordEffect
    DEF PartnerRecords
  <1>7. ASSUME NEW r \in Partner, PartnerRecords(r), t = loaded[r]
        PROVE  /\ t \in Stored
               /\ ticket'[t].code = ticket[t].code
               /\ ticket'[t].issued_to = ticket[t].issued_to
               /\ ticket'[t].issued_by = ticket[t].issued_by
               /\ ticket'[t].redeemed = PartnerRedemption(r)
    BY <1>1, <1>2, <1>7, PartnerRedemptionType, RecordEffect
    DEF PartnerRecords
  <1>8. ASSUME NEW r \in Clerk, ClerkInserts(r)
        PROVE  \/ t \in Stored /\ ticket'[t] = ticket[t]
               \/ t \notin Stored /\ ticket'[t].redeemed = None
    <2>1. PICK u \in TicketIds, c \in Codes : Insert(r, u, c)
      BY <1>8 DEF ClerkInserts
    <2>2. form[r].to \in Owners /\ form[r].by \in Users
      BY <1>8 DEF IInv, ClerkAt, ClerkInserts
    <2>3. /\ Stored' = Stored \cup {u}
          /\ u \notin Stored
          /\ \A v \in Stored : ticket'[v] = ticket[v]
          /\ ticket'[u] = NewTicket(r, c)
      BY <1>2, <2>1, <2>2, InsertEffect
    <2>4. NewTicket(r, c).redeemed = None
      BY DEF NewTicket
    <2> QED
      BY <2>3, <2>4
  <1>9. \A r \in Desk : DeskRecords(r) => DeskSave(r) \/ DeskFail(r)
    BY DEF DeskRecords
  <1> QED
    BY <1>3, <1>4, <1>5, <1>6, <1>7, <1>8, <1>9, StepKinds

(* What a step leaves of the tickets, for every step of every request.     *)
LEMMA KeepsStep ==
    ASSUME IInv, [Next]_vars
    PROVE  Keeps
  <1>1. CASE UNCHANGED ticket
    BY <1>1, KeepsUnchanged
  <1>2. ASSUME NEW r \in Desk, DeskRecords(r)
        PROVE  Keeps
    BY <1>2, DeskRedemptionType, KeepsRecord DEF DeskRecords, IInv
  <1>3. ASSUME NEW r \in Partner, PartnerRecords(r)
        PROVE  Keeps
    BY <1>3, PartnerRedemptionType, KeepsRecord DEF PartnerRecords, IInv
  <1>4. ASSUME NEW r \in Clerk, ClerkInserts(r)
        PROVE  Keeps
    <2>1. form[r].to \in Owners /\ form[r].by \in Users
      BY <1>4 DEF IInv, ClerkAt, ClerkInserts
    <2> QED
      BY <1>4, <2>1, KeepsInsert DEF ClerkInserts, IInv
  <1> QED
    BY <1>1, <1>2, <1>3, <1>4, StepKinds

(* A redemption by a Desk request is the one the ticket had before, or it  *)
(* is being recorded by that very request.                                 *)
LEMMA DeskRedemptionMoves ==
    ASSUME IInv, [Next]_vars, NEW t \in Stored', Redeemed(t)',
           NEW r \in Desk, ticket'[t].redeemed.req = r
    PROVE  /\ t \in Stored
           /\ ticket'[t].code = ticket[t].code
           /\ ticket'[t].issued_to = ticket[t].issued_to
           /\ \/ Redeemed(t) /\ ticket'[t].redeemed = ticket[t].redeemed
              \/ /\ DeskSave(r) \/ DeskFail(r)
                 /\ pc[r] = "save"
                 /\ loaded[r] = t
                 /\ ticket'[t].redeemed = DeskRedemption(r)
  <1>1. ticket'[t].redeemed # None
    BY DEF Redeemed
  <1>2. \A s \in Desk : DeskRedemption(s).req = s
    BY DEF DeskRedemption
  <1>3. \A s \in Partner : PartnerRedemption(s).req # r
    BY KindsAssumption DEF PartnerRedemption
  <1> QED
    BY <1>1, <1>2, <1>3, TicketMoves DEF Redeemed

(* The account that redeemed a ticket at the desk may redeem it.           *)
RedeemedByOwner ==
    \A t \in Stored, r \in Desk :
        (Redeemed(t) /\ ticket[t].redeemed.req = r) =>
            /\ pc[r] # "idle"
            /\ Permitted(r, t)
            /\ ticket[t].redeemed.by = form[r].by.id

(* Every step keeps that the account which redeemed a ticket may redeem    *)
(* it: a redemption is recorded by a request that was permitted, whose     *)
(* form no longer changes.                                                 *)
LEMMA OwnerStep ==
    ASSUME IInv, RedeemedByOwner, [Next]_vars
    PROVE  RedeemedByOwner'
  <1> SUFFICES ASSUME NEW t \in Stored', NEW r \in Desk, Redeemed(t)',
                      ticket'[t].redeemed.req = r
               PROVE  /\ pc'[r] # "idle"
                      /\ Permitted(r, t)'
                      /\ ticket'[t].redeemed.by = form'[r].by.id
    BY DEF RedeemedByOwner
  <1>1. /\ t \in Stored
        /\ ticket'[t].issued_to = ticket[t].issued_to
        /\ \/ Redeemed(t) /\ ticket'[t].redeemed = ticket[t].redeemed
           \/ /\ pc[r] = "save"
              /\ loaded[r] = t
              /\ ticket'[t].redeemed = DeskRedemption(r)
    BY DeskRedemptionMoves
  <1>2. /\ pc[r] # "idle"
        /\ Permitted(r, t)
        /\ ticket'[t].redeemed.by = form[r].by.id
    <2>1. CASE Redeemed(t) /\ ticket'[t].redeemed = ticket[t].redeemed
      BY <1>1, <2>1 DEF RedeemedByOwner
    <2>2. CASE /\ pc[r] = "save"
               /\ loaded[r] = t
               /\ ticket'[t].redeemed = DeskRedemption(r)
      BY <2>2 DEF IInv, DeskAt, DeskRedemption
    <2> QED
      BY <1>1, <2>1, <2>2
  <1>3. form'[r] = form[r] /\ pc'[r] # "idle"
    BY <1>2, DeskFormStays
  <1> QED
    BY <1>1, <1>2, <1>3 DEF Permitted

(* Whoever redeems at the desk without being an administrator redeems      *)
(* tickets issued to that very account, whatever happens between the check *)
(* and the save.                                                           *)
THEOREM OwnTickets == Spec => []OwnTicketsOnly
  <1>1. Init => RedeemedByOwner
    BY DEF Init, RedeemedByOwner, Stored
  <1>2. RedeemedByOwner => OwnTicketsOnly
    BY DEF RedeemedByOwner, OwnTicketsOnly, Permitted
  <1> QED
    BY <1>1, <1>2, OwnerStep, Invariance, PTL DEF Spec

(* What a Desk request reports, and what made it say so.                   *)
Because(r, outcome) ==
    /\ outcome = "not found" => WithCode(CurrentCode(r)) = {}
    /\ outcome = "not permitted" =>
          \E t \in WithCode(CurrentCode(r)) : ~Permitted(r, t)
    /\ outcome = "already redeemed" =>
          \E t \in WithCode(CurrentCode(r)) : Redeemed(t)
    /\ outcome = "redeemed OK" => DeskRecords(r)

(* One step of any request adds one reasoned entry to a Desk request's     *)
(* answer, or leaves the answer as it is.                                  *)
LEMMA AnswerMoves ==
    ASSUME IInv, [Next]_vars, NEW r \in Desk
    PROVE  \/ results'[r] = results[r]
           \/ \E outcome \in Outcomes :
                 Reports(r, outcome) /\ Because(r, outcome)
  <1>1. CASE UNCHANGED DeskOwn(r)
    BY <1>1 DEF DeskOwn
  <1>2. CASE DeskBegin(r) \/ DeskFail(r)
    BY <1>2 DEF DeskBegin, DeskFail
  <1>3. CASE DeskSave(r)
    <2>1. "redeemed OK" \in Outcomes
      BY DEF Outcomes
    <2>2. Reports(r, "redeemed OK")
      BY <1>3, <2>1, ReportIsReports DEF DeskSave
    <2>3. Because(r, "redeemed OK")
      BY <1>3 DEF DeskSave, DeskRecords, Because
    <2> QED
      BY <2>1, <2>2, <2>3
  <1>4. CASE DeskFind(r)
    <2>1. pc[r] = "find" /\ UNCHANGED <<ticket, form, bearer, issued>>
      BY <1>4 DEF DeskFind
    <2>2. ASSUME NEW outcome \in Outcomes, Report(r, outcome),
                 Because(r, outcome)
          PROVE  \E o \in Outcomes : Reports(r, o) /\ Because(r, o)
      BY <2>1, <2>2, ReportIsReports
    <2>3. CASE WithCode(CurrentCode(r)) = {} /\ Report(r, "not found")
      BY <2>2, <2>3 DEF Because, Outcomes
    <2>4. ASSUME NEW t \in WithCode(CurrentCode(r)), ~Permitted(r, t),
                 Report(r, "not permitted")
          PROVE  \E o \in Outcomes : Reports(r, o) /\ Because(r, o)
      BY <2>2, <2>4 DEF Because, Outcomes
    <2>5. ASSUME NEW t \in WithCode(CurrentCode(r)),
                 ticket[t].redeemed # None, Report(r, "already redeemed")
          PROVE  \E o \in Outcomes : Reports(r, o) /\ Because(r, o)
      BY <2>2, <2>5 DEF Because, Outcomes, Redeemed, WithCode
    <2> QED
      BY <1>4, <2>3, <2>4, <2>5 DEF DeskFind
  <1> QED
    BY <1>1, <1>2, <1>3, <1>4, DeskMoves DEF DeskStep

(* The outcomes noted for a code grow by the one that is reported for it.  *)
LEMMA NotedGrows ==
    ASSUME IInv, NEW r \in Desk, NEW c,
           NEW outcome \in Outcomes, Reports(r, outcome)
    PROVE  \A o : o \in Noted(r, c)' <=>
                      \/ o \in Noted(r, c)
                      \/ c = CurrentCode(r) /\ o = outcome
  <1> DEFINE e == [code |-> CurrentCode(r), result |-> outcome]
             n == Len(results[r])
  <1>1. results[r] \in Seq(Entries) /\ n \in Nat
    BY DEF IInv, TypeOK
  <1>2. results'[r] = Append(results[r], e)
    BY DEF Reports
  <1>3. Len(results'[r]) = n + 1
    BY <1>1, <1>2
  <1>4. \A i \in 1..n : results'[r][i] = results[r][i]
    BY <1>1, <1>2
  <1>5. results'[r][n + 1] = e
    BY <1>1, <1>2
  <1>6. e.code = CurrentCode(r) /\ e.result = outcome
    OBVIOUS
  <1>7. 1..(n + 1) = 1..n \cup {n + 1}
    BY <1>1
  <1> HIDE DEF e, n
  <1>8. Noted(r, c)' = {results'[r][i].result :
                         i \in {j \in 1..(n + 1) : results'[r][j].code = c}}
    BY <1>3 DEF Noted
  <1>9. Noted(r, c) = {results[r][i].result :
                         i \in {j \in 1..n : results[r][j].code = c}}
    BY DEF Noted, n
  <1> QED
    BY <1>4, <1>5, <1>6, <1>7, <1>8, <1>9, Zenon

(* No step takes an outcome back that a request has noted.                 *)
LEMMA NotedStays ==
    ASSUME IInv, [Next]_vars, NEW r \in Desk, NEW c
    PROVE  Noted(r, c) \subseteq Noted(r, c)'
  <1>1. CASE results'[r] = results[r]
    BY <1>1 DEF Noted
  <1>2. ASSUME NEW outcome \in Outcomes, Reports(r, outcome)
        PROVE  Noted(r, c) \subseteq Noted(r, c)'
    BY <1>2, NotedGrows
  <1> QED
    BY <1>1, <1>2, AnswerMoves

(* A save leaves a redeemed ticket with the code the request had come to.  *)
LEMMA RecordedTicket ==
    ASSUME IInv, NEW r \in Desk, DeskRecords(r), NEW t, t = loaded[r]
    PROVE  /\ t \in WithCode(CurrentCode(r))
           /\ Permitted(r, t)
           /\ ticket'[t].code = CurrentCode(r)
           /\ Redeemed(t)'
  <1>1. /\ t \in TicketIds
        /\ t \in Stored
        /\ DeskRedemption(r) \in Redemption
        /\ Record(t, DeskRedemption(r))
    BY DeskRedemptionType DEF DeskRecords
  <1>2. /\ Stored' = Stored
        /\ ticket'[t].code = ticket[t].code
        /\ ticket'[t].redeemed = DeskRedemption(r)
    BY <1>1, RecordEffect DEF IInv, TypeOK
  <1>3. ticket[t].code = CurrentCode(r) /\ Permitted(r, t)
    BY DEF IInv, DeskAt, DeskRecords
  <1>4. t \in WithCode(CurrentCode(r))
    BY <1>1, <1>3 DEF WithCode
  <1>5. Redeemed(t)'
    BY <1>1, <1>2, NoneAssumption DEF Redeemed
  <1> QED
    BY <1>2, <1>3, <1>4, <1>5

(* What a Desk request has noted of a ticket stays true.                   *)
DeskAnswersTrue ==
    \A r \in Desk : \A c \in Codes :
        Noted(r, c) \cap {"redeemed OK", "already redeemed"} # {}
            => \E t \in WithCode(c) : Redeemed(t)

(* Every step keeps the answers true: redemptions are not taken back, and  *)
(* a new answer is given for a redeemed ticket.                            *)
LEMMA AnswersStep ==
    ASSUME IInv, DeskAnswersTrue, [Next]_vars
    PROVE  DeskAnswersTrue'
  <1> DEFINE Good == {"redeemed OK", "already redeemed"}
  <1> SUFFICES ASSUME NEW r \in Desk, NEW c \in Codes,
                      Noted(r, c)' \cap Good # {}
               PROVE  \E t \in WithCode(c)' : Redeemed(t)'
    BY DEF DeskAnswersTrue
  <1>1. Keeps
    BY KeepsStep
  <1>2. ASSUME NEW t \in WithCode(c), Redeemed(t)
        PROVE  t \in WithCode(c)' /\ Redeemed(t)'
    BY <1>1, <1>2 DEF Keeps, WithCode, Redeemed
  <1>3. CASE Noted(r, c) \cap Good # {}
    BY <1>2, <1>3 DEF DeskAnswersTrue
  <1>4. CASE Noted(r, c) \cap Good = {}
    <2>1. Noted(r, c)' # Noted(r, c)
      BY <1>4
    <2>2. results'[r] # results[r]
      BY <2>1 DEF Noted
    <2>3. PICK outcome \in Outcomes :
            Reports(r, outcome) /\ Because(r, outcome)
      BY <2>2, AnswerMoves
    <2>4. c = CurrentCode(r) /\ outcome \in Good
      <3>1. \A o : o \in Noted(r, c)' <=>
                      \/ o \in Noted(r, c)
                      \/ c = CurrentCode(r) /\ o = outcome
        BY <2>3, NotedGrows
      <3> QED
        BY <1>4, <3>1
    <2>5. CASE outcome = "redeemed OK"
      <3>1. PICK t : t = loaded[r]
        OBVIOUS
      <3>2. ticket'[t].code = c /\ Redeemed(t)'
        BY <2>3, <2>4, <2>5, <3>1, RecordedTicket DEF Because
      <3>3. t \in WithCode(c)'
        BY <3>2 DEF WithCode, Redeemed
      <3> QED
        BY <3>2, <3>3
    <2>6. CASE outcome = "already redeemed"
      BY <1>2, <2>3, <2>4, <2>6 DEF Because
    <2> QED
      BY <2>4, <2>5, <2>6
  <1> QED
    BY <1>3, <1>4

(* A code noted as "redeemed OK" or "already redeemed", a call answered    *)
(* 201 or 409, name a ticket that is redeemed from then on.                *)
THEOREM AnswersAreTrue == Spec => []AnswersStayTrue
  <1>1. Init => DeskAnswersTrue
    BY DEF Init, DeskAnswersTrue, Noted
  <1>2. IInv /\ DeskAnswersTrue => AnswersStayTrue
    BY DEF IInv, PartnerAt, DeskAnswersTrue, AnswersStayTrue
  <1> QED
    BY <1>1, <1>2, AnswersStep, Invariance, PTL DEF Spec

(* A redemption by a Desk request is one it has noted, or the request      *)
(* failed while it was saving it.                                          *)
RedemptionNoted ==
    \A t \in Stored, r \in Desk :
        (Redeemed(t) /\ ticket[t].redeemed.req = r) =>
            \/ "redeemed OK" \in Noted(r, ticket[t].code)
            \/ pc[r] = "error" /\ ticket[t].code = CurrentCode(r)

(* Every step keeps the account of recorded redemptions: the step that     *)
(* records one notes it or is the request's last.                          *)
LEMMA ReportedStep ==
    ASSUME IInv, RedemptionNoted, [Next]_vars
    PROVE  RedemptionNoted'
  <1> SUFFICES ASSUME NEW t \in Stored', NEW r \in Desk, Redeemed(t)',
                      ticket'[t].redeemed.req = r,
                      NEW c, c = ticket'[t].code
               PROVE  \/ "redeemed OK" \in Noted(r, c)'
                      \/ pc'[r] = "error" /\ c = CurrentCode(r)'
    BY DEF RedemptionNoted, Noted
  <1>1. /\ t \in Stored
        /\ ticket[t].code = c
        /\ \/ Redeemed(t) /\ ticket[t].redeemed.req = r
           \/ /\ DeskSave(r) \/ DeskFail(r)
              /\ pc[r] = "save"
              /\ loaded[r] = t
    BY DeskRedemptionMoves
  <1>2. CASE "redeemed OK" \in Noted(r, c)
    BY <1>2, NotedStays
  <1>3. CASE pc[r] = "error" /\ c = CurrentCode(r)
    <2>1. UNCHANGED DeskOwn(r)
      BY <1>3, DeskMoves
      DEF DeskBegin, DeskStep, DeskFind, DeskSave, DeskFail
    <2> QED
      BY <1>1, <1>3, <2>1 DEF DeskOwn, CurrentCode
  <1>4. CASE /\ DeskSave(r) \/ DeskFail(r)
             /\ pc[r] = "save"
             /\ loaded[r] = t
    <2>1. c = CurrentCode(r)
      BY <1>1, <1>4 DEF IInv, DeskAt
    <2>2. CASE DeskSave(r)
      <3>1. "redeemed OK" \in Outcomes
        BY DEF Outcomes
      <3>2. Reports(r, "redeemed OK")
        BY <2>2, <3>1, ReportIsReports DEF DeskSave
      <3> QED
        BY <2>1, <3>1, <3>2, NotedGrows
    <2>3. CASE DeskFail(r)
      BY <1>1, <2>1, <2>3
      DEF DeskFail, Goto, IInv, TypeOK, Requests, CurrentCode
    <2> QED
      BY <1>4, <2>2, <2>3
  <1> QED
    BY <1>1, <1>2, <1>3, <1>4 DEF RedemptionNoted

(* The answer to a Desk request lists every ticket it redeemed; one that   *)
(* failed has redeemed tickets of codes it had come to, and no others.     *)
THEOREM RecordsAreReported == Spec => []RecordedIsReported
  <1>1. Init => RedemptionNoted
    BY DEF Init, RedemptionNoted, Stored
  <1>2. ASSUME IInv, RedemptionNoted
        PROVE  RecordedIsReported
    <2> SUFFICES ASSUME NEW t \in Stored, NEW r \in Desk, Redeemed(t),
                        r = ticket[t].redeemed.req,
                        NEW c, c = ticket[t].code
                 PROVE  \/ "redeemed OK" \in Told(r, c)
                        \/ /\ pc[r] \in {"find", "save", "error"}
                           /\ \/ "redeemed OK" \in Noted(r, c)
                              \/ pc[r] = "error" /\ c = CurrentCode(r)
      BY DEF RecordedIsReported
    <2>1. CASE "redeemed OK" \in Noted(r, c)
      <3>1. results[r] # <<>>
        <4>1. PICK i \in 1..Len(results[r]) : results[r][i].code = c
          BY <2>1 DEF Noted
        <4>2. Len(results[r]) # 0
          BY <4>1
        <4> QED
          BY <4>2, EmptySeq
      <3>2. pc[r] \in {"find", "save", "answered", "error"}
        BY <1>2, <3>1 DEF IInv, DeskAt, DeskPositions
      <3> QED
        BY <2>1, <3>2 DEF Told
    <2>2. CASE pc[r] = "error" /\ c = CurrentCode(r)
      BY <2>2
    <2> QED
      BY <1>2, <2>1, <2>2 DEF RedemptionNoted
  <1> QED
    BY <1>1, <1>2, ReportedStep, Invariance, PTL DEF Spec

(* A code the request has redeemed names a ticket that is redeemed and the *)
(* request's to redeem, so that the request never saves it again.          *)
OnceAt(r) ==
    /\ \A c \in Codes : "redeemed OK" \in Noted(r, c) =>
          \E t \in WithCode(c) : Redeemed(t) /\ Permitted(r, t)
    /\ pc[r] = "save" => "redeemed OK" \notin Noted(r, CurrentCode(r))
    /\ pc[r] = "idle" => \A c \in Codes : "redeemed OK" \notin Noted(r, c)

OneOKFirst(r) ==
    \A i, j \in 1..Len(results[r]) :
        /\ i < j
        /\ results[r][i].code = results[r][j].code
        /\ results[r][i].result = "redeemed OK"
        => results[r][j].result = "already redeemed"

OnceInv == \A r \in Desk : OnceAt(r) /\ OneOKFirst(r)

(* Every step keeps what a request knows of the codes it has redeemed.     *)
LEMMA OnceAtStep ==
    ASSUME IInv, OnceInv, [Next]_vars, NEW r \in Desk
    PROVE  OnceAt(r)'
  <1>1. Keeps
    BY KeepsStep
  <1>2. OnceAt(r)
    BY DEF OnceInv
  <1>3. ASSUME NEW c \in Codes, "redeemed OK" \in Noted(r, c)'
        PROVE  /\ pc'[r] # "idle"
               /\ \E t \in WithCode(c)' : Redeemed(t)' /\ Permitted(r, t)'
    <2>1. CASE "redeemed OK" \in Noted(r, c)
      <3>1. PICK t \in WithCode(c) : Redeemed(t) /\ Permitted(r, t)
        BY <1>2, <2>1 DEF OnceAt
      <3>2. pc[r] # "idle"
        BY <1>2, <2>1 DEF OnceAt
      <3>3. form'[r] = form[r] /\ pc'[r] # "idle"
        BY <3>2, DeskFormStays
      <3>4. t \in WithCode(c)' /\ Redeemed(t)' /\ Permitted(r, t)'
        BY <1>1, <3>1, <3>3 DEF Keeps, WithCode, Redeemed, Permitted
      <3> QED
        BY <3>3, <3>4
    <2>2. CASE "redeemed OK" \notin Noted(r, c)
      <3>1. results'[r] # results[r]
        BY <1>3, <2>2 DEF Noted
      <3>2. PICK outcome \in Outcomes :
              Reports(r, outcome) /\ Because(r, outcome)
        BY <3>1, AnswerMoves
      <3>3. \A o : o \in Noted(r, c)' <=>
                      \/ o \in Noted(r, c)
                      \/ c = CurrentCode(r) /\ o = outcome
        BY <3>2, NotedGrows
      <3>4. c = CurrentCode(r) /\ outcome = "redeemed OK"
        BY <1>3, <2>2, <3>3
      <3>5. DeskRecords(r)
        BY <3>2, <3>4 DEF Because
      <3>6. PICK t : t = loaded[r]
        OBVIOUS
      <3>7. /\ t \in WithCode(c)
            /\ Permitted(r, t)
            /\ ticket'[t].code = c
            /\ Redeemed(t)'
        BY <3>4, <3>5, <3>6, RecordedTicket
      <3>8. form'[r] = form[r] /\ pc'[r] # "idle"
        BY <3>2 DEF Reports
      <3>9. t \in WithCode(c)' /\ Permitted(r, t)'
        BY <1>1, <3>7, <3>8 DEF Keeps, WithCode, Redeemed, Permitted
      <3> QED
        BY <3>7, <3>8, <3>9
    <2> QED
      BY <2>1, <2>2
  <1>4. ASSUME pc'[r] = "save"
        PROVE  "redeemed OK" \notin Noted(r, CurrentCode(r))'
    <2>1. r \in Requests
      BY DEF Requests
    <2>2. CASE UNCHANGED DeskOwn(r)
      <3>1. pc[r] = "save" /\ CurrentCode(r)' = CurrentCode(r)
        BY <1>4, <2>2 DEF DeskOwn, CurrentCode
      <3>2. Noted(r, CurrentCode(r))' = Noted(r, CurrentCode(r))
        BY <2>2, <3>1 DEF DeskOwn, Noted
      <3> QED
        BY <1>2, <3>1, <3>2 DEF OnceAt
    <2>3. CASE DeskBegin(r) \/ DeskSave(r) \/ DeskFail(r)
      BY <1>4, <2>1, <2>3
      DEF IInv, TypeOK, DeskBegin, DeskSave, DeskFail, Report, Goto
    <2>4. CASE DeskFind(r)
      <3>1. ASSUME NEW outcome, Report(r, outcome)
            PROVE  FALSE
        BY <1>4, <2>1, <3>1 DEF IInv, TypeOK, Report, Goto
      <3>2. PICK t \in WithCode(CurrentCode(r)) :
              ticket[t].redeemed = None /\ UNCHANGED results
        BY <2>4, <3>1 DEF DeskFind
      <3>3. CurrentCode(r) \in Codes
        BY <3>2 DEF WithCode, Stored, IInv, TypeOK, Ticket
      <3>4. "redeemed OK" \notin Noted(r, CurrentCode(r))
        BY <1>2, <3>2, <3>3
        DEF OnceAt, IInv, CodesUnique, WithCode, Redeemed
      <3>5. CurrentCode(r)' = CurrentCode(r)
        BY <2>4, <3>2 DEF DeskFind, CurrentCode
      <3> QED
        BY <3>2, <3>4, <3>5 DEF Noted
    <2> QED
      BY <2>2, <2>3, <2>4, DeskMoves DEF DeskStep
  <1> QED
    BY <1>3, <1>4 DEF OnceAt

(* Of two positions in a list with one more entry, the earlier is an old   *)
(* one.                                                                    *)
LEMMA LastOrBefore ==
    ASSUME NEW n \in Nat, NEW i \in 1..(n + 1), NEW j \in 1..(n + 1), i < j
    PROVE  i \in 1..n /\ (j \in 1..n \/ j = n + 1)
  OBVIOUS

(* A new entry for a code already redeemed says so: the code's only ticket *)
(* is redeemed and the request may redeem it, which rules out the other    *)
(* three outcomes.                                                         *)
LEMMA OneOKStep ==
    ASSUME IInv, OnceInv, [Next]_vars, NEW r \in Desk
    PROVE  OneOKFirst(r)'
  <1>1. OnceAt(r) /\ OneOKFirst(r)
    BY DEF OnceInv
  <1>2. CASE results'[r] = results[r]
    BY <1>1, <1>2 DEF OneOKFirst
  <1>3. ASSUME NEW outcome \in Outcomes,
               Reports(r, outcome), Because(r, outcome)
        PROVE  OneOKFirst(r)'
    <2> DEFINE c == CurrentCode(r)
               e == [code |-> c, result |-> outcome]
               n == Len(results[r])
    <2>1. results[r] \in Seq(Entries) /\ n \in Nat
      BY DEF IInv, TypeOK
    <2>2. results'[r] = Append(results[r], e) /\ c \in Codes
      BY <1>3 DEF Reports
    <2>3. /\ Len(results'[r]) = n + 1
          /\ \A i \in 1..n : results'[r][i] = results[r][i]
          /\ results'[r][n + 1] = e
      BY <2>1, <2>2
    <2>4. e.code = c /\ e.result = outcome
      OBVIOUS
    <2>5. ASSUME NEW i \in 1..n, results[r][i].code = c,
                 results[r][i].result = "redeemed OK"
          PROVE  outcome = "already redeemed"
      <3>1. "redeemed OK" \in Noted(r, c)
        BY <2>5 DEF Noted
      <3>2. PICK t \in WithCode(c) : Redeemed(t) /\ Permitted(r, t)
        BY <1>1, <2>2, <3>1 DEF OnceAt
      <3>3. \A u \in WithCode(c) : u = t
        BY <3>2 DEF IInv, CodesUnique, WithCode
      <3>4. outcome # "not found" /\ outcome # "not permitted"
        BY <1>3, <3>2, <3>3 DEF Because
      <3>5. outcome # "redeemed OK"
        BY <1>1, <1>3, <3>1 DEF Because, DeskRecords, OnceAt
      <3> QED
        BY <3>4, <3>5 DEF Outcomes
    <2> HIDE DEF c, e, n
    <2> SUFFICES ASSUME NEW i \in 1..(n + 1), NEW j \in 1..(n + 1), i < j,
                        results'[r][i].code = results'[r][j].code,
                        results'[r][i].result = "redeemed OK"
                 PROVE  results'[r][j].result = "already redeemed"
      BY <2>3 DEF OneOKFirst
    <2>6. i \in 1..n /\ (j \in 1..n \/ j = n + 1)
      BY <2>1, LastOrBefore
    <2>7. CASE j \in 1..n
      BY <1>1, <2>3, <2>6, <2>7 DEF OneOKFirst, n
    <2>8. CASE j = n + 1
      BY <2>3, <2>4, <2>5, <2>6, <2>8
    <2> QED
      BY <2>6, <2>7, <2>8
  <1> QED
    BY <1>2, <1>3, AnswerMoves

(* A code typed twice into one form is redeemed once: from "redeemed OK"   *)
(* on, the same request reports "already redeemed".                        *)
THEOREM RedeemedOncePerRequest == Spec => []OncePerRequest
  <1>1. Init => OnceInv
    BY DEF Init, OnceInv, OnceAt, OneOKFirst, Noted, Requests
  <1>2. OnceInv => OncePerRequest
    BY DEF OnceInv, OneOKFirst, OncePerRequest
  <1>3. IInv /\ OnceInv /\ [Next]_vars => OnceInv'
    BY OnceAtStep, OneOKStep DEF OnceInv
  <1> QED
    BY <1>1, <1>2, <1>3, Invariance, PTL DEF Spec

-----------------------------------------------------------------------------
(* Issue requests.                                                         *)

ClerkOwn(r) == <<pc[r], form[r], issued[r]>>

(* A Clerk request moves by its own actions only.                          *)
LEMMA ClerkMoves ==
    ASSUME IInv, [Next]_vars, NEW r \in Clerk
    PROVE  \/ UNCHANGED ClerkOwn(r)
           \/ ClerkBegin(r) \/ ClerkStep(r) \/ ClerkFail(r)
  <1>1. r \in Requests
    BY DEF Requests
  <1>2. CASE UNCHANGED vars
    BY <1>2 DEF vars, ClerkOwn
  <1>3. ASSUME NEW s \in Desk, DeskBegin(s) \/ DeskStep(s) \/ DeskFail(s)
        PROVE  UNCHANGED ClerkOwn(r)
    <2>1. r # s
      BY KindsAssumption
    <2>2. pc'[r] = pc[r] /\ form'[r] = form[r]
      BY <1>1, <1>3, <2>1
      DEF IInv, TypeOK, DeskBegin, DeskStep, DeskFind, DeskSave, DeskFail,
          Report, Goto
    <2>3. issued' = issued
      BY <1>3 DEF DeskBegin, DeskStep, DeskFind, DeskSave, DeskFail
    <2> QED
      BY <2>2, <2>3 DEF ClerkOwn
  <1>4. ASSUME NEW s \in Partner,
               PartnerBegin(s) \/ PartnerStep(s) \/ PartnerFail(s)
        PROVE  UNCHANGED ClerkOwn(r)
    <2>1. r # s
      BY KindsAssumption
    <2> QED
      BY <1>1, <1>4, <2>1
      DEF IInv, TypeOK, PartnerBegin, PartnerStep, PartnerFind, PartnerUser,
          PartnerModify, PartnerFail, Goto, ClerkOwn
  <1>5. ASSUME NEW s \in Clerk \ {r},
               ClerkBegin(s) \/ ClerkStep(s) \/ ClerkFail(s)
        PROVE  UNCHANGED ClerkOwn(r)
    <2>1. pc'[r] = pc[r] /\ form'[r] = form[r]
      BY <1>1, <1>5
      DEF IInv, TypeOK, ClerkBegin, ClerkStep, ClerkInsert, ClerkCollision,
          ClerkFail, Goto
    <2>2. issued'[r] = issued[r]
      BY <1>5
      DEF IInv, TypeOK, ClerkBegin, ClerkStep, ClerkInsert, ClerkCollision,
          ClerkFail
    <2> QED
      BY <2>1, <2>2 DEF ClerkOwn
  <1> QED
    BY <1>2, <1>3, <1>4, <1>5 DEF Next, AllEnded

(* No step changes what a ticket was issued with.                          *)
LEMMA IssueStays ==
    ASSUME IInv, [Next]_vars, NEW t \in Stored
    PROVE  /\ t \in Stored'
           /\ ticket'[t].issued_to = ticket[t].issued_to
           /\ ticket'[t].issued_by = ticket[t].issued_by
  <1>1. t \in Stored'
    BY KeepsStep DEF Keeps
  <1> QED
    BY <1>1, TicketMoves

(* What one step does to the list of tickets an issue request has saved:   *)
(* nothing, or the ticket it has just inserted is added.                   *)
Saves(r, t, c) ==
    /\ pc[r] = "insert"
    /\ Insert(r, t, c)
    /\ issued'[r].tickets = issued[r].tickets \cup {t}
    /\ \A s \in Clerk \ {r} : issued'[s] = issued[s]
    /\ form'[r] = form[r]
    /\ pc'[r] = IF Cardinality(issued'[r].tickets) = form[r].count
                  THEN "issued" ELSE "insert"

(* One step of any request adds at most one ticket to the list of an issue *)
(* request, the ticket it inserts.                                         *)
LEMMA IssuedMoves ==
    ASSUME IInv, [Next]_vars, NEW r \in Clerk
    PROVE  \/ /\ issued'[r].tickets = issued[r].tickets
              /\ pc'[r] = "idle" => pc[r] = "idle"
              /\ pc'[r] = "issued" => pc[r] = "issued"
              /\ pc[r] # "idle" => form'[r] = form[r]
              /\ pc'[r] = "insert" =>
                    \/ pc[r] = "insert"
                    \/ pc[r] = "idle" /\ form'[r].count \in 1..MAX_TICKETS
           \/ \E t \in TicketIds, c \in Codes : Saves(r, t, c)
  <1>1. r \in Requests /\ issued[r] \in [tickets : SUBSET TicketIds,
                                         attempts : 0..MAX_CODE_ATTEMPTS]
    BY DEF Requests, IInv, TypeOK
  <1>2. CASE UNCHANGED ClerkOwn(r)
    BY <1>2 DEF ClerkOwn
  <1>3. CASE ClerkBegin(r)
    <2>1. PICK f \in ClerkForms, b \in BOOLEAN :
            form' = [form EXCEPT ![r] = f] /\ Goto(r, ClerkVerdict(f, b))
      BY <1>3 DEF ClerkBegin
    <2>2. pc'[r] = ClerkVerdict(f, b) /\ form'[r] = f
      BY <1>1, <2>1 DEF Goto, IInv, TypeOK
    <2>3. /\ ClerkVerdict(f, b) \in {"bad_request", "forbidden", "insert"}
          /\ ClerkVerdict(f, b) = "insert" => f.count \in 1..MAX_TICKETS
      BY DEF ClerkVerdict
    <2> QED
      BY <1>3, <2>2, <2>3 DEF ClerkBegin
  <1>4. CASE ClerkInsert(r)
    <2>1. PICK t \in TicketIds, c \in Codes :
            /\ Insert(r, t, c)
            /\ issued' = [issued EXCEPT ![r] =
                            [tickets |-> issued[r].tickets \cup {t},
                             attempts |-> 0]]
      BY <1>4 DEF ClerkInsert
    <2>2. /\ issued'[r].tickets = issued[r].tickets \cup {t}
          /\ \A s \in Clerk \ {r} : issued'[s] = issued[s]
      BY <2>1 DEF IInv, TypeOK
    <2>3. pc'[r] = IF Cardinality(issued'[r].tickets) = form[r].count
                     THEN "issued" ELSE "insert"
      BY <1>1, <1>4 DEF ClerkInsert, Goto, IInv, TypeOK
    <2>4. pc[r] = "insert" /\ form' = form
      BY <1>4 DEF ClerkInsert
    <2> QED
      BY <2>1, <2>2, <2>3, <2>4 DEF Saves
  <1>5. CASE ClerkCollision(r)
    <2>1. issued'[r].tickets = issued[r].tickets
      <3>1. issued' = [issued EXCEPT ![r] =
                         [issued[r] EXCEPT !.attempts =
                            issued[r].attempts + 1]]
        BY <1>5 DEF ClerkCollision
      <3>2. issued'[r] = [issued[r] EXCEPT !.attempts =
                            issued[r].attempts + 1]
        BY <3>1 DEF IInv, TypeOK
      <3> QED
        BY <1>1, <3>2
    <2>2. /\ pc[r] = "insert"
          /\ pc'[r] \in {"error", "insert"}
          /\ form' = form
      BY <1>1, <1>5 DEF ClerkCollision, Goto, IInv, TypeOK
    <2> QED
      BY <2>1, <2>2
  <1>6. CASE ClerkFail(r)
    BY <1>1, <1>6 DEF ClerkFail, Goto, IInv, TypeOK
  <1> QED
    BY <1>2, <1>3, <1>4, <1>5, <1>6, ClerkMoves DEF ClerkStep

(* The tickets an issue request has saved: stored, as its form asks, and   *)
(* counted when it is answered.                                            *)
IssuedAt(r) ==
    /\ pc[r] = "idle" => issued[r].tickets = {}
    /\ pc[r] = "insert" =>
          /\ form[r].count \in 1..MAX_TICKETS
          /\ IsFiniteSet(issued[r].tickets)
          /\ Cardinality(issued[r].tickets) < form[r].count
    /\ pc[r] = "issued" => Cardinality(issued[r].tickets) = form[r].count
    /\ \A t \in issued[r].tickets :
          /\ t \in Stored
          /\ ticket[t].issued_to = form[r].to
          /\ ticket[t].issued_by = form[r].by

IssuedApart ==
    \A r \in Clerk : \A s \in Clerk \ {r} :
        issued[r].tickets \cap issued[s].tickets = {}

UntoldCounted ==
    /\ IsFiniteSet(Untold)
    /\ IsFiniteSet(AskedInVain)
    /\ Cardinality(Untold) <= Cardinality(AskedInVain)

IssueInv ==
    /\ \A r \in Clerk : IssuedAt(r)
    /\ IssuedApart
    /\ UntoldCounted

(* Every step keeps the list of an issue request in accord with the        *)
(* collection and with its form.                                           *)
LEMMA IssuedAtStep ==
    ASSUME IInv, IssueInv, [Next]_vars, NEW r \in Clerk
    PROVE  IssuedAt(r)'
  <1>1. IssuedAt(r)
    BY DEF IssueInv
  <1>2. CASE /\ issued'[r].tickets = issued[r].tickets
             /\ pc'[r] = "idle" => pc[r] = "idle"
             /\ pc'[r] = "issued" => pc[r] = "issued"
             /\ pc[r] # "idle" => form'[r] = form[r]
             /\ pc'[r] = "insert" =>
                   \/ pc[r] = "insert"
                   \/ pc[r] = "idle" /\ form'[r].count \in 1..MAX_TICKETS
    <2>1. ASSUME NEW t \in issued'[r].tickets
          PROVE  /\ t \in Stored'
                 /\ ticket'[t].issued_to = form'[r].to
                 /\ ticket'[t].issued_by = form'[r].by
      BY <1>1, <1>2, <2>1, IssueStays DEF IssuedAt
    <2>2. pc'[r] = "issued" =>
             Cardinality(issued'[r].tickets) = form'[r].count
      BY <1>1, <1>2 DEF IssuedAt
    <2>3. ASSUME pc'[r] = "insert"
          PROVE  /\ form'[r].count \in 1..MAX_TICKETS
                 /\ IsFiniteSet(issued'[r].tickets)
                 /\ Cardinality(issued'[r].tickets) < form'[r].count
      <3>1. CASE pc[r] = "insert"
        BY <1>1, <1>2, <3>1 DEF IssuedAt
      <3>2. CASE pc[r] = "idle" /\ form'[r].count \in 1..MAX_TICKETS
        <4>1. issued'[r].tickets = {}
          BY <1>1, <1>2, <3>2 DEF IssuedAt
        <4> QED
          BY <3>2, <4>1, FS_EmptySet, LimitsAssumption
      <3> QED
        BY <1>2, <2>3, <3>1, <3>2
    <2> QED
      BY <1>1, <1>2, <2>1, <2>2, <2>3 DEF IssuedAt
  <1>3. ASSUME NEW t \in TicketIds, NEW c \in Codes, Saves(r, t, c)
        PROVE  IssuedAt(r)'
    <2>1. form[r].to \in Owners /\ form[r].by \in Users
      BY <1>3 DEF IInv, ClerkAt, Saves
    <2>2. ticket'[t] = NewTicket(r, c) /\ t \in Stored'
      BY <1>3, <2>1, InsertEffect DEF IInv, TypeOK, Saves
    <2>3. /\ ticket'[t].issued_to = form[r].to
          /\ ticket'[t].issued_by = form[r].by
      BY <2>2 DEF NewTicket
    <2>4. ASSUME NEW u \in issued[r].tickets
          PROVE  /\ u \in Stored'
                 /\ ticket'[u].issued_to = form[r].to
                 /\ ticket'[u].issued_by = form[r].by
      BY <1>1, <2>4, IssueStays DEF IssuedAt
    <2>5. /\ form'[r].count \in 1..MAX_TICKETS
          /\ IsFiniteSet(issued[r].tickets)
          /\ Cardinality(issued[r].tickets) \in Nat
          /\ Cardinality(issued[r].tickets) < form'[r].count
          /\ t \notin issued[r].tickets
      BY <1>1, <1>3, FS_CardinalityType DEF IssuedAt, Saves, Insert
    <2>6. /\ IsFiniteSet(issued'[r].tickets)
          /\ Cardinality(issued'[r].tickets) =
                Cardinality(issued[r].tickets) + 1
      <3>1. LET T == issued[r].tickets
            IN  /\ IsFiniteSet(T \cup {t})
                /\ Cardinality(T \cup {t}) = Cardinality(T) + 1
        BY <2>5, FS_AddElement
      <3> QED
        BY <1>3, <3>1 DEF Saves
    <2>7. pc'[r] = "insert" =>
             Cardinality(issued'[r].tickets) < form'[r].count
      BY <1>3, <2>5, <2>6, LimitsAssumption DEF Saves
    <2> QED
      BY <1>3, <2>2, <2>3, <2>4, <2>5, <2>6, <2>7 DEF IssuedAt, Saves
  <1> QED
    BY <1>2, <1>3, IssuedMoves

(* No ticket comes to be in two lists: the one inserted was not stored.    *)
LEMMA ApartStep ==
    ASSUME IInv, IssueInv, [Next]_vars
    PROVE  IssuedApart'
  <1> SUFFICES ASSUME NEW r \in Clerk, NEW s \in Clerk \ {r}
               PROVE  issued'[r].tickets \cap issued'[s].tickets = {}
    BY DEF IssuedApart
  <1>1. issued[r].tickets \cap issued[s].tickets = {}
    BY DEF IssueInv, IssuedApart
  <1>2. /\ issued[r].tickets \subseteq Stored
        /\ issued[s].tickets \subseteq Stored
    BY DEF IssueInv, IssuedAt
  <1>3. ASSUME NEW t \in TicketIds, NEW c \in Codes, Saves(r, t, c)
        PROVE  issued'[r].tickets \cap issued'[s].tickets = {}
    BY <1>1, <1>2, <1>3 DEF Saves, Insert
  <1>4. ASSUME NEW t \in TicketIds, NEW c \in Codes, Saves(s, t, c)
        PROVE  issued'[r].tickets \cap issued'[s].tickets = {}
    BY <1>1, <1>2, <1>4 DEF Saves, Insert
  <1>5. CASE /\ issued'[r].tickets = issued[r].tickets
             /\ issued'[s].tickets = issued[s].tickets
    BY <1>1, <1>5
  <1> QED
    BY <1>3, <1>4, <1>5, IssuedMoves

(* The tickets that some answer has named or will name.                    *)
Named == UNION {issued[r].tickets : r \in Clerk \ Failed}

AskedOf(r) == {r} \X (1..form[r].count)

(* An issue request fails: what it had saved, and perhaps the ticket whose *)
(* insert raised, is named by no answer.                                   *)
FailsWith(r, t) ==
    /\ pc[r] = "insert"
    /\ r \notin Failed
    /\ Untold' \subseteq Untold \cup issued[r].tickets \cup {t}
    /\ AskedInVain' = AskedInVain \cup AskedOf(r)

(* A failed request keeps its form, and stays failed.                      *)
LEMMA FailedStays ==
    ASSUME IInv, [Next]_vars, NEW r \in Failed
    PROVE  /\ r \in Failed'
           /\ form'[r] = form[r]
           /\ issued'[r] = issued[r]
  <1>1. r \in Clerk /\ r \in Requests /\ pc[r] = "error"
    BY DEF Failed, Requests
  <1>2. UNCHANGED ClerkOwn(r)
    BY <1>1, ClerkMoves
    DEF ClerkBegin, ClerkStep, ClerkInsert, ClerkCollision, ClerkFail
  <1> QED
    BY <1>1, <1>2 DEF ClerkOwn, Failed

(* A step in which no issue request fails and the tickets stored are those *)
(* added to the lists leaves no other ticket unnamed.                      *)
LEMMA NoneFails ==
    ASSUME IInv, [Next]_vars, Failed' = Failed
    PROVE  AskedInVain' = AskedInVain
  BY FailedStays DEF AskedInVain

(* What a failing request adds to what was asked for in vain.              *)
LEMMA OneFails ==
    ASSUME IInv, IssueInv, [Next]_vars, NEW r \in Clerk, pc[r] = "insert",
           Failed' = Failed \cup {r}, form'[r] = form[r]
    PROVE  AskedInVain' = AskedInVain \cup AskedOf(r)
  <1>1. form[r].count \in 1..MAX_TICKETS
    BY DEF IssueInv, IssuedAt
  <1>2. \A n : n \in 1..form[r].count <=>
                  n \in 1..MAX_TICKETS /\ n <= form[r].count
    BY <1>1, LimitsAssumption
  <1>3. \A s \in Failed' : form'[s] = form[s]
    BY FailedStays
  <1>4. ASSUME NEW x
        PROVE  x \in AskedInVain' <=> x \in AskedInVain \cup AskedOf(r)
    BY <1>2, <1>3 DEF AskedInVain, AskedOf
  <1> QED
    BY <1>4

(* What one step does to the tickets no answer names: nothing, or an issue *)
(* request fails.                                                          *)
LEMMA UntoldMoves ==
    ASSUME IInv, IssueInv, [Next]_vars
    PROVE  \/ Untold' = Untold /\ AskedInVain' = AskedInVain
           \/ \E r \in Clerk, t \in TicketIds \cup {None} : FailsWith(r, t)
  <1> DEFINE Still == UNCHANGED <<Stored, Named, Failed>>
  <1>1. CASE UNCHANGED vars
    BY <1>1 DEF vars, Untold, Stored, Failed, AskedInVain
  <1>2. ASSUME NEW s \in Desk, DeskBegin(s) \/ DeskStep(s) \/ DeskFail(s)
        PROVE  Still
    <2>1. \A r \in Clerk : pc'[r] = pc[r]
      <3>1. \A r \in Clerk : r # s /\ r \in Requests
        BY KindsAssumption DEF Requests
      <3> QED
        BY <1>2, <3>1
        DEF IInv, TypeOK, DeskBegin, DeskStep, DeskFind, DeskSave, DeskFail,
            Report, Goto
    <2>2. issued' = issued
      BY <1>2 DEF DeskBegin, DeskStep, DeskFind, DeskSave, DeskFail
    <2>3. Stored' = Stored
      <3>1. CASE UNCHANGED ticket
        BY <3>1 DEF Stored
      <3>2. CASE DeskRecords(s)
        BY <3>2, DeskRedemptionType, RecordEffect DEF DeskRecords, IInv, TypeOK
      <3> QED
        BY <1>2, <3>1, <3>2 DEF DeskBegin, DeskStep, DeskFind, DeskSave,
                                DeskFail, DeskRecords
    <2>4. Failed' = Failed
      BY <2>1 DEF Failed
    <2> QED
      BY <2>2, <2>3, <2>4 DEF Named
  <1>3. ASSUME NEW s \in Partner,
               PartnerBegin(s) \/ PartnerStep(s) \/ PartnerFail(s)
        PROVE  Still
    <2>1. \A r \in Clerk : pc'[r] = pc[r]
      <3>1. \A r \in Clerk : r # s /\ r \in Requests
        BY KindsAssumption DEF Requests
      <3> QED
        BY <1>3, <3>1
        DEF IInv, TypeOK, PartnerBegin, PartnerStep, PartnerFind, PartnerUser,
            PartnerModify, PartnerFail, Goto
    <2>2. issued' = issued
      BY <1>3 DEF PartnerBegin, PartnerStep, PartnerFind, PartnerUser,
                  PartnerModify, PartnerFail
    <2>3. Stored' = Stored
      <3>1. CASE UNCHANGED ticket
        BY <3>1 DEF Stored
      <3>2. CASE PartnerRecords(s)
        BY <3>2, PartnerRedemptionType, RecordEffect
        DEF PartnerRecords, IInv, TypeOK
      <3> QED
        BY <1>3, <3>1, <3>2 DEF PartnerBegin, PartnerStep, PartnerFind,
                   PartnerUser, PartnerModify, PartnerFail, PartnerRecords
    <2>4. Failed' = Failed
      BY <2>1 DEF Failed
    <2> QED
      BY <2>2, <2>3, <2>4 DEF Named
  <1>4. ASSUME NEW s \in Clerk, ClerkBegin(s)
        PROVE  Still
    <2>1. PICK f \in ClerkForms, b \in BOOLEAN : Goto(s, ClerkVerdict(f, b))
      BY <1>4 DEF ClerkBegin
    <2>2. ClerkVerdict(f, b) # "error"
      BY DEF ClerkVerdict
    <2>3. Failed' = Failed
      BY <1>4, <2>1, <2>2
      DEF Failed, ClerkBegin, Goto, IInv, TypeOK, Requests
    <2> QED
      BY <1>4, <2>3 DEF ClerkBegin, Stored, Named
  <1>5. ASSUME NEW s \in Clerk, ClerkInsert(s)
        PROVE  Untold' = Untold /\ Failed' = Failed
    <2>1. PICK t \in TicketIds, c \in Codes :
            /\ Insert(s, t, c)
            /\ issued' = [issued EXCEPT ![s] =
                            [tickets |-> issued[s].tickets \cup {t},
                             attempts |-> 0]]
      BY <1>5 DEF ClerkInsert
    <2>2. form[s].to \in Owners /\ form[s].by \in Users
      BY <1>5 DEF ClerkInsert, IInv, ClerkAt
    <2>3. Stored' = Stored \cup {t} /\ t \notin Stored
      BY <2>1, <2>2, InsertEffect DEF IInv, TypeOK
    <2>4. /\ issued'[s].tickets = issued[s].tickets \cup {t}
          /\ \A r \in Clerk \ {s} : issued'[r] = issued[r]
      BY <2>1 DEF IInv, TypeOK
    <2>5. Failed' = Failed /\ s \notin Failed
      BY <1>5 DEF Failed, ClerkInsert, Goto, IInv, TypeOK, Requests
    <2>6. Named' = Named \cup {t}
      BY <2>4, <2>5 DEF Named
    <2>7. Untold = Stored \ Named /\ Untold' = Stored' \ Named'
      BY DEF Untold, Named
    <2> QED
      BY <2>3, <2>5, <2>6, <2>7
  <1>6. ASSUME NEW s \in Clerk, pc[s] = "insert", Failed' = Failed \cup {s},
               form' = form, NEW t \in TicketIds \cup {None},
               Stored' \subseteq Stored \cup {t},
               \A r \in Clerk : issued'[r].tickets = issued[r].tickets
        PROVE  FailsWith(s, t)
    <2>1. s \notin Failed
      BY <1>6 DEF Failed
    <2>2. Named \subseteq Named' \cup issued[s].tickets
      BY <1>6 DEF Named
    <2>3. Untold = Stored \ Named /\ Untold' = Stored' \ Named'
      BY DEF Untold, Named
    <2>4. Untold' \subseteq Untold \cup issued[s].tickets \cup {t}
      BY <1>6, <2>2, <2>3
    <2> QED
      BY <1>6, <2>1, <2>4, OneFails DEF FailsWith
  <1>7. ASSUME NEW s \in Clerk, ClerkCollision(s)
        PROVE  Still \/ FailsWith(s, None)
    <2>1. issued'[s].tickets = issued[s].tickets
      BY <1>7, IssuedMoves DEF Saves, Insert, ClerkCollision, Stored
    <2>2. \A r \in Clerk \ {s} : issued'[r] = issued[r]
      BY <1>7 DEF ClerkCollision, IInv, TypeOK
    <2>3. \A r \in Clerk : issued'[r].tickets = issued[r].tickets
      BY <2>1, <2>2
    <2>4. Stored' = Stored
      BY <1>7 DEF ClerkCollision, Stored
    <2>5. Failed' = Failed \/ Failed' = Failed \cup {s}
      BY <1>7 DEF Failed, ClerkCollision, Goto, IInv, TypeOK, Requests
    <2>6. CASE Failed' = Failed
      BY <2>3, <2>4, <2>6 DEF Named
    <2>7. CASE Failed' = Failed \cup {s}
      <3>1. pc[s] = "insert" /\ form' = form
        BY <1>7 DEF ClerkCollision
      <3> QED
        BY <1>6, <2>3, <2>4, <2>7, <3>1
    <2> QED
      BY <2>5, <2>6, <2>7
  <1>8. ASSUME NEW s \in Clerk, ClerkFail(s)
        PROVE  \E t \in TicketIds \cup {None} : FailsWith(s, t)
    <2>1. /\ pc[s] = "insert"
          /\ Failed' = Failed \cup {s}
          /\ form' = form
          /\ \A r \in Clerk : issued'[r].tickets = issued[r].tickets
      BY <1>8 DEF Failed, ClerkFail, Goto, IInv, TypeOK, Requests
    <2>2. CASE UNCHANGED ticket
      <3>1. Stored' \subseteq Stored \cup {None}
        BY <2>2 DEF Stored
      <3> QED
        BY <1>6, <2>1, <3>1
    <2>3. ASSUME NEW t \in TicketIds, NEW c \in Codes, Insert(s, t, c)
          PROVE  FailsWith(s, t)
      <3>1. form[s].to \in Owners /\ form[s].by \in Users
        BY <1>8 DEF ClerkFail, IInv, ClerkAt
      <3>2. Stored' \subseteq Stored \cup {t}
        BY <2>3, <3>1, InsertEffect DEF IInv, TypeOK
      <3> QED
        BY <1>6, <2>1, <3>2
    <2> QED
      BY <1>8, <2>2, <2>3 DEF ClerkFail
  <1>9. Still => Untold' = Untold
    BY DEF Untold, Named
  <1>10. CASE \E s \in Clerk : ClerkBegin(s) \/ ClerkStep(s) \/ ClerkFail(s)
    BY <1>4, <1>5, <1>7, <1>8, <1>9, <1>10, NoneFails DEF ClerkStep
  <1> QED
    BY <1>1, <1>2, <1>3, <1>9, <1>10, NoneFails DEF Next, AllEnded

(* A request that fails leaves no more tickets unnamed than it was asked   *)
(* for: it had saved fewer, and one more insert may have been applied.     *)
LEMMA UntoldStep ==
    ASSUME IInv, IssueInv, [Next]_vars
    PROVE  UntoldCounted'
  <1>1. /\ IsFiniteSet(Untold)
        /\ IsFiniteSet(AskedInVain)
        /\ Cardinality(Untold) <= Cardinality(AskedInVain)
        /\ Cardinality(Untold) \in Nat
        /\ Cardinality(AskedInVain) \in Nat
    BY FS_CardinalityType DEF IssueInv, UntoldCounted
  <1>2. CASE Untold' = Untold /\ AskedInVain' = AskedInVain
    BY <1>1, <1>2 DEF UntoldCounted
  <1>3. ASSUME NEW r \in Clerk, NEW t \in TicketIds \cup {None},
               FailsWith(r, t)
        PROVE  UntoldCounted'
    <2> DEFINE T == issued[r].tickets
               n == form[r].count
               S == T \cup {t}
    <2>1. /\ n \in Nat
          /\ n >= 1
          /\ IsFiniteSet(T)
          /\ Cardinality(T) \in Nat
          /\ Cardinality(T) < n
      BY <1>3, FS_CardinalityType, LimitsAssumption
      DEF FailsWith, IssueInv, IssuedAt
    <2>2. /\ IsFiniteSet(S)
          /\ Cardinality(S) \in Nat
          /\ Cardinality(S) <= n
      <3>1. /\ IsFiniteSet(S)
            /\ \/ Cardinality(S) = Cardinality(T)
               \/ Cardinality(S) = Cardinality(T) + 1
        <4> HIDE DEF T
        <4> QED
          BY <2>1, FS_AddElement
      <3> HIDE DEF T, n, S
      <3> QED
        BY <2>1, <3>1
    <2>3. /\ IsFiniteSet(Untold \cup S)
          /\ Cardinality(Untold \cup S) \in Nat
          /\ Cardinality(Untold \cup S) <= Cardinality(Untold) + n
      <3>1. IsFiniteSet(Untold \cap S)
        BY <2>2, FS_Subset
      <3>2. Cardinality(Untold \cap S) \in Nat
        BY <3>1, FS_CardinalityType
      <3>3. /\ IsFiniteSet(Untold \cup S)
            /\ Cardinality(Untold \cup S) =
                  Cardinality(Untold) + Cardinality(S)
                    - Cardinality(Untold \cap S)
        BY <1>1, <2>2, FS_Union
      <3>4. Cardinality(Untold \cup S) \in Nat
        BY <3>3, FS_CardinalityType
      <3> QED
        BY <1>1, <2>1, <2>2, <3>2, <3>3, <3>4
    <2>4. /\ IsFiniteSet(Untold')
          /\ Cardinality(Untold') \in Nat
          /\ Cardinality(Untold') <= Cardinality(Untold) + n
      <3>1. Untold' \in SUBSET (Untold \cup S)
        BY <1>3 DEF FailsWith
      <3>2. /\ IsFiniteSet(Untold')
            /\ Cardinality(Untold') <= Cardinality(Untold \cup S)
        BY <2>3, <3>1, FS_Subset
      <3>3. Cardinality(Untold') \in Nat
        BY <3>2, FS_CardinalityType
      <3> QED
        BY <1>1, <2>1, <2>3, <3>2, <3>3
    <2>5. /\ IsFiniteSet(AskedOf(r))
          /\ Cardinality(AskedOf(r)) = n
      <3>1. IsFiniteSet({r}) /\ Cardinality({r}) = 1
        BY FS_Singleton
      <3>2. IsFiniteSet(1..n) /\ Cardinality(1..n) = n
        BY <2>1, FS_Interval
      <3>3. /\ IsFiniteSet({r} \X (1..n))
            /\ Cardinality({r} \X (1..n)) =
                  Cardinality({r}) * Cardinality(1..n)
        BY <3>1, <3>2, FS_Product
      <3> QED
        BY <2>1, <3>1, <3>2, <3>3 DEF AskedOf
    <2>6. AskedInVain \cap AskedOf(r) = {}
      BY <1>3 DEF FailsWith, AskedInVain, AskedOf
    <2>7. Cardinality(AskedInVain \cap AskedOf(r)) = 0
      BY <2>6, FS_EmptySet
    <2>8. /\ IsFiniteSet(AskedInVain')
          /\ Cardinality(AskedInVain') = Cardinality(AskedInVain) + n
      <3>1. AskedInVain' = AskedInVain \cup AskedOf(r)
        BY <1>3 DEF FailsWith
      <3>2. /\ IsFiniteSet(AskedInVain \cup AskedOf(r))
            /\ Cardinality(AskedInVain \cup AskedOf(r)) =
                  Cardinality(AskedInVain) + Cardinality(AskedOf(r))
                    - Cardinality(AskedInVain \cap AskedOf(r))
        BY <1>1, <2>5, FS_Union
      <3> QED
        BY <1>1, <2>1, <2>5, <2>7, <3>1, <3>2
    <2> QED
      BY <1>1, <2>1, <2>4, <2>8 DEF UntoldCounted
  <1> QED
    BY <1>2, <1>3, UntoldMoves

(* Nothing is stored at first.                                             *)
LEMMA InitIssue == Init => IssueInv
  <1> SUFFICES ASSUME Init PROVE IssueInv
    OBVIOUS
  <1>1. Untold = {} /\ AskedInVain = {}
    BY DEF Init, Untold, Stored, Failed, Requests, AskedInVain
  <1>2. UntoldCounted
    BY <1>1, FS_EmptySet DEF UntoldCounted
  <1>3. \A r \in Clerk : issued[r].tickets = {} /\ pc[r] = "idle"
    BY DEF Init, Requests
  <1> QED
    BY <1>2, <1>3 DEF IssueInv, IssuedAt, IssuedApart

(* An issue request answered 200 has stored the tickets it was asked for,  *)
(* each of them its own, and the tickets that no answer names are at most  *)
(* as many as the failed requests together were asked for                  *)
(* (issue.py:110-129).                                                     *)
THEOREM IssuesInFull == Spec => []IssuedInFull
  <1>1. IInv /\ IssueInv /\ [Next]_vars => IssueInv'
    BY IssuedAtStep, ApartStep, UntoldStep DEF IssueInv
  <1>2. IssueInv => IssuedInFull
    BY DEF IssueInv, IssuedAt, IssuedApart, UntoldCounted, IssuedInFull
  <1> QED
    BY <1>1, <1>2, InitIssue, Invariance, PTL DEF Spec
=============================================================================
