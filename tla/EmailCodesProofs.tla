--------------------------- MODULE EmailCodesProofs ---------------------------
(***************************************************************************)
(* Proofs about EmailCodes, for any number of requests, accounts and       *)
(* addresses and any lifetime and delay of a code.  The invariant CodesInv *)
(* says what each request knows at each of its positions (SendAt, VisitAt, *)
(* EditAt) and ties the slots to the requests that filled them             *)
(* (SlotsSaved): a code in a slot is the one its Send has mailed and       *)
(* saved, so a request that works on an old copy holds a code that was     *)
(* there, for that account.                                                *)
(***************************************************************************)
EXTENDS EmailCodes, TLAPS

Inputs == [session : Accounts \cup {None}, address : Addresses \cup {None},
           code : Sends \cup {None}]

Positions == {"idle", "taken", "mail", "save", "erase", "consume"} \cup Ended

Typed ==
    /\ user \in [Accounts -> User]
    /\ now \in 0..MaxTime
    /\ mail \subseteq Mail
    /\ pc \in [Requests -> Positions]
    /\ input \in [Requests -> Inputs]
    /\ copy \in [Requests -> Copies \cup {None}]

(* The pending code p was saved for the account u by the request it is the *)
(* code of, as that request still has it.                                  *)
SavedFor(u, p) ==
    /\ p.code \in Sends
    /\ pc[p.code] = "sent"
    /\ copy[p.code] \in Copies
    /\ copy[p.code].id = u
    /\ copy[p.code].doc.slot = p

SlotsSaved ==
    \A u \in Accounts : user[u].slot # None => SavedFor(u, user[u].slot)

(* Where a request of each kind can be, and what it knows there.           *)
SendAt(r) ==
    /\ pc[r] \in {"idle", "taken", "mail", "save", "refused", "error", "sent"}
    /\ pc[r] \in {"taken", "mail", "save", "sent"} =>
          /\ copy[r] \in Copies
          /\ input[r].address \in Addresses
          /\ input[r].session = None => copy[r].doc.email = input[r].address
          /\ input[r].session # None => copy[r].id = input[r].session
    /\ pc[r] = "taken" => input[r].session # None
    /\ pc[r] \in {"save", "sent"} =>
          /\ MailedTo(input[r].address, r)
          /\ copy[r].doc.slot \in Pending
          /\ copy[r].doc.slot.code = r
          /\ copy[r].doc.slot.email = input[r].address
          /\ copy[r].doc.slot.purpose = Purpose(r)

VisitAt(r) ==
    /\ pc[r] \in {"idle", "erase", "consume", "refused", "error", "done",
                  "signed_in", "changed"}
    /\ pc[r] \in {"erase", "consume", "signed_in", "changed"} =>
          /\ copy[r] \in Copies
          /\ copy[r].doc.slot \in Pending
          /\ SavedFor(copy[r].id, copy[r].doc.slot)
    /\ pc[r] = "erase" => Expired(copy[r].doc.slot)
    /\ pc[r] \in {"consume", "signed_in", "changed"} =>
          /\ Matches(copy[r].doc.slot, Purpose(r), input[r].code)
          /\ input[r].session # None => copy[r].id = input[r].session
    /\ pc[r] = "signed_in" => input[r].session = None
    /\ pc[r] = "changed" => input[r].session # None

EditAt(r) ==
    /\ pc[r] \in {"idle", "save", "refused", "done", "error"}
    /\ pc[r] = "save" => copy[r] \in Copies

CodesInv ==
    /\ Typed
    /\ SlotsSaved
    /\ \A r \in Sends : SendAt(r)
    /\ \A r \in Visits : VisitAt(r)
    /\ \A r \in Edits : EditAt(r)
    /\ UsedCodesAreGone

-----------------------------------------------------------------------------
(* Who moves.                                                              *)

Local(r) == <<pc[r], input[r], copy[r]>>

SendMoves(r) == SendBegin(r) \/ SendStep(r) \/ SaveFail(r)
VisitMoves(r) ==
    VisitBegin(r) \/ VerifyBegin(r) \/ VerifyStep(r) \/ SaveFail(r)
EditMoves(r) == EditBegin(r) \/ EditSave(r) \/ SaveFail(r)

(* A step of one request leaves the local state of the others alone.       *)
LEMMA OthersStay ==
    ASSUME Typed, NEW r \in Requests, NEW s \in Requests \ {r},
           SendMoves(r) \/ VisitMoves(r) \/ EditMoves(r)
    PROVE  UNCHANGED Local(s)
  <1> USE DEF Typed, Local, Goto, Answer, Enter, Load
  <1>1. CASE SendBegin(r)
    BY <1>1 DEF SendBegin
  <1>2. CASE SendStep(r)
    BY <1>2 DEF SendStep, SendTaken, SendMail, SendMailFail, SendSave
  <1>3. CASE SaveFail(r)
    BY <1>3 DEF SaveFail
  <1>4. CASE VisitBegin(r)
    BY <1>4 DEF VisitBegin
  <1>5. CASE VerifyBegin(r)
    BY <1>5 DEF VerifyBegin
  <1>6. CASE VerifyStep(r)
    BY <1>6 DEF VerifyStep, Erase, SignIn, ChangeAddress
  <1>7. CASE EditBegin(r)
    BY <1>7 DEF EditBegin
  <1>8. CASE EditSave(r)
    BY <1>8 DEF EditSave
  <1> QED
    BY <1>1, <1>2, <1>3, <1>4, <1>5, <1>6, <1>7, <1>8
    DEF SendMoves, VisitMoves, EditMoves

(* Whose step it is, or none's.                                            *)
LEMMA StepKinds ==
    ASSUME [Next]_vars
    PROVE  \/ UNCHANGED <<user, mail, pc, input, copy>> /\ (Tick \/ now' = now)
           \/ \E r \in Sends : SendMoves(r)
           \/ \E r \in Visits : VisitMoves(r)
           \/ \E r \in Edits : EditMoves(r)
  BY DEF Next, vars, Tick, AllEnded, SendMoves, VisitMoves, EditMoves

(* A request moves by its own steps.                                       *)
LEMMA OwnMoves ==
    ASSUME Typed, [Next]_vars
    PROVE  /\ \A r \in Sends : UNCHANGED Local(r) \/ SendMoves(r)
           /\ \A r \in Visits : UNCHANGED Local(r) \/ VisitMoves(r)
           /\ \A r \in Edits : UNCHANGED Local(r) \/ EditMoves(r)
  <1>1. CASE UNCHANGED <<user, mail, pc, input, copy>>
    BY <1>1 DEF Local
  <1>2. ASSUME NEW r \in Requests,
               SendMoves(r) \/ VisitMoves(r) \/ EditMoves(r)
        PROVE  \A s \in Requests \ {r} : UNCHANGED Local(s)
    BY <1>2, OthersStay
  <1>3. CASE \E r \in Sends : SendMoves(r)
    BY <1>2, <1>3, CodesKindsAssumption DEF Requests
  <1>4. CASE \E r \in Visits : VisitMoves(r)
    BY <1>2, <1>4, CodesKindsAssumption DEF Requests
  <1>5. CASE \E r \in Edits : EditMoves(r)
    BY <1>2, <1>5, CodesKindsAssumption DEF Requests
  <1> QED
    BY <1>1, <1>3, <1>4, <1>5, StepKinds

(* Mails are not taken back, and an answered request is done.              *)
LEMMA MailStays == [Next]_vars => mail \subseteq mail'
  <1> SUFFICES ASSUME [Next]_vars PROVE mail \subseteq mail'
    OBVIOUS
  <1>1. ASSUME NEW r, SendMoves(r) PROVE mail \subseteq mail'
    BY <1>1 DEF SendMoves, SendBegin, SendStep, SendTaken, SendMail,
       SendMailFail, SendSave, SaveFail, Deliver
  <1>2. ASSUME NEW r, VisitMoves(r) \/ EditMoves(r) PROVE mail \subseteq mail'
    BY <1>2 DEF VisitMoves, EditMoves, VisitBegin, VerifyBegin, VerifyStep,
       Erase, SignIn, ChangeAddress, EditBegin, EditSave, SaveFail
  <1> QED
    BY <1>1, <1>2, StepKinds

(* A Send that has been answered keeps what it had.                        *)
LEMMA SentStays ==
    ASSUME CodesInv, [Next]_vars, NEW c \in Sends, pc[c] \in Ended
    PROVE  UNCHANGED Local(c)
  BY OwnMoves DEF CodesInv, SendMoves, SendBegin, SendStep, SendTaken,
     SendMail, SendMailFail, SendSave, SaveFail, Ended

(* What a request saved for an account, it has saved for good.             *)
LEMMA SavedForStays ==
    ASSUME CodesInv, [Next]_vars, NEW u, NEW p, SavedFor(u, p)
    PROVE  SavedFor(u, p)'
  <1>1. pc[p.code] \in Ended
    BY DEF SavedFor, Ended
  <1> QED
    BY <1>1, SentStays DEF SavedFor, Local

-----------------------------------------------------------------------------
(* The type invariant.                                                     *)

(* What is in a pending code.                                              *)
LEMMA PendingType ==
    ASSUME NEW p \in Pending
    PROVE  /\ p.email \in Addresses
           /\ p.code \in Sends
           /\ p.issued \in 0..MaxTime
           /\ p # None
  BY CodesNoneAssumption DEF Pending

(* What is in a copy of a document.                                        *)
LEMMA CopyType ==
    ASSUME Typed, NEW r \in Requests, copy[r] \in Copies
    PROVE  /\ copy[r].id \in Accounts
           /\ copy[r].doc \in User
           /\ copy[r].doc.slot \in Pending \cup {None}
           /\ copy[r].doc.email \in Addresses \cup {None}
  BY DEF Copies, User

(* What a request reads is a document.                                     *)
LEMMA LoadType ==
    ASSUME Typed, NEW r \in Requests, NEW u \in Accounts, Load(r, u)
    PROVE  /\ copy' \in [Requests -> Copies \cup {None}]
           /\ copy'[r] \in Copies
           /\ copy'[r].id = u
           /\ copy'[r].doc = user[u]
  <1>1. [id |-> u, doc |-> user[u]] \in Copies
    BY DEF Typed, Copies
  <1> QED
    BY <1>1 DEF Typed, Load

(* What a request is given when it begins is an input.                     *)
LEMMA EnterType ==
    ASSUME Typed, NEW r \in Requests, NEW s \in Accounts \cup {None},
           NEW a \in Addresses \cup {None}, NEW c \in Sends \cup {None},
           Enter(r, s, a, c)
    PROVE  /\ input' \in [Requests -> Inputs]
           /\ input'[r].session = s
           /\ input'[r].address = a
           /\ input'[r].code = c
  <1>1. [session |-> s, address |-> a, code |-> c] \in Inputs
    BY DEF Inputs
  <1> QED
    BY <1>1 DEF Typed, Enter

(* What a request is left with when it is answered.                        *)
LEMMA AnswerType ==
    ASSUME Typed, NEW r \in Requests, NEW how \in Positions, Answer(r, how)
    PROVE  /\ pc' \in [Requests -> Positions]
           /\ input' \in [Requests -> Inputs]
           /\ copy' \in [Requests -> Copies \cup {None}]
           /\ pc'[r] = how
  BY DEF Typed, Answer, Goto, NoInput, Inputs

(* Where a request goes on.                                                *)
LEMMA GotoType ==
    ASSUME Typed, NEW r \in Requests, NEW how \in Positions, Goto(r, how)
    PROVE  /\ pc' \in [Requests -> Positions]
           /\ pc'[r] = how
  BY DEF Typed, Goto

(* Writing the slot of one account touches nothing else.                   *)
LEMMA SlotWrite ==
    ASSUME Typed, NEW u \in Accounts, NEW x \in Pending \cup {None},
           user' = [user EXCEPT ![u].slot = x]
    PROVE  /\ user' \in [Accounts -> User]
           /\ user'[u].slot = x
           /\ user'[u].email = user[u].email
           /\ \A v \in Accounts \ {u} : user'[v] = user[v]
  <1>1. user[u] \in User
    BY DEF Typed
  <1>2. /\ [user[u] EXCEPT !.slot = x] \in User
        /\ [user[u] EXCEPT !.slot = x].slot = x
        /\ [user[u] EXCEPT !.slot = x].email = user[u].email
    BY <1>1 DEF User
  <1> QED
    BY <1>2 DEF Typed

(* So does writing address and slot together.                              *)
LEMMA AddressWrite ==
    ASSUME Typed, NEW r \in Requests, copy[r] \in Copies,
           NEW a \in Addresses \cup {None}, NEW x \in Pending \cup {None},
           SaveAddress(r, a, x)
    PROVE  /\ user' \in [Accounts -> User]
           /\ user'[copy[r].id].slot = x
           /\ \/ user'[copy[r].id].email = a
              \/ user'[copy[r].id].email = user[copy[r].id].email
           /\ \A v \in Accounts \ {copy[r].id} : user'[v] = user[v]
  <1> DEFINE u == copy[r].id
             d == [email |-> IF Differs(r, a) THEN a ELSE user[u].email,
                   slot |-> x]
  <1>1. u \in Accounts /\ user[u] \in User
    BY CopyType DEF Typed
  <1>2. d \in User /\ d.slot = x /\ (d.email = a \/ d.email = user[u].email)
    BY <1>1 DEF User
  <1>3. user' = [user EXCEPT ![u] = d]
    BY DEF SaveAddress
  <1> HIDE DEF d, u
  <1>4. user' \in [Accounts -> User] /\ user'[u] = d
        /\ \A v \in Accounts \ {u} : user'[v] = user[v]
    BY <1>1, <1>2, <1>3 DEF Typed
  <1> QED
    BY <1>2, <1>4 DEF u

(* The copy a Send works on after its mail: only the slot is new.          *)
LEMMA MailWrite ==
    ASSUME Typed, NEW r \in Sends, copy[r] \in Copies,
           input[r].address \in Addresses,
           copy' = [copy EXCEPT ![r].doc.slot = NewPending(r)]
    PROVE  /\ copy' \in [Requests -> Copies \cup {None}]
           /\ NewPending(r) \in Pending
           /\ copy'[r] \in Copies
           /\ copy'[r].id = copy[r].id
           /\ copy'[r].doc.email = copy[r].doc.email
           /\ copy'[r].doc.slot = NewPending(r)
  <1>1. NewPending(r) \in Pending
    BY DEF NewPending, Pending, Purpose, Typed
  <1> DEFINE k == copy[r]
             d == [k.doc EXCEPT !.slot = NewPending(r)]
             n == [k EXCEPT !.doc = d]
  <1>2. k \in Copies /\ k.doc \in User
    BY DEF Copies
  <1>3. /\ d \in User
        /\ d.slot = NewPending(r)
        /\ d.email = k.doc.email
    BY <1>1, <1>2 DEF User
  <1>4. n \in Copies /\ n.id = k.id /\ n.doc = d
    BY <1>2, <1>3 DEF Copies
  <1>5. r \in Requests /\ copy' = [copy EXCEPT ![r] = n]
    BY DEF Requests
  <1>6. copy' \in [Requests -> Copies \cup {None}] /\ copy'[r] = n
    BY <1>4, <1>5 DEF Typed
  <1> QED
    BY <1>1, <1>3, <1>4, <1>6

(* A step of a Send keeps the types.                                       *)
LEMMA SendTyped ==
    ASSUME CodesInv, NEW r \in Sends, SendMoves(r)
    PROVE  Typed'
  <1> r \in Requests
    BY DEF Requests
  <1> USE DEF CodesInv
  <1>1. CASE SendBegin(r)
    <2>1. UNCHANGED <<user, now, mail>>
      BY <1>1 DEF SendBegin
    <2>2. CASE Answer(r, "refused")
      BY <2>1, <2>2, AnswerType DEF Typed, Positions, Ended
    <2>3. ASSUME NEW s \in Accounts \cup {None}, NEW a \in Addresses,
                 NEW u \in Accounts, NEW where \in {"mail", "taken"},
                 Enter(r, s, a, None), Load(r, u), Goto(r, where)
          PROVE  Typed'
      BY <2>1, <2>3, EnterType, LoadType, GotoType DEF Typed, Positions
    <2> QED
      BY <1>1, <2>2, <2>3 DEF SendBegin, WithAddress
  <1>2. CASE SendTaken(r)
    <2>1. CASE Answer(r, "refused")
      BY <1>2, <2>1, AnswerType DEF Typed, Positions, Ended, SendTaken
    <2>2. CASE Goto(r, "mail") /\ UNCHANGED <<input, copy>>
      BY <1>2, <2>2, GotoType DEF Typed, Positions, SendTaken
    <2> QED
      BY <1>2, <2>1, <2>2 DEF SendTaken
  <1>3. ASSUME pc[r] = "mail", Deliver(r)
        PROVE  mail' \subseteq Mail
    <2>1. input[r].address \in Addresses
      BY <1>3 DEF SendAt
    <2> QED
      BY <1>3, <2>1 DEF Deliver, Typed, Mail
  <1>4. CASE SendMail(r)
    <2>1. copy[r] \in Copies /\ input[r].address \in Addresses
      BY <1>4 DEF SendMail, SendAt
    <2>2. copy' \in [Requests -> Copies \cup {None}]
      BY <1>4, <2>1, MailWrite DEF SendMail
    <2> QED
      BY <1>3, <1>4, <2>2, GotoType DEF Typed, Positions, SendMail
  <1>5. CASE SendMailFail(r)
    BY <1>3, <1>5, AnswerType DEF Typed, Positions, Ended, SendMailFail
  <1>6. CASE SendSave(r)
    <2>1. copy[r] \in Copies /\ copy[r].doc.slot \in Pending
      BY <1>6 DEF SendSave, SendAt
    <2>2. user' \in [Accounts -> User]
      BY <1>6, <2>1, CopyType, SlotWrite DEF SendSave
    <2> QED
      BY <1>6, <2>2, GotoType DEF Typed, Positions, Ended, SendSave
  <1>7. CASE SaveFail(r)
    BY <1>7, AnswerType DEF Typed, Positions, Ended, SaveFail
  <1> QED
    BY <1>1, <1>2, <1>4, <1>5, <1>6, <1>7 DEF SendMoves, SendStep

(* A step of a Visit keeps the types.                                      *)
LEMMA VisitTyped ==
    ASSUME CodesInv, NEW r \in Visits, VisitMoves(r)
    PROVE  Typed'
  <1> r \in Requests
    BY DEF Requests
  <1> USE DEF CodesInv
  <1>1. CASE VisitBegin(r)
    <2>1. UNCHANGED <<user, now, mail>>
      BY <1>1 DEF VisitBegin
    <2>2. CASE Answer(r, "done")
      BY <2>1, <2>2, AnswerType DEF Typed, Positions, Ended
    <2>3. ASSUME NEW s \in Accounts,
                 Enter(r, s, None, None), Load(r, s), Goto(r, "erase")
          PROVE  Typed'
      BY <2>1, <2>3, EnterType, LoadType, GotoType DEF Typed, Positions
    <2> QED
      BY <1>1, <2>2, <2>3 DEF VisitBegin
  <1>2. CASE VerifyBegin(r)
    <2>1. UNCHANGED <<user, now, mail>>
      BY <1>2 DEF VerifyBegin
    <2>2. CASE Answer(r, "refused")
      BY <2>1, <2>2, AnswerType DEF Typed, Positions, Ended
    <2>3. KnownCodes \subseteq Sends \cup {None}
      BY DEF KnownCodes, Typed, Mail
    <2>4. ASSUME NEW s \in Accounts \cup {None}, NEW a \in Addresses,
                 NEW c \in Sends \cup {None}, NEW u \in Accounts,
                 NEW where \in {"erase", "consume"},
                 Enter(r, s, a, c), Load(r, u), Goto(r, where)
          PROVE  Typed'
      BY <2>1, <2>4, EnterType, LoadType, GotoType DEF Typed, Positions
    <2> QED
      BY <1>2, <2>2, <2>3, <2>4 DEF VerifyBegin, WithAddress, Verdict
  <1>3. CASE Erase(r)
    <2>1. copy[r].id \in Accounts
      BY <1>3, CopyType DEF Erase, VisitAt
    <2> QED
      BY <1>3, <2>1, SlotWrite, AnswerType
      DEF Typed, Positions, Ended, Erase, ClearSlot
  <1>4. CASE SignIn(r)
    <2>1. copy[r].id \in Accounts
      BY <1>4, CopyType DEF SignIn, VisitAt
    <2> QED
      BY <1>4, <2>1, SlotWrite, GotoType
      DEF Typed, Positions, Ended, SignIn, ClearSlot
  <1>5. CASE ChangeAddress(r)
    <2>1. /\ copy[r] \in Copies
          /\ ConfirmedAddressOf(r) \in Addresses
      BY <1>5, PendingType DEF ChangeAddress, VisitAt, ConfirmedAddressOf
    <2>2. CASE Answer(r, "error") /\ UNCHANGED user
      BY <1>5, <2>2, AnswerType DEF Typed, Positions, Ended, ChangeAddress
    <2>3. CASE /\ SaveAddress(r, ConfirmedAddressOf(r), None)
               /\ Goto(r, "changed")
               /\ UNCHANGED <<input, copy>>
      BY <1>5, <2>1, <2>3, AddressWrite, GotoType
      DEF Typed, Positions, Ended, ChangeAddress
    <2> QED
      BY <1>5, <2>2, <2>3 DEF ChangeAddress
  <1>6. CASE SaveFail(r)
    BY <1>6, AnswerType DEF Typed, Positions, Ended, SaveFail
  <1> QED
    BY <1>1, <1>2, <1>3, <1>4, <1>5, <1>6 DEF VisitMoves, VerifyStep

(* A step of an Edit keeps the types.                                      *)
LEMMA EditTyped ==
    ASSUME CodesInv, NEW r \in Edits, EditMoves(r)
    PROVE  Typed'
  <1> r \in Requests
    BY DEF Requests
  <1> USE DEF CodesInv
  <1>1. CASE EditBegin(r)
    BY <1>1, EnterType, LoadType, GotoType DEF EditBegin, Typed, Positions
  <1>2. CASE EditSave(r)
    <2>1. copy[r] \in Copies /\ input[r].address \in Addresses \cup {None}
      BY <1>2 DEF EditSave, EditAt, Typed, Inputs
    <2>2. SlotAfterEdit(r) \in Pending \cup {None}
      BY <2>1, CopyType DEF SlotAfterEdit, Typed, User
    <2>3. user' \in [Accounts -> User]
      BY <1>2, <2>1, <2>2, AddressWrite DEF EditSave, Typed
    <2> QED
      BY <1>2, <2>3, AnswerType DEF Typed, Positions, Ended, EditSave
  <1>3. CASE SaveFail(r)
    BY <1>3, AnswerType DEF Typed, Positions, Ended, SaveFail
  <1> QED
    BY <1>1, <1>2, <1>3 DEF EditMoves

(* Every step keeps the types.                                             *)
LEMMA TypedStep ==
    ASSUME CodesInv, [Next]_vars
    PROVE  Typed'
  <1>1. CASE UNCHANGED <<user, mail, pc, input, copy>> /\ (Tick \/ now' = now)
    <2>1. now' \in 0..MaxTime
      BY <1>1, ClockAssumption DEF CodesInv, Typed, Tick
    <2> QED
      BY <1>1, <2>1 DEF CodesInv, Typed
  <1> QED
    BY <1>1, SendTyped, VisitTyped, EditTyped, StepKinds

-----------------------------------------------------------------------------
(* The parts of the invariant.                                             *)

(* A Send knows what it reads, what it mailed, and what it is to save.     *)
LEMMA SendAtStep ==
    ASSUME CodesInv, [Next]_vars, NEW r \in Sends
    PROVE  SendAt(r)'
  <1> r \in Requests
    BY DEF Requests
  <1> USE DEF CodesInv
  <1>1. CASE UNCHANGED Local(r)
    BY <1>1, MailStays DEF Local, SendAt, MailedTo, Purpose
  <1>2. ASSUME NEW how \in {"refused", "error"}, Answer(r, how)
        PROVE  SendAt(r)'
    BY <1>2, AnswerType DEF SendAt, Positions, Ended
  <1>3. CASE SendBegin(r)
    <2>1. ASSUME NEW s \in Accounts \cup {None}, NEW a \in Addresses,
                 NEW u \in Accounts, NEW where \in {"mail", "taken"},
                 s = None => user[u].email = a /\ where = "mail",
                 s # None => u = s,
                 Enter(r, s, a, None), Load(r, u), Goto(r, where)
          PROVE  SendAt(r)'
      <3>1. pc'[r] = where
        BY <2>1, GotoType DEF Positions
      <3>2. input'[r].session = s /\ input'[r].address = a
        BY <2>1, EnterType
      <3>3. copy'[r] \in Copies /\ copy'[r].id = u /\ copy'[r].doc = user[u]
        BY <2>1, LoadType
      <3> QED
        BY <2>1, <3>1, <3>2, <3>3 DEF SendAt
    <2> QED
      BY <1>2, <1>3, <2>1 DEF SendBegin, WithAddress
  <1>4. CASE SendTaken(r)
    <2>1. CASE Goto(r, "mail") /\ UNCHANGED <<input, copy>>
      BY <1>4, <2>1, GotoType DEF SendAt, SendTaken, Positions
    <2> QED
      BY <1>2, <1>4, <2>1 DEF SendTaken
  <1>5. CASE SendMail(r)
    <2>1. /\ copy[r] \in Copies /\ input[r].address \in Addresses
          /\ copy' = [copy EXCEPT ![r].doc.slot = NewPending(r)]
      BY <1>5 DEF SendMail, SendAt
    <2>2. /\ NewPending(r) \in Pending
          /\ copy'[r] \in Copies
          /\ copy'[r].id = copy[r].id
          /\ copy'[r].doc.email = copy[r].doc.email
          /\ copy'[r].doc.slot = NewPending(r)
      BY <2>1, MailWrite
    <2>3. pc'[r] = "save" /\ input' = input
      BY <1>5, GotoType DEF SendMail, Positions
    <2>4. MailedTo(input[r].address, r)'
      BY <1>5, <2>3 DEF SendMail, Deliver, MailedTo
    <2>5. /\ NewPending(r).email = input[r].address
          /\ NewPending(r).code = r
          /\ NewPending(r).purpose = Purpose(r)
      BY DEF NewPending
    <2> QED
      BY <1>5, <2>1, <2>2, <2>3, <2>4, <2>5 DEF SendAt, SendMail, Purpose
  <1>6. CASE SendMailFail(r)
    BY <1>2, <1>6 DEF SendMailFail
  <1>7. CASE SendSave(r)
    <2>1. pc'[r] = "sent" /\ UNCHANGED <<mail, input, copy>> /\ pc[r] = "save"
      BY <1>7, GotoType DEF SendSave, Positions, Ended
    <2> QED
      BY <2>1 DEF SendAt, MailedTo, Purpose
  <1>8. CASE SaveFail(r)
    BY <1>2, <1>8 DEF SaveFail
  <1> QED
    BY <1>1, <1>3, <1>4, <1>5, <1>6, <1>7, <1>8, OwnMoves
    DEF SendMoves, SendStep

(* What one step does to the slots: nothing, a Send saves its code, or a   *)
(* Visit clears the slot of the account it has read.                       *)
Files(r) ==
    /\ pc[r] = "save" /\ pc'[r] = "sent"
    /\ UNCHANGED copy
    /\ user'[copy[r].id].slot = copy[r].doc.slot
    /\ \A v \in Accounts \ {copy[r].id} : user'[v].slot = user[v].slot

Clears(r) ==
    /\ pc[r] \in {"erase", "consume"} /\ pc'[r] # pc[r]
    /\ user'[copy[r].id].slot = None
    /\ \A v \in Accounts \ {copy[r].id} : user'[v].slot = user[v].slot

(* A slot is filled by a Send, cleared by a Visit, or left alone.          *)
LEMMA SlotMoves ==
    ASSUME CodesInv, [Next]_vars
    PROVE  \/ \A u \in Accounts : user'[u].slot = user[u].slot
           \/ \E r \in Sends : Files(r)
           \/ \E r \in Visits : Clears(r)
  <1> USE DEF CodesInv
  <1>1. CASE UNCHANGED user
    BY <1>1
  <1>2. ASSUME NEW r \in Sends, SendMoves(r)
        PROVE  UNCHANGED user \/ Files(r)
    <2>1. CASE SendSave(r)
      <3>1. /\ r \in Requests /\ copy[r] \in Copies
            /\ copy[r].doc.slot \in Pending
        BY <2>1 DEF SendSave, SendAt, Requests
      <3>2. pc'[r] = "sent"
        BY <2>1, <3>1, GotoType DEF SendSave, Positions, Ended
      <3> QED
        BY <2>1, <3>1, <3>2, CopyType, SlotWrite DEF SendSave, Files
    <2> QED
      BY <1>2, <2>1 DEF SendMoves, SendBegin, SendStep, SendTaken, SendMail,
                        SendMailFail, SaveFail
  <1>3. ASSUME NEW r \in Visits, VisitMoves(r)
        PROVE  UNCHANGED user \/ Clears(r)
    <2>1. r \in Requests
      BY DEF Requests
    <2>2. CASE Erase(r)
      <3>1. copy[r] \in Copies /\ copy[r].id \in Accounts
        BY <2>1, <2>2, CopyType DEF Erase, VisitAt
      <3>2. pc'[r] = "done"
        BY <2>1, <2>2, AnswerType DEF Erase, Positions, Ended
      <3> QED
        BY <2>2, <3>1, <3>2, SlotWrite DEF Erase, ClearSlot, Clears
    <2>3. CASE SignIn(r)
      <3>1. copy[r] \in Copies /\ copy[r].id \in Accounts
        BY <2>1, <2>3, CopyType DEF SignIn, VisitAt
      <3>2. pc'[r] = "signed_in"
        BY <2>1, <2>3, GotoType DEF SignIn, Positions, Ended
      <3> QED
        BY <2>3, <3>1, <3>2, SlotWrite DEF SignIn, ClearSlot, Clears
    <2>4. ASSUME ChangeAddress(r),
                 SaveAddress(r, ConfirmedAddressOf(r), None),
                 Goto(r, "changed")
          PROVE  Clears(r)
      <3>1. copy[r] \in Copies /\ ConfirmedAddressOf(r) \in Addresses
        BY <2>4, PendingType DEF ChangeAddress, VisitAt, ConfirmedAddressOf
      <3>2. pc'[r] = "changed"
        BY <2>1, <2>4, GotoType DEF Positions, Ended
      <3> QED
        BY <2>1, <2>4, <3>1, <3>2, AddressWrite DEF ChangeAddress, Clears
    <2> QED
      BY <1>3, <2>2, <2>3, <2>4 DEF VisitMoves, VisitBegin, VerifyBegin,
                                    VerifyStep, ChangeAddress, SaveFail
  <1>4. ASSUME NEW r \in Edits, EditMoves(r)
        PROVE  \A u \in Accounts : user'[u].slot = user[u].slot
    <2>1. CASE /\ EditSave(r)
               /\ SaveAddress(r, input[r].address, SlotAfterEdit(r))
      <3>1. /\ r \in Requests
            /\ copy[r] \in Copies
            /\ input[r].address \in Addresses \cup {None}
        BY <2>1 DEF EditSave, EditAt, Typed, Inputs, Requests
      <3>2. SlotAfterEdit(r) \in Pending \cup {None}
        BY <3>1, CopyType DEF SlotAfterEdit, Typed, User
      <3> QED
        BY <2>1, <3>1, <3>2, AddressWrite DEF SlotAfterEdit
    <2> QED
      BY <1>4, <2>1 DEF EditMoves, EditBegin, EditSave, SaveFail
  <1> QED
    BY <1>1, <1>2, <1>3, <1>4, StepKinds

(* Every slot holds a code as the request that sent it saved it.           *)
LEMMA SlotsStep ==
    ASSUME CodesInv, [Next]_vars
    PROVE  SlotsSaved'
  <1> SUFFICES ASSUME NEW u \in Accounts, NEW p, p = user'[u].slot, p # None
               PROVE  SavedFor(u, p)'
    BY DEF SlotsSaved, SavedFor
  <1>1. CASE user'[u].slot = user[u].slot
    BY <1>1, SavedForStays DEF CodesInv, SlotsSaved
  <1>2. ASSUME NEW r \in Sends, Files(r), u = copy[r].id
        PROVE  SavedFor(u, p)'
    <2>1. /\ p = copy[r].doc.slot
          /\ p.code = r
          /\ copy[r] \in Copies
          /\ UNCHANGED copy
          /\ pc'[r] = "sent"
      BY <1>2 DEF Files, CodesInv, SendAt
    <2> QED
      BY <1>2, <2>1 DEF SavedFor
  <1> QED
    BY <1>1, <1>2, SlotMoves DEF Clears, Files

(* The clock does not go back, so what has expired stays expired.          *)
LEMMA ExpiredStays ==
    ASSUME CodesInv, [Next]_vars, NEW p \in Pending, Expired(p)
    PROVE  Expired(p)'
  <1>1. now' = now \/ now' = now + 1
    <2>1. ASSUME NEW r, SendMoves(r) PROVE now' = now
      BY <2>1 DEF SendMoves, SendBegin, SendStep, SendTaken, SendMail,
         SendMailFail, SendSave, SaveFail
    <2>2. ASSUME NEW r, VisitMoves(r) \/ EditMoves(r) PROVE now' = now
      BY <2>2 DEF VisitMoves, EditMoves, VisitBegin, VerifyBegin, VerifyStep,
         Erase, SignIn, ChangeAddress, EditBegin, EditSave, SaveFail
    <2> QED
      BY <2>1, <2>2, StepKinds DEF Tick
  <1>2. now \in Nat /\ p.issued \in Nat /\ TTL \in Nat
    BY PendingType, ClockAssumption DEF CodesInv, Typed
  <1> QED
    BY <1>1, <1>2 DEF Expired

(* A Visit that goes on has read a saved code, and the one it matches.     *)
LEMMA VisitAtStep ==
    ASSUME CodesInv, [Next]_vars, NEW r \in Visits
    PROVE  VisitAt(r)'
  <1> r \in Requests
    BY DEF Requests
  <1> USE DEF CodesInv
  <1>1. CASE UNCHANGED Local(r)
    <2>1. ASSUME pc[r] \in {"erase", "consume", "signed_in", "changed"}
          PROVE  SavedFor(copy[r].id, copy[r].doc.slot)'
      <3>1. PICK u, p : u = copy[r].id /\ p = copy[r].doc.slot
        OBVIOUS
      <3>2. SavedFor(u, p)'
        BY <2>1, <3>1, SavedForStays DEF VisitAt
      <3> QED
        BY <1>1, <3>1, <3>2 DEF Local, SavedFor
    <2>2. ASSUME pc[r] = "erase"
          PROVE  Expired(copy[r].doc.slot)'
      <3>1. PICK p : p = copy[r].doc.slot
        OBVIOUS
      <3>2. Expired(p)'
        BY <2>2, <3>1, ExpiredStays DEF VisitAt
      <3> QED
        BY <1>1, <3>1, <3>2 DEF Local, Expired
    <2> QED
      BY <1>1, <2>1, <2>2 DEF Local, VisitAt, Matches, Purpose
  <1>2. ASSUME NEW how \in {"refused", "error", "done"}, Answer(r, how)
        PROVE  VisitAt(r)'
    BY <1>2, AnswerType DEF VisitAt, Positions, Ended
  <1>3. ASSUME NEW s \in Accounts \cup {None}, NEW a \in Addresses \cup {None},
               NEW c \in Sends \cup {None}, NEW u \in Accounts,
               NEW where \in {"erase", "consume"},
               user[u].slot # None,
               s # None => u = s,
               where = "erase" => Expired(user[u].slot),
               where = "consume" =>
                  Matches(user[u].slot,
                          IF s = None THEN "signin" ELSE "change", c),
               UNCHANGED now,
               Enter(r, s, a, c), Load(r, u), Goto(r, where)
        PROVE  VisitAt(r)'
    <2>1. pc'[r] = where
      BY <1>3, GotoType DEF Positions
    <2>2. input'[r].session = s /\ input'[r].code = c
      BY <1>3, EnterType
    <2>3. copy'[r] \in Copies /\ copy'[r].id = u /\ copy'[r].doc = user[u]
      BY <1>3, LoadType
    <2> DEFINE p == user[u].slot
    <2>4. p \in Pending /\ SavedFor(u, p)
      BY <1>3 DEF SlotsSaved, Typed, User
    <2>5. SavedFor(copy[r].id, copy[r].doc.slot)'
      <3>1. PICK q : q = user[u].slot
        OBVIOUS
      <3>2. SavedFor(u, q)'
        BY <2>4, <3>1, SavedForStays
      <3> QED
        BY <2>3, <3>1, <3>2 DEF SavedFor
    <2> QED
      BY <1>3, <2>1, <2>2, <2>3, <2>4, <2>5
      DEF VisitAt, Expired, Matches, Purpose
  <1>4. CASE VisitBegin(r)
    BY <1>2, <1>3, <1>4 DEF VisitBegin
  <1>5. CASE VerifyBegin(r)
    <2>1. KnownCodes \subseteq Sends \cup {None}
      BY DEF KnownCodes, Typed, Mail
    <2>2. CASE Answer(r, "refused")
      BY <1>2, <2>2
    <2>3. ASSUME NEW s \in Accounts \cup {None}, NEW a \in Addresses,
                 NEW c \in Sends \cup {None}, NEW u \in Accounts,
                 s # None => u = s,
                 NEW purpose,
                 purpose = IF s = None THEN "signin" ELSE "change",
                 NEW where, where = Verdict(user[u].slot, purpose, c),
                 where # "refused",
                 Enter(r, s, a, c), Load(r, u), Goto(r, where)
          PROVE  VisitAt(r)'
      <3>1. /\ where \in {"erase", "consume"}
            /\ user[u].slot # None
            /\ where = "erase" => Expired(user[u].slot)
            /\ where = "consume" => Matches(user[u].slot, purpose, c)
        BY <2>3 DEF Verdict
      <3> QED
        BY <1>3, <1>5, <2>3, <3>1 DEF VerifyBegin
    <2> QED
      BY <1>5, <2>1, <2>2, <2>3 DEF VerifyBegin, WithAddress
  <1>6. CASE Erase(r) \/ SaveFail(r)
    BY <1>2, <1>6 DEF Erase, SaveFail
  <1>7. ASSUME NEW how \in {"signed_in", "changed"}, pc[r] = "consume",
               how = "signed_in" <=> input[r].session = None,
               Goto(r, how), UNCHANGED <<input, copy>>
        PROVE  VisitAt(r)'
    <2>1. pc'[r] = how
      BY <1>7, GotoType DEF Positions, Ended
    <2>2. SavedFor(copy[r].id, copy[r].doc.slot)'
      <3>1. PICK u, p : u = copy[r].id /\ p = copy[r].doc.slot
        OBVIOUS
      <3>2. SavedFor(u, p)'
        BY <1>7, <3>1, SavedForStays DEF VisitAt
      <3> QED
        BY <1>7, <3>1, <3>2 DEF SavedFor
    <2> QED
      BY <1>7, <2>1, <2>2 DEF VisitAt, Matches, Purpose
  <1>8. CASE SignIn(r)
    BY <1>7, <1>8 DEF SignIn
  <1>9. CASE ChangeAddress(r)
    BY <1>2, <1>7, <1>9 DEF ChangeAddress
  <1> QED
    BY <1>1, <1>4, <1>5, <1>6, <1>8, <1>9, OwnMoves
    DEF VisitMoves, VerifyStep

(* An Edit that goes on has read a document.                               *)
LEMMA EditAtStep ==
    ASSUME CodesInv, [Next]_vars, NEW r \in Edits
    PROVE  EditAt(r)'
  <1> r \in Requests
    BY DEF Requests
  <1> USE DEF CodesInv
  <1>1. CASE UNCHANGED Local(r)
    BY <1>1 DEF Local, EditAt
  <1>2. ASSUME NEW how \in {"refused", "error", "done"}, Answer(r, how)
        PROVE  EditAt(r)'
    BY <1>2, AnswerType DEF EditAt, Positions, Ended
  <1>3. CASE EditBegin(r)
    BY <1>3, LoadType, GotoType DEF EditBegin, EditAt, Positions
  <1>4. CASE EditSave(r) \/ SaveFail(r)
    BY <1>2, <1>4 DEF EditSave, SaveFail
  <1> QED
    BY <1>1, <1>3, <1>4, OwnMoves DEF EditMoves

(* A used code is gone from the slot it was in, and its request does not   *)
(* save it again.                                                          *)
LEMMA UsedStep ==
    ASSUME CodesInv, [Next]_vars
    PROVE  UsedCodesAreGone'
  <1> SUFFICES ASSUME NEW v \in Visits, NEW u \in Accounts,
                      pc'[v] \in {"signed_in", "changed"},
                      user'[u].slot # None,
                      user'[u].slot.code = input'[v].code
               PROVE  FALSE
    BY DEF UsedCodesAreGone
  <1> v \in Requests
    BY DEF Requests
  <1>1. CASE pc[v] \in {"signed_in", "changed"}
    <2>1. UNCHANGED Local(v)
      BY <1>1, OwnMoves DEF CodesInv, VisitMoves, VisitBegin, VerifyBegin,
         VerifyStep, Erase, SignIn, ChangeAddress, SaveFail
    <2>2. pc[input[v].code] = "sent"
      BY <1>1 DEF CodesInv, VisitAt, SavedFor, Matches
    <2>3. user'[u].slot # user[u].slot
      BY <1>1, <2>1 DEF CodesInv, UsedCodesAreGone, Local
    <2>4. PICK r \in Sends : Files(r) /\ copy[r].id = u
      BY <2>3, SlotMoves DEF Clears, Files
    <2>5. user'[u].slot.code = r
      BY <2>4 DEF Files, CodesInv, SendAt
    <2> QED
      BY <2>1, <2>2, <2>4, <2>5 DEF Files, Local
  <1>2. CASE pc[v] \notin {"signed_in", "changed"}
    <2>1. /\ pc[v] = "consume"
          /\ UNCHANGED <<input, copy>>
          /\ user'[copy[v].id].slot = None
          /\ \A w \in Accounts \ {copy[v].id} : user'[w] = user[w]
      <3>1. SignIn(v) \/ ChangeAddress(v)
        BY <1>2, OwnMoves, AnswerType, GotoType
        DEF CodesInv, VisitMoves, VisitBegin, VerifyBegin,
            VerifyStep, Erase, SaveFail, Local, Verdict, Positions, Ended
      <3>2. copy[v] \in Copies /\ ConfirmedAddressOf(v) \in Addresses
        BY <3>1, PendingType
        DEF SignIn, ChangeAddress, CodesInv, VisitAt, ConfirmedAddressOf
      <3>3. CASE SignIn(v)
        BY <3>2, <3>3, CopyType, SlotWrite DEF SignIn, ClearSlot, CodesInv
      <3>4. CASE ChangeAddress(v)
        <4>1. ~Answer(v, "error")
          BY AnswerType DEF CodesInv, Positions, Ended
        <4> QED
          BY <3>2, <3>4, <4>1, AddressWrite DEF ChangeAddress, CodesInv
      <3> QED
        BY <3>1, <3>3, <3>4
    <2>2. SavedFor(copy[v].id, copy[v].doc.slot)
      BY <2>1 DEF CodesInv, VisitAt
    <2>3. copy[v].doc.slot.code = input[v].code
      BY <2>1 DEF CodesInv, VisitAt, Matches
    <2>4. u # copy[v].id /\ user'[u] = user[u]
      BY <2>1
    <2>5. SavedFor(u, user[u].slot)
      BY <2>4 DEF CodesInv, SlotsSaved
    <2> QED
      BY <2>1, <2>2, <2>3, <2>4, <2>5 DEF SavedFor
  <1> QED
    BY <1>1, <1>2

-----------------------------------------------------------------------------
(* The theorems.                                                           *)

(* At the start no code has been sent.                                     *)
LEMMA InitCodes == Init => CodesInv
  <1> SUFFICES ASSUME Init PROVE CodesInv
    OBVIOUS
  <1>1. user \in [Accounts -> User] /\ \A u \in Accounts : user[u].slot = None
    <2>1. user \in [Accounts -> [email : Addresses \cup {None},
                                 slot : {None}]]
      BY DEF Init
    <2> QED
      BY <2>1 DEF User
  <1>2. NoInput \in Inputs
    BY DEF NoInput, Inputs
  <1>3. Typed
    BY <1>1, <1>2, ClockAssumption DEF Init, Typed, Positions
  <1>4. SlotsSaved
    BY <1>1 DEF SlotsSaved
  <1>5. \A r \in Requests : pc[r] = "idle"
    BY DEF Init
  <1> QED
    BY <1>3, <1>4, <1>5
    DEF CodesInv, SendAt, VisitAt, EditAt, UsedCodesAreGone, Requests

(* The inductive invariant: a slot, and the copy of a slot that a Visit    *)
(* works on, hold what one Send has saved there, and no used code.         *)
THEOREM Invariance == Spec => []CodesInv
  <1>1. CodesInv /\ [Next]_vars => CodesInv'
    <2> SUFFICES ASSUME CodesInv, [Next]_vars PROVE CodesInv'
      OBVIOUS
    <2> QED
      BY TypedStep, SlotsStep, SendAtStep, VisitAtStep, EditAtStep, UsedStep
      DEF CodesInv
  <1> QED
    BY <1>1, InitCodes, PTL DEF Spec

(* Whoever is signed in by a code was mailed it at the account's own       *)
(* address, and whoever changes an address was mailed the code from a      *)
(* session of that account, however the one slot was used in between.      *)
THEOREM GrantsAreMailed == Spec => []GrantedByMail
  <1>1. CodesInv => GrantedByMail
    <2> SUFFICES ASSUME CodesInv, NEW v \in Visits,
                        pc[v] \in {"signed_in", "changed"},
                        NEW c, c = input[v].code
                 PROVE  /\ c \in Sends
                        /\ MailedTo(input[c].address, c)
                        /\ pc[v] = "signed_in" =>
                              /\ input[c].session = None
                              /\ copy[c].id = copy[v].id
                              /\ copy[c].doc.email = input[c].address
                        /\ pc[v] = "changed" =>
                              input[c].session = input[v].session
      BY DEF GrantedByMail
    <2>1. /\ copy[v].doc.slot.code = c
          /\ copy[v].doc.slot.purpose = Purpose(v)
          /\ SavedFor(copy[v].id, copy[v].doc.slot)
          /\ input[v].session # None => copy[v].id = input[v].session
          /\ pc[v] = "signed_in" <=> input[v].session = None
      BY DEF CodesInv, VisitAt, Matches
    <2>2. /\ c \in Sends
          /\ pc[c] = "sent"
          /\ copy[c].id = copy[v].id
          /\ copy[c].doc.slot = copy[v].doc.slot
      BY <2>1 DEF SavedFor
    <2>3. /\ MailedTo(input[c].address, c)
          /\ Purpose(c) = Purpose(v)
          /\ input[c].session = None => copy[c].doc.email = input[c].address
          /\ input[c].session # None => copy[c].id = input[c].session
      BY <2>1, <2>2 DEF CodesInv, SendAt
    <2> QED
      BY <2>1, <2>2, <2>3 DEF Purpose
  <1> QED
    BY <1>1, Invariance, PTL

(* A code that admitted somebody is in nobody's slot ever after.           *)
THEOREM UsedCodesStayGone == Spec => []UsedCodesAreGone
  BY Invariance, PTL DEF CodesInv

(* An address changes only by a Visit that has its confirmation, or by an  *)
(* administrator's edit.                                                   *)
LEMMA AddressMoves ==
    ASSUME CodesInv, [Next]_vars, NEW u \in Accounts,
           user'[u].email # user[u].email
    PROVE  \/ \E r \in Edits : /\ pc[r] = "save" /\ pc'[r] = "done"
                               /\ copy[r].id = u
                               /\ input[r].address = user'[u].email
           \/ \E r \in Visits : /\ pc[r] = "consume"
                                /\ input[r].session # None
                                /\ copy[r].id = u
                                /\ ConfirmedAddressOf(r) = user'[u].email
  <1> USE DEF CodesInv
  <1>1. user' # user
    OBVIOUS
  <1>2. ASSUME NEW r \in Sends, SendMoves(r) PROVE FALSE
    <2>1. SendSave(r)
      BY <1>1, <1>2 DEF SendMoves, SendBegin, SendStep, SendTaken, SendMail,
                        SendMailFail, SaveFail
    <2>2. r \in Requests /\ copy[r] \in Copies /\ copy[r].doc.slot \in Pending
      BY <2>1 DEF SendSave, SendAt, Requests
    <2>3. user'[u].email = user[u].email
      BY <2>1, <2>2, CopyType, SlotWrite DEF SendSave
    <2> QED
      BY <2>3
  <1>3. ASSUME NEW r \in Visits, VisitMoves(r)
        PROVE  /\ pc[r] = "consume"
               /\ input[r].session # None
               /\ copy[r].id = u
               /\ ConfirmedAddressOf(r) = user'[u].email
    <2>1. r \in Requests
      BY DEF Requests
    <2>2. ASSUME Erase(r) \/ SignIn(r) PROVE FALSE
      <3>1. copy[r].id \in Accounts
        BY <2>1, <2>2, CopyType DEF Erase, SignIn, VisitAt
      <3>2. user'[u].email = user[u].email
        BY <2>2, <3>1, SlotWrite DEF Erase, SignIn, ClearSlot
      <3> QED
        BY <3>2
    <2>3. /\ ChangeAddress(r)
          /\ SaveAddress(r, ConfirmedAddressOf(r), None)
      BY <1>1, <1>3, <2>2 DEF VisitMoves, VisitBegin, VerifyBegin,
                              VerifyStep, ChangeAddress, SaveFail
    <2>4. copy[r] \in Copies /\ ConfirmedAddressOf(r) \in Addresses
      BY <2>3, PendingType DEF ChangeAddress, VisitAt, ConfirmedAddressOf
    <2>5. copy[r].id = u /\ user'[u].email = ConfirmedAddressOf(r)
      BY <2>1, <2>3, <2>4, AddressWrite
    <2> QED
      BY <2>3, <2>5 DEF ChangeAddress
  <1>4. ASSUME NEW r \in Edits, EditMoves(r)
        PROVE  /\ pc[r] = "save" /\ pc'[r] = "done"
               /\ copy[r].id = u
               /\ input[r].address = user'[u].email
    <2>1. /\ EditSave(r)
          /\ SaveAddress(r, input[r].address, SlotAfterEdit(r))
          /\ Answer(r, "done")
      BY <1>1, <1>4 DEF EditMoves, EditBegin, EditSave, SaveFail
    <2>2. /\ r \in Requests
          /\ copy[r] \in Copies
          /\ input[r].address \in Addresses \cup {None}
      BY <2>1 DEF EditSave, EditAt, Typed, Inputs, Requests
    <2>3. SlotAfterEdit(r) \in Pending \cup {None}
      BY <2>2, CopyType DEF SlotAfterEdit, Typed, User
    <2>4. copy[r].id = u /\ user'[u].email = input[r].address
      BY <2>1, <2>2, <2>3, AddressWrite
    <2> QED
      BY <2>1, <2>2, <2>4, AnswerType DEF EditSave, Positions, Ended
  <1> QED
    BY <1>1, <1>2, <1>3, <1>4, StepKinds

(* The address of an account changes only to what an administrator typed,  *)
(* or to one where a code went that a session of the account asked for.    *)
THEOREM AddressesAreConfirmed == Spec => ConfirmedAddress
  <1>1. ASSUME CodesInv, [Next]_vars, NEW u \in Accounts,
               user'[u].email # user[u].email
        PROVE  \/ \E r \in Edits :
                     /\ pc[r] = "save" /\ pc'[r] = "done"
                     /\ copy[r].id = u
                     /\ input[r].address = user'[u].email
               \/ \E c \in Sends :
                     /\ MailedTo(user'[u].email, c)
                     /\ input[c].session = u
    <2>1. ASSUME NEW r \in Visits, pc[r] = "consume",
                 input[r].session # None, copy[r].id = u,
                 ConfirmedAddressOf(r) = user'[u].email
          PROVE  \E c \in Sends : /\ MailedTo(user'[u].email, c)
                                  /\ input[c].session = u
      <3>1. PICK p : p = copy[r].doc.slot
        OBVIOUS
      <3>2. /\ SavedFor(u, p)
            /\ Matches(p, Purpose(r), input[r].code)
        BY <1>1, <2>1, <3>1 DEF CodesInv, VisitAt
      <3>3. p.email = user'[u].email /\ p.purpose = "change"
        BY <2>1, <3>1, <3>2 DEF ConfirmedAddressOf, Matches, Purpose
      <3>4. PICK c \in Sends : /\ pc[c] = "sent" /\ copy[c].id = u
                               /\ copy[c].doc.slot = p
        BY <3>2 DEF SavedFor
      <3>5. SendAt(c)
        BY <1>1 DEF CodesInv
      <3>6. /\ MailedTo(input[c].address, c)
            /\ p.email = input[c].address
            /\ p.purpose = Purpose(c)
            /\ input[c].session # None => copy[c].id = input[c].session
        BY <3>4, <3>5 DEF SendAt
      <3>7. input[c].session = u
        BY <3>3, <3>4, <3>6 DEF Purpose
      <3> QED
        BY <3>3, <3>6, <3>7
    <2> QED
      BY <1>1, <2>1, AddressMoves
  <1>2. CodesInv /\ [Next]_vars =>
          [\A u \in Accounts :
             user'[u].email # user[u].email =>
               \/ \E r \in Edits :
                     /\ pc[r] = "save" /\ pc'[r] = "done"
                     /\ copy[r].id = u
                     /\ input[r].address = user'[u].email
               \/ \E c \in Sends :
                     /\ MailedTo(user'[u].email, c)
                     /\ input[c].session = u]_vars
    BY <1>1
  <1> QED
    BY <1>2, Invariance, PTL DEF Spec, ConfirmedAddress

(* A spent code is not saved again and not taken up again.                 *)
LEMMA SpentStep ==
    ASSUME CodesInv, [Next]_vars, NEW c \in Sends, Spent(c)
    PROVE  Spent(c)'
  <1>1. pc'[c] \in Ended
    BY SentStays DEF Spent, Local
  <1>2. ASSUME NEW u \in Accounts, user'[u].slot # None,
               user'[u].slot.code = c
        PROVE  FALSE
    <2>1. user'[u].slot # user[u].slot
      BY <1>2 DEF Spent
    <2>2. PICK r \in Sends : Files(r) /\ copy[r].id = u
      BY <1>2, <2>1, SlotMoves DEF Clears, Files
    <2>3. user'[u].slot.code = r /\ pc[r] = "save"
      BY <2>2 DEF Files, CodesInv, SendAt
    <2> QED
      BY <1>2, <2>3 DEF Spent, Ended
  <1>3. ASSUME NEW v \in Visits, pc'[v] = "consume", input'[v].code = c
        PROVE  FALSE
    <2>1. v \in Requests
      BY DEF Requests
    <2>2. ~UNCHANGED Local(v)
      BY <1>3 DEF Spent, Local
    <2>3. VerifyBegin(v)
      BY <1>3, <2>1, <2>2, OwnMoves, AnswerType, GotoType
      DEF CodesInv, VisitMoves, VisitBegin, VerifyStep, Erase, SignIn,
          ChangeAddress, SaveFail, Positions, Ended
    <2>4. ~Answer(v, "refused")
      BY <1>3, <2>1, AnswerType DEF CodesInv, Positions, Ended
    <2>5. PICK s \in Accounts \cup {None}, a \in Addresses, d \in KnownCodes,
               u \in Accounts :
            LET purpose == IF s = None THEN "signin" ELSE "change" IN
            /\ Verdict(user[u].slot, purpose, d) # "refused"
            /\ Goto(v, Verdict(user[u].slot, purpose, d))
            /\ Enter(v, s, a, d)
      BY <2>3, <2>4 DEF VerifyBegin, WithAddress
    <2> DEFINE purpose == IF s = None THEN "signin" ELSE "change"
    <2>6. d \in Sends \cup {None}
      BY DEF KnownCodes, CodesInv, Typed, Mail
    <2>7. d = c
      BY <1>3, <2>1, <2>5, <2>6, EnterType DEF CodesInv
    <2>8. Verdict(user[u].slot, purpose, d) = "consume"
      BY <1>3, <2>1, <2>5, GotoType DEF CodesInv, Verdict, Positions
    <2>9. user[u].slot # None /\ user[u].slot.code = d
      BY <2>8 DEF Verdict, Matches
    <2> QED
      BY <2>7, <2>9 DEF Spent
  <1> QED
    BY <1>1, <1>2, <1>3 DEF Spent

(* No save of a stale document puts an old code back.                      *)
THEOREM SpentCodesStaySpent == Spec => SpentForever
  <1>1. CodesInv /\ [Next]_vars =>
          [\A c \in Sends : Spent(c) => Spent(c)']_vars
    BY SpentStep
  <1> QED
    BY <1>1, Invariance, PTL DEF Spec, SpentForever

(* A code that has not expired is cleared by a Visit that uses it, or that *)
(* had read another code in its place.                                     *)
LEMMA FreshStep ==
    ASSUME CodesInv, [Next]_vars, NEW u \in Accounts, NEW p,
           p = user[u].slot, p # None, now - p.issued <= TTL,
           user'[u].slot = None
    PROVE  \E r \in Visits :
              /\ pc[r] \in {"erase", "consume"}
              /\ pc'[r] # pc[r]
              /\ copy[r].id = u
              /\ pc[r] = "erase" => copy[r].doc.slot # p
              /\ copy[r].doc.slot = p => input[r].code = p.code
  <1>1. ASSUME NEW r \in Sends, Files(r) PROVE user'[u].slot # None
    <2>1. copy[r].doc.slot # None
      BY <1>1, PendingType DEF Files, CodesInv, SendAt
    <2> QED
      BY <1>1, <2>1 DEF Files
  <1>2. PICK r \in Visits : Clears(r)
    BY <1>1, SlotMoves
  <1>3. copy[r].id = u
    BY <1>2 DEF Clears
  <1>4. VisitAt(r)
    BY DEF CodesInv
  <1>5. now \in Nat /\ TTL \in Nat
    BY ClockAssumption DEF CodesInv, Typed
  <1>6. p \in Pending
    BY DEF CodesInv, Typed, User
  <1>7. ~Expired(p)
    BY <1>5, <1>6, PendingType DEF Expired
  <1>8. pc[r] = "erase" => copy[r].doc.slot # p
    BY <1>4, <1>7 DEF VisitAt
  <1>9. pc[r] = "consume" => copy[r].doc.slot.code = input[r].code
    BY <1>4 DEF VisitAt, Matches
  <1> QED
    BY <1>2, <1>3, <1>8, <1>9 DEF Clears

(* A code that has not expired leaves the slot empty only when a Visit     *)
(* used a code, or erased it in the place of an expired one it had read.   *)
THEOREM FreshCodesAreUsed == Spec => FreshErasedOnlyByStale
  <1>1. CodesInv /\ [Next]_vars =>
          [\A u \in Accounts :
             LET p == user[u].slot IN
             (p # None /\ now - p.issued <= TTL /\ user'[u].slot = None) =>
               \E r \in Visits :
                  /\ pc[r] \in {"erase", "consume"}
                  /\ pc'[r] # pc[r]
                  /\ copy[r].id = u
                  /\ pc[r] = "erase" => copy[r].doc.slot # p
                  /\ copy[r].doc.slot = p => input[r].code = p.code]_vars
    BY FreshStep
  <1> QED
    BY <1>1, Invariance, PTL DEF Spec, FreshErasedOnlyByStale

(* The delay before another code is tested against what a Send has read.   *)
LEMMA YoungIsThrottled ==
    ASSUME CodesInv, NEW d, NEW a, d.slot \in Pending \cup {None}
    PROVE  Throttled(d, a) <=> Young(d.slot, a)
  <1>1. now \in Nat /\ RESEND \in Nat
    BY ClockAssumption DEF CodesInv, Typed
  <1>2. d.slot # None => d.slot.issued \in Nat
    BY PendingType
  <1> QED
    BY <1>1, <1>2 DEF Throttled, Young

(* While the clock and the slot stand still no other mail gets under way.  *)
LEMMA QuietStep ==
    ASSUME CodesInv, [Next]_vars, NEW u \in Accounts, NEW a \in Addresses,
           Quiet(u, a), now' = now, user'[u].slot = user[u].slot
    PROVE  Quiet(u, a)'
  <1> USE DEF CodesInv
  <1>1. Young(user[u].slot, a)'
    BY DEF Quiet, Young
  <1>2. ASSUME NEW r \in Sends, pc'[r] \in {"taken", "mail"},
               copy'[r].id = u, input'[r].address = a
        PROVE  pc'[r] = "taken" /\ Young(copy[r].doc.slot, a)'
    <2>1. r \in Requests
      BY DEF Requests
    <2>2. CASE UNCHANGED Local(r)
      BY <1>2, <2>2 DEF Local, Quiet, Young
    <2>3. ASSUME NEW how \in {"refused", "error"}, Answer(r, how)
          PROVE  FALSE
      BY <1>2, <2>1, <2>3, AnswerType DEF Positions, Ended
    <2>4. CASE SendBegin(r)
      <3>1. ASSUME NEW s \in Accounts \cup {None}, NEW b \in Addresses,
                   NEW w \in Accounts, NEW where \in {"mail", "taken"},
                   where = "mail" => ~Throttled(user[w], b),
                   Enter(r, s, b, None), Load(r, w), Goto(r, where)
            PROVE  pc'[r] = "taken" /\ Young(copy[r].doc.slot, a)'
        <4>1. pc'[r] = where
          BY <2>1, <3>1, GotoType DEF Positions
        <4>2. b = a
          BY <1>2, <2>1, <3>1, EnterType
        <4>3. w = u /\ copy'[r].doc = user[u]
          BY <1>2, <2>1, <3>1, LoadType
        <4>4. Throttled(user[u], a)
          BY YoungIsThrottled DEF Quiet, Typed, User
        <4>5. where = "taken"
          BY <3>1, <4>2, <4>3, <4>4
        <4>6. Young(copy[r].doc.slot, a)'
          BY <1>1, <4>3 DEF Young, Quiet
        <4> QED
          BY <4>1, <4>5, <4>6
      <3> QED
        BY <2>3, <2>4, <3>1 DEF SendBegin, WithAddress
    <2>5. CASE SendTaken(r)
      <3>1. /\ pc[r] = "taken"
            /\ ~Throttled(copy[r].doc, input[r].address)
            /\ UNCHANGED <<input, copy>>
        BY <2>3, <2>5 DEF SendTaken
      <3>2. copy[r] \in Copies
        BY <3>1 DEF SendAt
      <3>3. Young(copy[r].doc.slot, a)
        BY <1>2, <3>1 DEF Quiet
      <3>4. Throttled(copy[r].doc, a)
        BY <2>1, <3>2, <3>3, CopyType, YoungIsThrottled
      <3> QED
        BY <1>2, <3>1, <3>4
    <2>6. CASE SendMail(r) \/ SendSave(r)
      <3>1. pc'[r] \in {"save", "sent"}
        BY <2>1, <2>6, GotoType DEF SendMail, SendSave, Positions, Ended
      <3> QED
        BY <1>2, <3>1
    <2> QED
      BY <2>2, <2>3, <2>4, <2>5, <2>6, OwnMoves
      DEF SendMoves, SendStep, SendMailFail, SaveFail
  <1> QED
    BY <1>1, <1>2 DEF Quiet

(* Once no request that tested the delay on an older copy is left, an      *)
(* address is sent no further code until the delay is over or the slot is  *)
(* used for something else.                                                *)
THEOREM ResendsAreDelayed == Spec => ResendDelayed
  <1>1. CodesInv /\ [Next]_vars =>
          [\A u \in Accounts, a \in Addresses :
             Quiet(u, a) =>
                \/ Quiet(u, a)'
                \/ now' # now
                \/ user'[u].slot # user[u].slot]_vars
    BY QuietStep
  <1> QED
    BY <1>1, Invariance, PTL DEF Spec, ResendDelayed
=============================================================================
