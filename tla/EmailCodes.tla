----------------------------- MODULE EmailCodes -----------------------------
(***************************************************************************)
(* Six-digit codes by e-mail (service/auth.py): a code signs a user in at  *)
(* the registered address, or confirms a new address for a user who is     *)
(* signed in.  The user document has one slot for a pending code, whatever *)
(* the code is for.  The requests:                                         *)
(*   Sends     send_email_code     read, mail, save                        *)
(*   Visits    begin_authn         read, erase an expired code             *)
(*             verify_email_code   read, save                              *)
(*   Edits     admin_users.update_user   read, save the address            *)
(* Each is one thread working on the copy of the document it has read; a   *)
(* save writes the fields the request assigned and no other.  The code of  *)
(* a Send is that request itself: codes are not guessed in this model, a   *)
(* visitor knows the codes that were mailed, or a wrong one.               *)
(***************************************************************************)
EXTENDS Naturals, FiniteSets

CONSTANTS
    Sends, Visits, Edits,               \* the requests of each kind
    Accounts,                           \* ids of user documents
    Addresses,                          \* e-mail addresses, casefolded
    TTL,                                \* _EMAIL_CODE_TTL_SECONDS
    RESEND,                             \* _EMAIL_RESEND_DELAY_SECONDS
    MaxTime,                            \* the clock stops here (a bound)
    None

Requests == Sends \cup Visits \cup Edits

ASSUME CodesKindsAssumption ==
    /\ Sends \cap Visits = {}
    /\ (Sends \cup Visits) \cap Edits = {}

ASSUME ClockAssumption == TTL \in Nat /\ RESEND \in Nat /\ MaxTime \in Nat

Pending == [email : Addresses, code : Sends, purpose : {"signin", "change"},
            issued : 0..MaxTime]
User == [email : Addresses \cup {None}, slot : Pending \cup {None}]
Copies == [id : Accounts, doc : User]
Mail == [to : Addresses, code : Sends]

ASSUME CodesNoneAssumption ==
    /\ None \notin Accounts \cup Addresses \cup Requests
    /\ None \notin Pending /\ None \notin Copies

VARIABLES
    user,       \* the user collection: address and pending code
    now,        \* the clock, in units of which TTL and RESEND are counts
    mail,       \* the mails SMTP has accepted
    pc,         \* where each request is, or how it was answered
    input,      \* whose session it came with, the address and code typed in
    copy        \* the document it has read, as it has modified it since

vars == <<user, now, mail, pc, input, copy>>

Goto(r, where) == pc' = [pc EXCEPT ![r] = where]

NoInput == [session |-> None, address |-> None, code |-> None]

(* A request ends without having mailed or granted anything: what its      *)
(* thread knew is forgotten.                                               *)
Answer(r, how) ==
    /\ Goto(r, how)
    /\ input' = [input EXCEPT ![r] = NoInput]
    /\ copy' = [copy EXCEPT ![r] = None]

WithAddress(a) == {u \in Accounts : a # None /\ user[u].email = a}

Load(r, u) == copy' = [copy EXCEPT ![r] = [id |-> u, doc |-> user[u]]]

Init ==
    /\ user \in {d \in [Accounts -> [email : Addresses \cup {None},
                                     slot : {None}]] :
                   \A u, v \in Accounts :
                      d[u].email = d[v].email => u = v \/ d[u].email = None}
    /\ now = 0
    /\ mail = {}
    /\ pc = [r \in Requests |-> "idle"]
    /\ input = [r \in Requests |-> NoInput]
    /\ copy = [r \in Requests |-> None]

-----------------------------------------------------------------------------
(* Sending a code.                                                         *)

(* Mutant: the delay holds for codes of the same purpose only.             *)
ThrottledSignin(doc, a) ==
    /\ doc.slot # None
    /\ doc.slot.email = a /\ doc.slot.purpose = "signin"
    /\ now - doc.slot.issued < RESEND

(* A code for this address is in the slot as read, and is too young.       *)
Throttled(doc, a) ==
    /\ doc.slot # None
    /\ doc.slot.email = a
    /\ now - doc.slot.issued < RESEND

Enter(r, s, a, c) ==
    input' = [input EXCEPT ![r] = [session |-> s, address |-> a, code |-> c]]

(* Without a session the account is found by the address; with one, the    *)
(* address is looked up for another owner in a second read.                *)
SendBegin(r) ==
    /\ pc[r] = "idle"
    /\ \E s \in Accounts \cup {None}, a \in Addresses :
        \/ /\ s = None
           /\ WithAddress(a) = {}
           /\ Answer(r, "refused")
        \/ /\ s = None
           /\ \E u \in WithAddress(a) :
                 \/ Throttled(user[u], a) /\ Answer(r, "refused")
                 \/ /\ ~Throttled(user[u], a)
                    /\ Enter(r, s, a, None)
                    /\ Load(r, u)
                    /\ Goto(r, "mail")
        \/ /\ s # None /\ user[s].email = a
           /\ Answer(r, "refused")
        \/ /\ s # None /\ user[s].email # a
           /\ Enter(r, s, a, None)
           /\ Load(r, s)
           /\ Goto(r, "taken")
    /\ UNCHANGED <<user, now, mail>>

SendTaken(r) ==
    LET a == input[r].address
        taken == WithAddress(a) \ {input[r].session} # {}
        throttled == Throttled(copy[r].doc, a)
    IN
    /\ pc[r] = "taken"
    /\ \/ taken /\ Answer(r, "refused")
       \/ ~taken /\ throttled /\ Answer(r, "refused")
       \/ ~taken /\ ~throttled /\ Goto(r, "mail") /\ UNCHANGED <<input, copy>>
    /\ UNCHANGED <<user, now, mail>>

Purpose(r) == IF input[r].session = None THEN "signin" ELSE "change"

Deliver(r) == mail' = mail \cup {[to |-> input[r].address, code |-> r]}

NewPending(r) == [email |-> input[r].address, code |-> r,
                  purpose |-> Purpose(r), issued |-> now]

(* The mail goes out before anything is saved; the new pending code is     *)
(* dated when SMTP has answered.                                           *)
SendMail(r) ==
    /\ pc[r] = "mail"
    /\ Deliver(r)
    /\ copy' = [copy EXCEPT ![r].doc.slot = NewPending(r)]
    /\ Goto(r, "save")
    /\ UNCHANGED <<user, now, input>>

(* SMTP raises, having delivered the mail or not.                          *)
SendMailFail(r) ==
    /\ pc[r] = "mail"
    /\ Deliver(r) \/ UNCHANGED mail
    /\ Answer(r, "error")
    /\ UNCHANGED <<user, now>>

SendSave(r) ==
    /\ pc[r] = "save"
    /\ r \in Sends
    /\ user' = [user EXCEPT ![copy[r].id].slot = copy[r].doc.slot]
    /\ Goto(r, "sent")
    /\ UNCHANGED <<now, mail, input, copy>>

-----------------------------------------------------------------------------
(* Using a code, and cleaning up an expired one.                           *)

(* Mutant: a code expires one second early.                                *)
ExpiredEarly(p) == now - p.issued >= TTL

Expired(p) == now - p.issued > TTL

(* Mutant: the purpose of the pending code is not looked at.               *)
MatchesCode(p, purpose, c) == p.code = c

Matches(p, purpose, c) == p.purpose = purpose /\ p.code = c

(* What the checks on the slot as read lead to.                            *)
Verdict(p, purpose, c) ==
    IF p # None /\ Expired(p) THEN "erase"
    ELSE IF p # None /\ Matches(p, purpose, c) THEN "consume"
    ELSE "refused"

KnownCodes == {m.code : m \in mail} \cup {None}

VerifyBegin(r) ==
    /\ pc[r] = "idle"
    /\ \E s \in Accounts \cup {None}, a \in Addresses, c \in KnownCodes :
        LET found == IF s = None THEN WithAddress(a) ELSE {s}
            purpose == IF s = None THEN "signin" ELSE "change"
        IN
        \/ found = {} /\ Answer(r, "refused")
        \/ \E u \in found :
              \/ /\ Verdict(user[u].slot, purpose, c) = "refused"
                 /\ Answer(r, "refused")
              \/ /\ Verdict(user[u].slot, purpose, c) # "refused"
                 /\ Goto(r, Verdict(user[u].slot, purpose, c))
                 /\ Enter(r, s, a, c)
                 /\ Load(r, u)
    /\ UNCHANGED <<user, now, mail>>

(* Mutant: the code stays where it is.                                     *)
KeepSlot(u) == UNCHANGED user

(* user.email_authentication = None; user.save(): whatever the slot holds  *)
(* by now is unset.                                                        *)
ClearSlot(u) == user' = [user EXCEPT ![u].slot = None]

Erase(r) ==
    /\ pc[r] = "erase"
    /\ ClearSlot(copy[r].id)
    /\ Answer(r, "done")
    /\ UNCHANGED <<now, mail>>

SignIn(r) ==
    /\ pc[r] = "consume"
    /\ input[r].session = None
    /\ ClearSlot(copy[r].id)
    /\ Goto(r, "signed_in")
    /\ UNCHANGED <<now, mail, input, copy>>

(* An address is saved only if it differs from the one that was read, and  *)
(* the unique index then refuses one that another account has.             *)
Differs(r, a) == a # copy[r].doc.email
Conflicts(r, a) == Differs(r, a) /\ WithAddress(a) \ {copy[r].id} # {}

SaveAddress(r, a, slot) ==
    LET u == copy[r].id IN
    user' = [user EXCEPT ![u] = [email |-> IF Differs(r, a) THEN a ELSE @.email,
                                 slot |-> slot]]

(* Mutant: the address typed into the form, not the confirmed one.         *)
TypedAddress(r) == input[r].address

ConfirmedAddressOf(r) == copy[r].doc.slot.email

(* The address is saved together with the cleared slot.                    *)
ChangeAddress(r) ==
    LET a == ConfirmedAddressOf(r) IN
    /\ pc[r] = "consume"
    /\ input[r].session # None
    /\ \/ Conflicts(r, a) /\ Answer(r, "error") /\ UNCHANGED user
       \/ /\ ~Conflicts(r, a)
          /\ SaveAddress(r, a, None)
          /\ Goto(r, "changed")
          /\ UNCHANGED <<input, copy>>
    /\ UNCHANGED <<now, mail>>

(* begin_authn in a session.                                               *)
VisitBegin(r) ==
    /\ pc[r] = "idle"
    /\ \E s \in Accounts :
        LET expired == user[s].slot # None /\ Expired(user[s].slot) IN
        \/ ~expired /\ Answer(r, "done")
        \/ /\ expired
           /\ Enter(r, s, None, None)
           /\ Load(r, s)
           /\ Goto(r, "erase")
    /\ UNCHANGED <<user, now, mail>>

-----------------------------------------------------------------------------
(* An administrator sets or clears an address.                             *)

EditBegin(r) ==
    /\ pc[r] = "idle"
    /\ \E u \in Accounts, a \in Addresses \cup {None} :
        Enter(r, None, a, None) /\ Load(r, u)
    /\ Goto(r, "save")
    /\ UNCHANGED <<user, now, mail>>

(* Mutant: the whole document is written back, not the assigned fields.    *)
SlotAsRead(r) == copy[r].doc.slot

SlotAfterEdit(r) == user[copy[r].id].slot

EditSave(r) ==
    LET a == input[r].address IN
    /\ pc[r] = "save"
    /\ r \in Edits
    /\ \/ Conflicts(r, a) /\ Answer(r, "refused") /\ UNCHANGED user
       \/ /\ ~Conflicts(r, a)
          /\ SaveAddress(r, a, SlotAfterEdit(r))
          /\ Answer(r, "done")
    /\ UNCHANGED <<now, mail>>

-----------------------------------------------------------------------------
(* A save raises before it reaches the collection, and the request is      *)
(* answered 500.  (A save that raises after it was applied differs from a  *)
(* successful one in the answer only.)                                     *)
SaveFail(r) ==
    /\ pc[r] \in {"save", "erase", "consume"}
    /\ Answer(r, "error")
    /\ UNCHANGED <<user, now, mail>>

Tick ==
    /\ now < MaxTime
    /\ now' = now + 1
    /\ UNCHANGED <<user, mail, pc, input, copy>>

SendStep(r) == SendTaken(r) \/ SendMail(r) \/ SendMailFail(r) \/ SendSave(r)
VerifyStep(r) == Erase(r) \/ SignIn(r) \/ ChangeAddress(r)

Ended == {"refused", "error", "sent", "signed_in", "changed", "done"}

(* Every request has been answered and the clock stands at its bound.      *)
AllEnded ==
    /\ \A r \in Requests : pc[r] \in Ended
    /\ now = MaxTime
    /\ UNCHANGED vars

Next ==
    \/ \E r \in Sends : SendBegin(r) \/ SendStep(r) \/ SaveFail(r)
    \/ \E r \in Visits :
          VisitBegin(r) \/ VerifyBegin(r) \/ VerifyStep(r) \/ SaveFail(r)
    \/ \E r \in Edits : EditBegin(r) \/ EditSave(r) \/ SaveFail(r)
    \/ Tick
    \/ AllEnded

Spec == Init /\ [][Next]_vars

-----------------------------------------------------------------------------
(* Properties.                                                             *)

MailedTo(a, c) == [to |-> a, code |-> c] \in mail

(* Whoever is signed in by a code was mailed that code by an anonymous     *)
(* request at an address which was, when that request read the account,    *)
(* the account's own; whoever changes an address was mailed the code from  *)
(* a session of the same account.  The slot serves both purposes and may   *)
(* be overwritten or erased at any time by another request, so this is     *)
(* more than the comparison in auth.py:488-493 and :514-516.               *)
GrantedByMail ==
    \A v \in Visits :
        LET c == input[v].code IN
        /\ pc[v] = "signed_in" =>
              /\ c \in Sends
              /\ MailedTo(input[c].address, c)
              /\ input[c].session = None
              /\ copy[c].id = copy[v].id
              /\ copy[c].doc.email = input[c].address
        /\ pc[v] = "changed" =>
              /\ c \in Sends
              /\ MailedTo(input[c].address, c)
              /\ input[c].session = input[v].session

(* The address of an account changes only to what an administrator typed   *)
(* for it, or to one where a code went that was asked for in a session of  *)
(* the account (auth.py:494-496, admin_users.py:179).                      *)
ConfirmedAddress ==
    [][\A u \in Accounts :
          user'[u].email # user[u].email =>
              \/ \E r \in Edits :
                    /\ pc[r] = "save" /\ pc'[r] = "done"
                    /\ copy[r].id = u
                    /\ input[r].address = user'[u].email
              \/ \E c \in Sends :
                    /\ MailedTo(user'[u].email, c)
                    /\ input[c].session = u]_vars

(* A code that admitted somebody is in nobody's slot ever after, however   *)
(* the saves of stale documents fall (auth.py:495-496, :517-518).          *)
UsedCodesAreGone ==
    \A v \in Visits : \A u \in Accounts :
        pc[v] \in {"signed_in", "changed"} /\ user[u].slot # None
            => user[u].slot.code # input[v].code

(* A code that has been saved or refused, is in no slot, and is in the     *)
(* hands of no visit that read it while it still was.                      *)
Spent(c) ==
    /\ pc[c] \in Ended
    /\ \A u \in Accounts :
          user[u].slot = None \/ user[u].slot.code # c
    /\ \A v \in Visits : pc[v] = "consume" => input[v].code # c

(* A spent code never comes back: every save writes single fields, so no   *)
(* request puts an old code back into the slot with the stale document it  *)
(* works on (auth.py:465, admin_users.py:178-180, :202).                   *)
SpentForever == [][\A c \in Sends : Spent(c) => Spent(c)']_vars

Young(p, a) == p # None /\ p.email = a /\ now < p.issued + RESEND

(* A code for address a lies in the slot of u and is too young to be sent  *)
(* again, and no request that read the slot before it is about to mail     *)
(* another one there.                                                      *)
Quiet(u, a) ==
    /\ Young(user[u].slot, a)
    /\ \A r \in Sends :
          pc[r] \in {"taken", "mail"} /\ copy[r].id = u
                                     /\ input[r].address = a
              => pc[r] = "taken" /\ Young(copy[r].doc.slot, a)

(* The delay before another code is tested on a copy, so requests at once  *)
(* each send a mail.  Once those are through, an address is left alone     *)
(* until the delay is over or the slot is used for something else          *)
(* (auth.py:443-445).                                                      *)
ResendDelayed ==
    [][\A u \in Accounts, a \in Addresses :
          Quiet(u, a) =>
              \/ Quiet(u, a)'
              \/ now' # now
              \/ user'[u].slot # user[u].slot]_vars

(* A code that has not expired leaves the slot empty only when a visit     *)
(* used a code, or because a request that had read another, expired code   *)
(* erased this one in its place (auth.py:352-353, :487-488, :510-511).     *)
(* A request that has this very code before it erases it only to use it.   *)
FreshErasedOnlyByStale ==
    [][\A u \in Accounts :
          LET p == user[u].slot IN
          (p # None /\ now - p.issued <= TTL /\ user'[u].slot = None) =>
              \E r \in Visits :
                  /\ pc[r] \in {"erase", "consume"}
                  /\ pc'[r] # pc[r]
                  /\ copy[r].id = u
                  /\ pc[r] = "erase" => copy[r].doc.slot # p
                  /\ copy[r].doc.slot = p => input[r].code = p.code]_vars
=============================================================================
