----------------------------- MODULE TicketDesk -----------------------------
(***************************************************************************)
(* The three kinds of request that write to the ticket collection:         *)
(*   Desk     POST /redeem              service/actions/redeem.py          *)
(*   Partner  POST /api/ticket/redeem   service/api/ticket.py              *)
(*   Clerk    POST /issue               service/actions/issue.py           *)
(* Every WSGI thread runs one request.  A request is a sequence of round   *)
(* trips to MongoDB, each atomic on one document and none in a             *)
(* transaction, so the requests interleave between any two of them, and a  *)
(* round trip may fail with or without its effect.                         *)
(*                                                                         *)
(* A member of Desk, Partner or Clerk is one request, used once.  The user *)
(* collection is not a variable: what a request reads from it (its viewer, *)
(* the recipient, the account mapped to a partner's identifier) is any     *)
(* answer that read can give.  A request's identity stands for the time    *)
(* and the reason it records in a redemption.                              *)
(***************************************************************************)
EXTENDS Naturals, Sequences, FiniteSets

CONSTANTS
    Desk, Partner, Clerk,   \* the requests of each kind
    Users,                  \* ids of registered accounts
    Names,                  \* display names of recipients without an account
    Codes,                  \* what generate_code can return
    FormCodes,              \* the code lists a redeem form can carry
    TicketIds,              \* the primary keys that can be handed out
    MAX_TICKETS,            \* most tickets one issue request may ask for
    MAX_CODE_ATTEMPTS,      \* code collisions an issue request tolerates
    None                    \* an absent document or field

Requests == Desk \cup Partner \cup Clerk

-----------------------------------------------------------------------------
(* Data.  UserRef is reduced to the id of an account, or to a name.        *)

Owners == Users \cup Names

Redemption == [by : Users \cup {None}, req : Desk \cup Partner]

(* A ticket document: what it was issued with, and its redemption.         *)
IssueData == [code : Codes, issued_to : Owners, issued_by : Users]

Ticket == [code : Codes, issued_to : Owners, issued_by : Users,
           redeemed : Redemption \cup {None}]

Viewers == [id : Users, admin : BOOLEAN]

DeskForms == [codes : FormCodes, by : Viewers \cup {None}]
PartnerForms == [code : Codes \cup {None}]
ClerkForms == [to : Owners \cup {None}, count : 0..(MAX_TICKETS + 1),
               by : Users \cup {None}]

Outcomes == {"not found", "not permitted", "already redeemed", "redeemed OK"}
Entries == [code : Codes, result : Outcomes]

ASSUME KindsAssumption ==
    /\ Desk \cap Partner = {}
    /\ Desk \cap Clerk = {}
    /\ Partner \cap Clerk = {}

ASSUME NoneAssumption ==
    /\ None \notin Requests
    /\ None \notin Users
    /\ None \notin Names
    /\ None \notin Codes
    /\ None \notin TicketIds
    /\ None \notin Viewers
    /\ None \notin Redemption
    /\ None \notin IssueData
    /\ None \notin Ticket

ASSUME OwnersAssumption == Users \cap Names = {}

ASSUME FormCodesAssumption == FormCodes \subseteq Seq(Codes)

ASSUME LimitsAssumption ==
    /\ MAX_TICKETS \in Nat
    /\ MAX_CODE_ATTEMPTS \in Nat \ {0}

-----------------------------------------------------------------------------
VARIABLES
    ticket,     \* the ticket collection
    pc,         \* where each request is, or how it was answered
    form,       \* what each request was sent, and by whom
    loaded,     \* the ticket a Desk or Partner request last read
    results,    \* per Desk request, the report it is building
    bearer,     \* per Partner request, the account it found
    issued      \* per Clerk request, the tickets it has saved and its attempts

vars == <<ticket, pc, form, loaded, results, bearer, issued>>

Working == {"find", "save", "user", "modify", "insert"}
Ended == {"answered", "created", "conflict", "not_found", "issued",
          "bad_request", "forbidden", "error"}

Stored == {t \in TicketIds : ticket[t] # None}
WithCode(c) == {t \in Stored : ticket[t].code = c}

Goto(r, where) == pc' = [pc EXCEPT ![r] = where]

Record(t, x) == ticket' = [ticket EXCEPT ![t].redeemed = x]

Init ==
    /\ ticket = [t \in TicketIds |-> None]
    /\ pc = [r \in Requests |-> "idle"]
    /\ form = [r \in Requests |-> None]
    /\ loaded = [r \in Desk \cup Partner |-> None]
    /\ results = [r \in Desk |-> <<>>]
    /\ bearer = [r \in Partner |-> None]
    /\ issued = [r \in Clerk |-> [tickets |-> {}, attempts |-> 0]]

-----------------------------------------------------------------------------
(* Desk: the web form, one loop iteration per code.                        *)

DeskBegin(r) ==
    /\ pc[r] = "idle"
    /\ \E f \in DeskForms :
        /\ form' = [form EXCEPT ![r] = f]
        /\ Goto(r, IF f.codes = <<>> THEN "bad_request" ELSE "find")
    /\ UNCHANGED <<ticket, loaded, results, bearer, issued>>

CurrentCode(r) == form[r].codes[Len(results[r]) + 1]

(* Mutant: a signed-in account redeems anyone's tickets.                   *)
PermittedToAnyone(r, t) == form[r].by # None

(* An administrator redeems any ticket, anyone else only a ticket issued   *)
(* to that account.                                                        *)
Permitted(r, t) ==
    /\ form[r].by # None
    /\ form[r].by.admin \/ ticket[t].issued_to = form[r].by.id

(* Report the outcome for the current code and go on to the next one.      *)
Report(r, outcome) ==
    /\ results' = [results EXCEPT ![r] =
                     Append(@, [code |-> CurrentCode(r), result |-> outcome])]
    /\ Goto(r, IF Len(results[r]) + 1 = Len(form[r].codes)
                 THEN "answered" ELSE "find")

(* Mutant: the loaded ticket's redemption is not looked at.                *)
DeskFindUnchecked(r) ==
    /\ pc[r] = "find"
    /\ \/ /\ WithCode(CurrentCode(r)) = {}
          /\ loaded' = [loaded EXCEPT ![r] = None]
          /\ Report(r, "not found")
       \/ \E t \in WithCode(CurrentCode(r)) :
            /\ loaded' = [loaded EXCEPT ![r] = t]
            /\ \/ /\ ~Permitted(r, t)
                  /\ Report(r, "not permitted")
               \/ /\ Permitted(r, t)
                  /\ Goto(r, "save")
                  /\ UNCHANGED results
    /\ UNCHANGED <<ticket, form, bearer, issued>>

DeskFind(r) ==
    /\ pc[r] = "find"
    /\ \/ /\ WithCode(CurrentCode(r)) = {}
          /\ loaded' = [loaded EXCEPT ![r] = None]
          /\ Report(r, "not found")
       \/ \E t \in WithCode(CurrentCode(r)) :
            /\ loaded' = [loaded EXCEPT ![r] = t]
            /\ \/ /\ ~Permitted(r, t)
                  /\ Report(r, "not permitted")
               \/ /\ Permitted(r, t)
                  /\ ticket[t].redeemed # None
                  /\ Report(r, "already redeemed")
               \/ /\ Permitted(r, t)
                  /\ ticket[t].redeemed = None
                  /\ Goto(r, "save")
                  /\ UNCHANGED results
    /\ UNCHANGED <<ticket, form, bearer, issued>>

DeskRedemption(r) == [by |-> form[r].by.id, req |-> r]

(* Mutant: the success is reported and the document never saved.           *)
DeskSaveForgotten(r) ==
    /\ pc[r] = "save"
    /\ Report(r, "redeemed OK")
    /\ UNCHANGED <<ticket, form, loaded, bearer, issued>>

(* Ticket.save() sends the changed field only, and sends it whatever the   *)
(* stored document holds by now.                                           *)
DeskSave(r) ==
    /\ pc[r] = "save"
    /\ Record(loaded[r], DeskRedemption(r))
    /\ Report(r, "redeemed OK")
    /\ UNCHANGED <<form, loaded, bearer, issued>>

(* Mutant: the exception is swallowed and the page rendered.               *)
DeskFailSwallowed(r) ==
    /\ pc[r] \in {"find", "save"}
    /\ Goto(r, "answered")
    /\ \/ UNCHANGED ticket
       \/ pc[r] = "save" /\ Record(loaded[r], DeskRedemption(r))
    /\ UNCHANGED <<form, loaded, results, bearer, issued>>

(* A round trip raises; a failed save may have reached the collection.     *)
DeskFail(r) ==
    /\ pc[r] \in {"find", "save"}
    /\ Goto(r, "error")
    /\ \/ UNCHANGED ticket
       \/ pc[r] = "save" /\ Record(loaded[r], DeskRedemption(r))
    /\ UNCHANGED <<form, loaded, results, bearer, issued>>

-----------------------------------------------------------------------------
(* Partner: the API call, one code.  A form without a code stands for a    *)
(* payload that _payload or redeem_ticket rejects with ValueError.         *)

PartnerBegin(r) ==
    /\ pc[r] = "idle"
    /\ \E f \in PartnerForms :
        /\ form' = [form EXCEPT ![r] = f]
        /\ Goto(r, IF f.code = None THEN "bad_request" ELSE "find")
    /\ UNCHANGED <<ticket, loaded, results, bearer, issued>>

PartnerFind(r) ==
    /\ pc[r] = "find"
    /\ \/ /\ WithCode(form[r].code) = {}
          /\ Goto(r, "not_found")
          /\ UNCHANGED loaded
       \/ \E t \in WithCode(form[r].code) :
            /\ loaded' = [loaded EXCEPT ![r] = t]
            /\ Goto(r, "user")
    /\ UNCHANGED <<ticket, form, results, bearer, issued>>

PartnerUser(r) ==
    /\ pc[r] = "user"
    /\ \E u \in Users \cup {None} : bearer' = [bearer EXCEPT ![r] = u]
    /\ Goto(r, "modify")
    /\ UNCHANGED <<ticket, form, loaded, results, issued>>

PartnerRedemption(r) == [by |-> bearer[r], req |-> r]

(* Mutant: the update no longer asks for redeemed = None.                  *)
PartnerModifyBlind(r) ==
    /\ pc[r] = "modify"
    /\ Record(loaded[r], PartnerRedemption(r))
    /\ Goto(r, "created")
    /\ UNCHANGED <<form, loaded, results, bearer, issued>>

(* findAndModify with redeemed = None in the query: test and set at once.  *)
PartnerModify(r) ==
    /\ pc[r] = "modify"
    /\ \/ /\ ticket[loaded[r]].redeemed = None
          /\ Record(loaded[r], PartnerRedemption(r))
          /\ Goto(r, "created")
       \/ /\ ticket[loaded[r]].redeemed # None
          /\ Goto(r, "conflict")
          /\ UNCHANGED ticket
    /\ UNCHANGED <<form, loaded, results, bearer, issued>>

PartnerFail(r) ==
    /\ pc[r] \in {"find", "user", "modify"}
    /\ Goto(r, "error")
    /\ \/ UNCHANGED ticket
       \/ /\ pc[r] = "modify"
          /\ ticket[loaded[r]].redeemed = None
          /\ Record(loaded[r], PartnerRedemption(r))
    /\ UNCHANGED <<form, loaded, results, bearer, issued>>

-----------------------------------------------------------------------------
(* Clerk: issue form.count tickets to one owner, one insert per attempt.   *)
(* A form without a recipient stands for every form the checks on to_id,   *)
(* to_display_name, payment and purpose refuse.  form.by is the viewer     *)
(* _current_user_ref returns after _require_admin let the request in.      *)

ClerkVerdict(f, recipientExists) ==
    CASE f.to = None                             -> "bad_request"
      [] f.to # None /\ f.by = None              -> "forbidden"
      [] /\ f.to # None
         /\ f.by # None
         /\ f.count \notin 1..MAX_TICKETS        -> "bad_request"
      [] /\ f.to # None
         /\ f.by # None
         /\ f.count \in 1..MAX_TICKETS
         /\ f.to \in Users /\ ~recipientExists   -> "bad_request"
      [] OTHER                                   -> "insert"

ClerkBegin(r) ==
    /\ pc[r] = "idle"
    /\ \E f \in ClerkForms, recipientExists \in BOOLEAN :
        /\ form' = [form EXCEPT ![r] = f]
        /\ Goto(r, ClerkVerdict(f, recipientExists))
    /\ UNCHANGED <<ticket, loaded, results, bearer, issued>>

NewTicket(r, c) == [code |-> c, issued_to |-> form[r].to,
                    issued_by |-> form[r].by, redeemed |-> None]

(* Mutant: the collection has no unique index on the code.                 *)
InsertNoIndex(r, t, c) ==
    /\ t \notin Stored
    /\ ticket' = [ticket EXCEPT ![t] = NewTicket(r, c)]

Insert(r, t, c) ==
    /\ t \notin Stored
    /\ WithCode(c) = {}
    /\ ticket' = [ticket EXCEPT ![t] = NewTicket(r, c)]

ClerkInsert(r) ==
    /\ pc[r] = "insert"
    /\ \E t \in TicketIds, c \in Codes :
        /\ Insert(r, t, c)
        /\ issued' = [issued EXCEPT ![r] =
                        [tickets |-> @.tickets \cup {t}, attempts |-> 0]]
    /\ Goto(r, IF Cardinality(issued'[r].tickets) = form[r].count
                 THEN "issued" ELSE "insert")
    /\ UNCHANGED <<form, loaded, results, bearer>>

(* Mutant: one attempt too many.                                           *)
ClerkCollisionLate(r) ==
    /\ pc[r] = "insert"
    /\ \E c \in Codes : WithCode(c) # {}
    /\ issued' = [issued EXCEPT ![r].attempts = @ + 1]
    /\ Goto(r, IF issued'[r].attempts > MAX_CODE_ATTEMPTS
                 THEN "error" ELSE "insert")
    /\ UNCHANGED <<ticket, form, loaded, results, bearer>>

(* Mutant: without the for-else, the request is answered short of tickets. *)
ClerkCollisionShort(r) ==
    /\ pc[r] = "insert"
    /\ \E c \in Codes : WithCode(c) # {}
    /\ issued' = [issued EXCEPT ![r].attempts = @ + 1]
    /\ Goto(r, IF issued'[r].attempts = MAX_CODE_ATTEMPTS
                 THEN "issued" ELSE "insert")
    /\ UNCHANGED <<ticket, form, loaded, results, bearer>>

(* Mutant: "while True" in place of the bounded loop.                      *)
ClerkCollisionForever(r) ==
    /\ pc[r] = "insert"
    /\ \E c \in Codes : WithCode(c) # {}
    /\ issued' = [issued EXCEPT ![r].attempts = (@ + 1) % MAX_CODE_ATTEMPTS]
    /\ UNCHANGED <<ticket, pc, form, loaded, results, bearer>>

(* The unique index on the code refuses the insert: another attempt, and   *)
(* RuntimeError after MAX_CODE_ATTEMPTS of them.                           *)
ClerkCollision(r) ==
    /\ pc[r] = "insert"
    /\ \E c \in Codes : WithCode(c) # {}
    /\ issued' = [issued EXCEPT ![r].attempts = @ + 1]
    /\ Goto(r, IF issued'[r].attempts = MAX_CODE_ATTEMPTS
                 THEN "error" ELSE "insert")
    /\ UNCHANGED <<ticket, form, loaded, results, bearer>>

ClerkFail(r) ==
    /\ pc[r] = "insert"
    /\ Goto(r, "error")
    /\ \/ UNCHANGED ticket
       \/ \E t \in TicketIds, c \in Codes : Insert(r, t, c)
    /\ UNCHANGED <<form, loaded, results, bearer, issued>>

-----------------------------------------------------------------------------
DeskStep(r) == DeskFind(r) \/ DeskSave(r)
PartnerStep(r) == PartnerFind(r) \/ PartnerUser(r) \/ PartnerModify(r)
ClerkStep(r) == ClerkInsert(r) \/ ClerkCollision(r)

(* Every request has been answered: nothing more to do.                    *)
AllEnded == (\A r \in Requests : pc[r] \in Ended) /\ UNCHANGED vars

Next ==
    \/ \E r \in Desk : DeskBegin(r) \/ DeskStep(r) \/ DeskFail(r)
    \/ \E r \in Partner : PartnerBegin(r) \/ PartnerStep(r) \/ PartnerFail(r)
    \/ \E r \in Clerk : ClerkBegin(r) \/ ClerkStep(r) \/ ClerkFail(r)
    \/ AllEnded

Spec == Init /\ [][Next]_vars

(* A thread that has begun a request goes on with it: nothing in the three *)
(* handlers waits for another request.  Nobody has to send a request.      *)
Fairness ==
    /\ \A r \in Desk : WF_vars(DeskStep(r))
    /\ \A r \in Partner : WF_vars(PartnerStep(r))
    /\ \A r \in Clerk : WF_vars(ClerkStep(r))

FairSpec == Spec /\ Fairness

-----------------------------------------------------------------------------
(* Properties.                                                             *)

TypeOK ==
    /\ ticket \in [TicketIds -> Ticket \cup {None}]
    /\ pc \in [Requests -> {"idle"} \cup Working \cup Ended]
    /\ form \in [Requests ->
                   DeskForms \cup PartnerForms \cup ClerkForms \cup {None}]
    /\ \A r \in Desk : form[r] \in DeskForms \cup {None}
    /\ \A r \in Partner : form[r] \in PartnerForms \cup {None}
    /\ \A r \in Clerk : form[r] \in ClerkForms \cup {None}
    /\ loaded \in [Desk \cup Partner -> TicketIds \cup {None}]
    /\ results \in [Desk -> Seq(Entries)]
    /\ bearer \in [Partner -> Users \cup {None}]
    /\ issued \in [Clerk -> [tickets : SUBSET TicketIds,
                             attempts : 0..MAX_CODE_ATTEMPTS]]

Redeemed(t) == t \in Stored /\ ticket[t].redeemed # None

(* The outcomes Desk request r has noted for the code c, and those that    *)
(* its answer lists: the page is rendered after the last code, a request   *)
(* that fails before answers 500 and lists none (redeem.py:40).            *)
Noted(r, c) == {results[r][i].result :
                  i \in {j \in 1..Len(results[r]) : results[r][j].code = c}}

Told(r, c) == IF pc[r] = "answered" THEN Noted(r, c) ELSE {}

(* No two tickets ever share a code, though every clerk draws codes at     *)
(* random and only the unique index compares them (issue.py:120-123).      *)
CodesUnique ==
    \A t, u \in Stored : ticket[t].code = ticket[u].code => t = u

(* A ticket is redeemed through the API at most once: of all the calls for *)
(* one ticket, however they interleave with each other and with the web    *)
(* form, one at most is answered 201 (ticket.py:33, README.md:57-60).      *)
ApiRedeemedOnce ==
    \A r, s \in Partner :
        /\ pc[r] = "created"
        /\ pc[s] = "created"
        /\ loaded[r] = loaded[s]
        => r = s

(* What an answer says of a ticket is true when it is given and after: a   *)
(* code noted as "redeemed OK" or "already redeemed", a call answered 201  *)
(* or 409, all name a ticket that is redeemed now.                         *)
AnswersStayTrue ==
    /\ \A r \in Desk : \A c \in Codes :
        Noted(r, c) \cap {"redeemed OK", "already redeemed"} # {}
            => \E t \in WithCode(c) : Redeemed(t)
    /\ \A r \in Partner :
        pc[r] \in {"created", "conflict"}
            => Redeemed(loaded[r]) /\ ticket[loaded[r]].code = form[r].code

(* Whoever redeems at the desk without being an administrator redeems      *)
(* tickets issued to that very account: the permission tested on the copy  *)
(* read by redeem.py:18 still holds of the document saved at redeem.py:37. *)
OwnTicketsOnly ==
    \A t \in Stored :
        (Redeemed(t) /\ ticket[t].redeemed.req \in Desk) =>
            LET by == form[ticket[t].redeemed.req].by IN
            /\ by # None
            /\ ticket[t].redeemed.by = by.id
            /\ by.admin \/ ticket[t].issued_to = by.id

(* The answer to a request lists every ticket it redeemed as redeemed.  A  *)
(* request that fails lists none, though it may have redeemed some: those  *)
(* of codes it had come to and noted as redeemed, and perhaps the one      *)
(* whose save raised, never one of a code after it (redeem.py:17-40).      *)
RecordedIsReported ==
    \A t \in Stored :
        (Redeemed(t) /\ ticket[t].redeemed.req \in Desk) =>
            LET r == ticket[t].redeemed.req
                c == ticket[t].code
            IN  \/ "redeemed OK" \in Told(r, c)
                \/ /\ pc[r] \in {"find", "save", "error"}
                   /\ \/ "redeemed OK" \in Noted(r, c)
                      \/ pc[r] = "error" /\ c = CurrentCode(r)

(* A code typed twice into one form is redeemed once: after "redeemed OK"  *)
(* the same request reports "already redeemed" (redeem.py:27).             *)
OncePerRequest ==
    \A r \in Desk : \A i, j \in 1..Len(results[r]) :
        /\ i < j
        /\ results[r][i].code = results[r][j].code
        /\ results[r][i].result = "redeemed OK"
        => results[r][j].result = "already redeemed"

(* A redeemed ticket that no Desk request read while it was unredeemed and *)
(* has yet to save.                                                        *)
Settled(t) ==
    /\ Redeemed(t)
    /\ \A r \in Desk : ~(pc[r] = "save" /\ loaded[r] = t)

(* The window between redeem.py:18 and :37 is the only one in which a      *)
(* redemption can be overwritten: once it has closed over a ticket, the    *)
(* document never changes again and the window never reopens.              *)
SettledForever ==
    [][\A t \in TicketIds :
          Settled(t) => Settled(t)' /\ ticket'[t] = ticket[t]]_vars

(* The issue requests that failed: their answer names no ticket, whatever  *)
(* they had stored by then (issue.py:121, :127).                           *)
Failed == {r \in Clerk : pc[r] = "error"}

(* The tickets that no answer names or will name, and, one by one, those   *)
(* that the failed requests were asked for.                                *)
Untold == Stored \ UNION {issued[r].tickets : r \in Clerk \ Failed}
AskedInVain == {x \in Failed \X (1..MAX_TICKETS) : x[2] <= form[x[1]].count}

(* An issue request answered 200 has stored exactly the number of tickets  *)
(* asked for, all to the recipient of the form and by its sender, and none *)
(* of them is the work of another request.  Tickets that no answer names   *)
(* are left by failed requests only, and by these no more than they were   *)
(* asked for: those stored before the failure, and the one whose insert    *)
(* raised after it was applied (issue.py:110-129).                         *)
IssuedInFull ==
    /\ \A r \in Clerk :
        /\ pc[r] = "issued" =>
              Cardinality(issued[r].tickets) = form[r].count
        /\ issued[r].tickets \subseteq Stored
        /\ \A t \in issued[r].tickets :
              /\ ticket[t].issued_to = form[r].to
              /\ ticket[t].issued_by = form[r].by
        /\ \A s \in Clerk \ {r} :
              issued[r].tickets \cap issued[s].tickets = {}
    /\ Cardinality(Untold) <= Cardinality(AskedInVain)

(* A request that has begun is answered, whatever the others do: no code   *)
(* path waits for another request, and the collision loop is bounded.      *)
EveryRequestEnds ==
    \A r \in Requests : pc[r] \in Working ~> pc[r] \in Ended

(* The collection implements the ledger: only the web form can record a    *)
(* redemption over another one.                                            *)
IssuePart(t) ==
    IF t \in Stored
      THEN [code |-> ticket[t].code, issued_to |-> ticket[t].issued_to,
            issued_by |-> ticket[t].issued_by]
      ELSE None

Ledger == INSTANCE TicketLedger WITH
    Issues <- IssueData,
    Redemptions <- Redemption,
    Rerecorders <- {x \in Redemption : x.req \in Desk},
    issue <- [t \in TicketIds |-> IssuePart(t)],
    redemption <- [t \in TicketIds |->
                     IF t \in Stored THEN ticket[t].redeemed ELSE None]

LedgerSpec == Ledger!Spec

(* What the tests expect of the page: a ticket is reported "redeemed OK"   *)
(* or answered 201 once, and "already redeemed" to everyone else           *)
(* (tests/test_service.py:307-345).                                        *)
GrantedTo(t) ==
    {r \in Desk : "redeemed OK" \in Told(r, ticket[t].code)}
    \cup {r \in Partner : pc[r] = "created" /\ loaded[r] = t}

RedeemedAtMostOnce == \A t \in Stored : Cardinality(GrantedTo(t)) <= 1
=============================================================================
