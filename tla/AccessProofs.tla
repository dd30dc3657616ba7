---------------------------- MODULE AccessProofs ----------------------------
(***************************************************************************)
(* Proofs about Access, for any number of requests, cookies, keys and      *)
(* accounts: the handlers behind the guards are TicketDesk's, what a       *)
(* request does is what its session could do on the way, who has lost the  *)
(* role stays out, roles and names change only as asked for, and a search  *)
(* lists everybody it should, once.                                        *)
(***************************************************************************)
EXTENDS Access, FiniteSetTheorems, TLAPS

Steps == {"idle", "auth", "role", "viewer", "profile", "handler", "page",
          "edit", "save", "rename", "search", "search on", "refused",
          "shown", "saved", "listed"}

(* Where a request that goes on to a handler of TicketDesk can be.         *)
HandlerSteps == {"idle", "auth", "role", "viewer", "handler", "refused"}

DeskPositions ==
    {"idle", "find", "save", "answered", "bad_request", "error"}
ClerkPositions ==
    {"idle", "insert", "issued", "bad_request", "forbidden", "error"}

DeskTyped ==
    /\ ticket \in [TicketIds -> TheDesk!Ticket \cup {None}]
    /\ pc \in [Desk \cup Clerk -> DeskPositions \cup ClerkPositions]
    /\ form \in [Desk \cup Clerk ->
                   TheDesk!DeskForms \cup TheDesk!ClerkForms \cup {None}]
    /\ loaded \in [Desk -> TicketIds \cup {None}]

AccountsTyped ==
    /\ user \in [Users -> Account]
    /\ holder \in [Keys -> Users \cup {None}]
    /\ live \subseteq Sessions

RequestsTyped ==
    /\ step \in [Requests -> Steps]
    /\ cookie \in [Requests -> Sessions \cup {None}]
    /\ held = [r \in Pages |-> held[r]]
    /\ shown \in [Pages -> SUBSET TicketIds]
    /\ seen \in [Requests -> SUBSET TheDesk!Viewers]

Typed == DeskTyped /\ AccountsTyped /\ RequestsTyped

(* What is known of each request where it is.                              *)
DeskAt(r) ==
    /\ pc[r] \in DeskPositions /\ step[r] \in HandlerSteps
    /\ pc[r] # "idle" =>
          /\ step[r] = "handler"
          /\ form[r] \in TheDesk!DeskForms
          /\ form[r].by # None => form[r].by \in seen[r]
    /\ pc[r] = "save" =>
          /\ loaded[r] \in TicketIds /\ Issued(loaded[r])
          /\ TheDesk!Permitted(r, loaded[r])

ClerkAt(r) ==
    /\ pc[r] \in ClerkPositions /\ step[r] \in HandlerSteps
    /\ step[r] = "viewer" => SawAdmin(r)
    /\ pc[r] # "idle" => step[r] = "handler"
    /\ pc[r] = "insert" =>
          /\ form[r] \in TheDesk!ClerkForms
          /\ form[r].to # None /\ form[r].by # None
          /\ SawAdmin(r)
          /\ \E v \in seen[r] : v.id = form[r].by

PageAt(r) ==
    /\ step[r] # "handler"
    /\ step[r] \in {"edit", "save"} => SawAdmin(r)
    /\ step[r] = "page" => held[r] \in seen[r]
    /\ step[r] \in {"save", "rename"} => held[r] \in Changes
    /\ step[r] = "rename" =>
          /\ held[r].new.admin = held[r].read.admin
          /\ \E v \in seen[r] : v.id = held[r].id
    /\ step[r] = "search on" =>
          /\ held[r] \in [Users -> {0, 1}]
          /\ Cardinality(Listed(r)) < LIMIT
    /\ step[r] # "shown" => shown[r] = {}
    /\ \A t \in shown[r] : Issued(t) /\ SawEntitled(r, t)

(* What is known of each ticket: who issued it, and who redeemed it.       *)
IssuedWell(t) ==
    \E r \in Clerk :
        /\ step[r] = "handler"
        /\ SawAdmin(r)
        /\ \E v \in seen[r] : v.id = ticket[t].issued_by

RedeemedWell(t) ==
    ticket[t].redeemed # None =>
        /\ ticket[t].redeemed.req \in Desk
        /\ step[ticket[t].redeemed.req] = "handler"
        /\ \E v \in seen[ticket[t].redeemed.req] :
              /\ v.id = ticket[t].redeemed.by
              /\ v.admin \/ ticket[t].issued_to = v.id

AccessInv ==
    /\ Typed
    /\ \A r \in Desk : DeskAt(r)
    /\ \A r \in Clerk : ClerkAt(r)
    /\ \A r \in Pages : PageAt(r)
    /\ \A t \in TicketIds : Issued(t) => IssuedWell(t) /\ RedeemedWell(t)

-----------------------------------------------------------------------------
(* The constants.                                                          *)

(* The kinds of request are disjoint, and a None is told from a viewer, an *)
(* account and a cookie.                                                   *)
LEMMA Constants ==
    /\ Desk \cap Clerk = {} /\ Pages \cap (Desk \cup Clerk) = {}
    /\ Searches \subseteq Pages
    /\ Requests = Desk \cup Clerk \cup Pages
    /\ TheDesk!Requests = Desk \cup Clerk
    /\ None \notin Users /\ None \notin TheDesk!Viewers
    /\ None \notin Sessions /\ None \notin Keys
    /\ None \notin TheDesk!Ticket
    /\ Users \cap Keys = {} /\ names \in [Sessions -> Keys \cup Users]
  BY AccessAssumption, DeskAssumption DEF Requests, TheDesk!Requests

(* TicketDesk's assumptions hold of the constants it is given here.        *)
LEMMA DeskConstants ==
    /\ TheDesk!KindsAssumption /\ TheDesk!NoneAssumption
    /\ TheDesk!OwnersAssumption /\ TheDesk!FormCodesAssumption
    /\ TheDesk!LimitsAssumption
  BY AccessAssumption, DeskAssumption
  DEF Requests, TheDesk!Requests, TheDesk!KindsAssumption,
      TheDesk!NoneAssumption, TheDesk!OwnersAssumption,
      TheDesk!FormCodesAssumption, TheDesk!LimitsAssumption

-----------------------------------------------------------------------------
(* The desk behind the guards.                                             *)

(* Every step does to the tickets what a step of TicketDesk does, or       *)
(* leaves them alone.                                                      *)
LEMMA DeskNext == [Next]_vars => [TheDesk!Next]_(TheDesk!vars)
  <1> SUFFICES ASSUME [Next]_vars
               PROVE  TheDesk!Next \/ UNCHANGED TheDesk!vars
    OBVIOUS
  <1>1. UNCHANGED desk => UNCHANGED TheDesk!vars
    BY DEF desk, TheDesk!vars
  <1>2. ASSUME NEW r \in Requests, Begin(r) \/ require_auth(r)
                                     \/ require_role(r)
        PROVE  UNCHANGED desk
    BY <1>2 DEF Begin, require_auth, require_role
  <1>3. ASSUME NEW r \in Desk \cup Clerk, Handle(r)
        PROVE  TheDesk!Next \/ UNCHANGED desk
    BY <1>3 DEF Handle, TheDesk!Next
  <1>4. ASSUME NEW r \in Desk \cup Clerk, DeskWork(r)
        PROVE  TheDesk!Next
    BY <1>4 DEF DeskWork, TheDesk!Next
  <1>5. ASSUME NEW r \in Pages,
               \/ ViewerRead(r) \/ Page(r) \/ EditRead(r) \/ ProfileRead(r)
               \/ Save(r) \/ SaveFail(r) \/ SearchPrefix(r) \/ SearchOn(r)
        PROVE  UNCHANGED desk
    BY <1>5 DEF ViewerRead, Page, EditRead, ProfileRead, Save, SaveFail,
                SearchPrefix, SearchOn
  <1>6. ASSUME \/ \E c \in Sessions : Expire(c)
               \/ \E k \in Keys : KeyChange(k)
        PROVE  UNCHANGED desk
    BY <1>6 DEF Expire, KeyChange
  <1>7. CASE UNCHANGED vars
    BY <1>1, <1>7 DEF vars
  <1> QED
    BY <1>1, <1>2, <1>3, <1>4, <1>5, <1>6, <1>7 DEF Next

(* What the guards let through is what TicketDesk says of its handlers:    *)
(* whatever is proved of TicketDesk holds of the tickets here.             *)
THEOREM RunsTheDesk == Spec => TheDesk!Spec
  <1>1. Init => TheDesk!Init
    BY DEF Init
  <1> QED
    BY <1>1, DeskNext, PTL DEF Spec, TheDesk!Spec

-----------------------------------------------------------------------------
(* What the session says.                                                  *)

(* The account a request is told it acts for is one its cookie stands for, *)
(* and the only one.                                                       *)
LEMMA SessionUser ==
    ASSUME AccountsTyped, NEW c \in Sessions \cup {None}
    PROVE  /\ _session_user(c) # None => /\ _session_user(c) \in Users
                                         /\ _session_user(c) \in StandsFor(c)
           /\ \A u \in StandsFor(c) : u = _session_user(c)
  <1>1. CASE c \in live
    <2>1. c \in Sessions /\ names[c] \in Keys \cup Users
      BY <1>1, Constants DEF AccountsTyped
    <2>2. CASE names[c] \in Users
      <3>1. _session_user(c) = names[c]
        BY <1>1, <2>2 DEF _session_user, Fresh
      <3> QED
        BY <1>1, <2>2, <3>1, Constants DEF StandsFor
    <2>3. CASE names[c] \notin Users
      <3>1. _session_user(c) = holder[names[c]] /\ names[c] \in Keys
        BY <1>1, <2>1, <2>3 DEF _session_user, Fresh
      <3>2. holder[names[c]] \in Users \cup {None}
        BY <3>1 DEF AccountsTyped
      <3> QED
        BY <1>1, <2>3, <3>1, <3>2 DEF StandsFor
    <2> QED
      BY <2>2, <2>3
  <1>2. CASE c \notin live
    BY <1>2 DEF _session_user, Fresh, StandsFor
  <1> QED
    BY <1>1, <1>2

(* So is the viewer it is given, with the role the account then has.       *)
LEMMA ViewerIs ==
    ASSUME AccountsTyped, NEW c \in Sessions \cup {None},
           current_user_ref(c) # None
    PROVE  /\ current_user_ref(c) \in TheDesk!Viewers
           /\ current_user_ref(c) \in {Viewer(u) : u \in StandsFor(c)}
           /\ \E u \in StandsFor(c) :
                 /\ current_user_ref(c).id = u
                 /\ current_user_ref(c).admin = user[u].admin
  <1>1. PICK u \in StandsFor(c) :
            u = _session_user(c) /\ current_user_ref(c) = Viewer(u)
    BY SessionUser DEF current_user_ref
  <1>2. u \in Users
    BY DEF StandsFor
  <1>3. user[u].admin \in BOOLEAN
    BY <1>2 DEF AccountsTyped, Account
  <1> QED
    BY <1>1, <1>2, <1>3 DEF Viewer, TheDesk!Viewers

(* What a request has seen grows, until it ends without having done        *)
(* anything or after a save.                                               *)
Forgets == {"refused", "saved"}

LEMMA SeenMoves ==
    ASSUME Observe, NEW r \in Requests
    PROVE  /\ step'[r] \in Forgets => seen'[r] = {}
           /\ step'[r] \notin Forgets => seen[r] \subseteq seen'[r]
           /\ step'[r] = step[r] /\ step[r] \notin Forgets =>
                 seen'[r] = seen[r]
           /\ step[r] \in {"auth", "role", "viewer", "profile"}
              /\ step'[r] \notin Forgets \cup {step[r]} =>
                 seen'[r] =
                   seen[r] \cup {Viewer(u) : u \in StandsFor(cookie[r])}
           /\ step[r] \notin {"auth", "role", "viewer", "profile"}
              /\ step'[r] \notin Forgets => seen'[r] = seen[r]
  <1>1. seen'[r] =
          CASE step'[r] \in {"refused", "saved"} -> {}
            [] /\ step[r] \in {"auth", "role", "viewer", "profile"}
               /\ step'[r] \notin {step[r], "refused", "saved"} ->
                 seen[r] \cup {Viewer(u) : u \in StandsFor(cookie[r])}
            [] OTHER -> seen[r]
    BY DEF Observe
  <1>2. step'[r] \in {"refused", "saved"} => seen'[r] = {}
    BY <1>1
  <1>3. /\ step[r] \in {"auth", "role", "viewer", "profile"}
        /\ step'[r] \notin {step[r], "refused", "saved"}
        => seen'[r] = seen[r] \cup {Viewer(u) : u \in StandsFor(cookie[r])}
    BY <1>1
  <1>4. /\ step'[r] \notin {"refused", "saved"}
        /\ \/ step[r] \notin {"auth", "role", "viewer", "profile"}
           \/ step'[r] = step[r]
        => seen'[r] = seen[r]
    BY <1>1
  <1> QED
    BY <1>2, <1>3, <1>4 DEF Forgets

-----------------------------------------------------------------------------
(* Who moves.                                                              *)

RequestMoves(r) ==
    \/ Begin(r) \/ require_auth(r) \/ require_role(r)
    \/ r \in Desk \cup Clerk /\ (Handle(r) \/ DeskWork(r))
    \/ /\ r \in Pages
       /\ \/ ViewerRead(r) \/ Page(r) \/ EditRead(r) \/ ProfileRead(r)
          \/ Save(r) \/ SaveFail(r) \/ SearchPrefix(r) \/ SearchOn(r)

(* A cookie turns too old, or a key changes hands.                         *)
Meanwhile ==
    \/ \E c \in Sessions : Expire(c)
    \/ \E k \in Keys : KeyChange(k)

(* What a step leaves of a request that does not take it.                  *)
Kept(s) ==
    /\ step'[s] = step[s] /\ cookie'[s] = cookie[s]
    /\ step[s] \notin Forgets => seen'[s] = seen[s]
    /\ s \in Pages => held'[s] = held[s] /\ shown'[s] = shown[s]
    /\ s \in Desk \cup Clerk => pc'[s] = pc[s] /\ form'[s] = form[s]
    /\ s \in Desk => loaded'[s] = loaded[s]

(* A step is one request's, or time or a key moving on, or nothing.        *)
LEMMA StepKinds ==
    ASSUME [Next]_vars
    PROVE  \/ Observe /\ \E r \in Requests : RequestMoves(r)
           \/ Observe /\ Meanwhile
           \/ UNCHANGED vars
  <1>1. Desk \cup Clerk \subseteq Requests /\ Pages \subseteq Requests
    BY Constants
  <1> QED
    BY <1>1 DEF Next, RequestMoves, Meanwhile

(* A request's step touches nobody else's part of the state.               *)
LEMMA OthersKept ==
    ASSUME Typed, Observe, NEW r \in Requests, RequestMoves(r),
           NEW s \in Requests, s # r
    PROVE  Kept(s)
  <1> USE DEF Typed, DeskTyped, RequestsTyped
  <1>1. step'[s] = step[s] /\ cookie'[s] = cookie[s]
        /\ (s \in Pages => held'[s] = held[s] /\ shown'[s] = shown[s])
        /\ (s \in Desk \cup Clerk => pc'[s] = pc[s] /\ form'[s] = form[s])
        /\ (s \in Desk => loaded'[s] = loaded[s])
    <2>1. CASE Begin(r)
      BY <2>1 DEF Begin, Goto, desk
    <2>2. CASE require_auth(r)
      BY <2>2 DEF require_auth, Goto, Refuse, desk
    <2>3. CASE require_role(r)
      BY <2>3 DEF require_role, Goto, Refuse, desk
    <2>4. CASE r \in Desk \cup Clerk /\ Handle(r)
      BY <2>4 DEF Handle, Goto, Refuse, desk, TheDesk!DeskBegin,
                  TheDesk!ClerkBegin, TheDesk!Goto
    <2>5. CASE r \in Desk \cup Clerk /\ DeskWork(r)
      BY <2>5 DEF DeskWork, TheDesk!DeskStep, TheDesk!DeskFail,
                  TheDesk!ClerkStep, TheDesk!ClerkFail, TheDesk!DeskFind,
                  TheDesk!DeskSave, TheDesk!ClerkInsert,
                  TheDesk!ClerkCollision, TheDesk!Report, TheDesk!Goto
    <2>6. CASE r \in Pages /\ (ViewerRead(r) \/ Page(r))
      BY <2>6 DEF ViewerRead, Page, Goto, Refuse, desk
    <2>7. CASE r \in Pages /\ (EditRead(r) \/ ProfileRead(r))
      BY <2>7 DEF EditRead, ProfileRead, Assign, Goto, Refuse, desk
    <2>8. CASE r \in Pages /\ (Save(r) \/ SaveFail(r))
      BY <2>8 DEF Save, SaveFail, Goto, Refuse, desk
    <2>9. CASE r \in Pages /\ (SearchPrefix(r) \/ SearchOn(r))
      BY <2>9 DEF SearchPrefix, SearchOn, Goto, desk
    <2> QED
      BY <2>1, <2>2, <2>3, <2>4, <2>5, <2>6, <2>7, <2>8, <2>9
      DEF RequestMoves
  <1>2. step[s] \notin Forgets => seen'[s] = seen[s]
    BY <1>1, SeenMoves
  <1> QED
    BY <1>1, <1>2 DEF Kept

(* Nor does time or a key that changes hands, or a step of another system. *)
LEMMA AllKept ==
    ASSUME Typed, (Observe /\ Meanwhile) \/ UNCHANGED vars,
           NEW s \in Requests
    PROVE  Kept(s) /\ UNCHANGED <<desk, user, held, shown, step, cookie>>
  <1>1. CASE Observe /\ Meanwhile
    <2>1. UNCHANGED <<desk, user, requests>>
      BY <1>1 DEF Meanwhile, Expire, KeyChange
    <2>2. step'[s] = step[s]
      BY <2>1 DEF requests
    <2>3. step[s] \notin Forgets => seen'[s] = seen[s]
      BY <1>1, <2>2, SeenMoves
    <2> QED
      BY <2>1, <2>3 DEF Kept, desk, requests
  <1>2. CASE UNCHANGED vars
    BY <1>2 DEF vars, desk, accounts, requests, Kept
  <1> QED
    BY <1>1, <1>2

-----------------------------------------------------------------------------
(* What the desk's handlers do.                                            *)

(* The handler starts with the viewer read last and at its first query, or *)
(* not at all.                                                             *)
HandlerStarts(r) ==
    LET v == current_user_ref(cookie[r]) IN
    /\ step[r] = "viewer" /\ step' = [step EXCEPT ![r] = "handler"]
    /\ UNCHANGED <<ticket, loaded, cookie>>
    /\ pc' = [pc EXCEPT ![r] = pc'[r]] /\ form' = [form EXCEPT ![r] = form'[r]]
    /\ r \in Desk => /\ pc'[r] = "find"
                     /\ form'[r] \in TheDesk!DeskForms /\ form'[r].by = v
    /\ r \in Clerk => /\ pc'[r] = "insert"
                      /\ form'[r] \in TheDesk!ClerkForms
                      /\ form'[r].to # None /\ form'[r].by # None
                      /\ v # None /\ form'[r].by = v.id

(* The handler starts as HandlerStarts says, or the request is refused and *)
(* the desk is as before.                                                  *)
LEMMA HandleMoves ==
    ASSUME Typed, NEW r \in Desk \cup Clerk, Handle(r)
    PROVE  \/ step[r] = "viewer" /\ Refuse(r) /\ UNCHANGED desk
           \/ HandlerStarts(r)
  <1>1. PICK v : v = current_user_ref(cookie[r])
    OBVIOUS
  <1> SUFFICES ASSUME ~(Refuse(r) /\ UNCHANGED desk)
               PROVE  HandlerStarts(r)
    BY DEF Handle
  <1>2. /\ step[r] = "viewer" /\ step' = [step EXCEPT ![r] = "handler"]
        /\ UNCHANGED cookie /\ pc'[r] \in TheDesk!Working
        /\ \/ r \in Desk /\ TheDesk!DeskBegin(r) /\ form'[r].by = v
           \/ /\ r \in Clerk /\ TheDesk!ClerkBegin(r)
              /\ form'[r].by = IF v = None THEN None ELSE v.id
    BY <1>1 DEF Handle, Goto
  <1>3. r \in Desk => r \notin Clerk
    BY Constants
  <1>4. CASE r \in Desk
    <2>1. PICK f \in TheDesk!DeskForms :
              /\ form' = [form EXCEPT ![r] = f]
              /\ pc' = [pc EXCEPT ![r] = IF f.codes = <<>> THEN "bad_request"
                                                           ELSE "find"]
      BY <1>2, <1>3, <1>4 DEF TheDesk!DeskBegin, TheDesk!Goto
    <2>2. form'[r] = f /\ form' = [form EXCEPT ![r] = form'[r]]
      BY <1>4, <2>1 DEF Typed, DeskTyped
    <2>3. pc'[r] \in {"bad_request", "find"} /\ pc' = [pc EXCEPT ![r] = pc'[r]]
      BY <1>4, <2>1 DEF Typed, DeskTyped
    <2>4. pc'[r] = "find"
      BY <1>2, <2>3 DEF TheDesk!Working
    <2>5. UNCHANGED <<ticket, loaded>>
      BY <1>2, <1>3, <1>4 DEF TheDesk!DeskBegin
    <2> QED
      BY <1>1, <1>2, <1>3, <1>4, <2>2, <2>3, <2>4, <2>5 DEF HandlerStarts
  <1>5. CASE r \in Clerk
    <2>1. PICK f \in TheDesk!ClerkForms, known \in BOOLEAN :
              /\ form' = [form EXCEPT ![r] = f]
              /\ pc' = [pc EXCEPT ![r] = TheDesk!ClerkVerdict(f, known)]
      BY <1>2, <1>3, <1>5 DEF TheDesk!ClerkBegin, TheDesk!Goto
    <2>2. form'[r] = f /\ form' = [form EXCEPT ![r] = form'[r]]
      BY <1>5, <2>1 DEF Typed, DeskTyped
    <2>3. /\ pc'[r] = TheDesk!ClerkVerdict(f, known)
          /\ pc' = [pc EXCEPT ![r] = pc'[r]]
      BY <1>5, <2>1 DEF Typed, DeskTyped
    <2>4. pc'[r] \in {"bad_request", "forbidden", "insert"}
      BY <2>3 DEF TheDesk!ClerkVerdict
    <2>5. pc'[r] = "insert"
      BY <1>2, <2>4 DEF TheDesk!Working
    <2>6. f.to # None /\ f.by # None
      BY <2>3, <2>5 DEF TheDesk!ClerkVerdict
    <2>7. UNCHANGED <<ticket, loaded>>
      BY <1>2, <1>3, <1>5 DEF TheDesk!ClerkBegin
    <2>8. v # None /\ f.by = v.id
      BY <1>2, <1>3, <1>5, <2>2, <2>6
    <2> QED
      BY <1>1, <1>2, <1>3, <1>5, <2>2, <2>3, <2>5, <2>6, <2>7, <2>8
      DEF HandlerStarts
  <1> QED
    BY <1>4, <1>5

(* A web request that is at work looks for a ticket, saves the one it      *)
(* found, or ends.                                                         *)
DeskWorks(r) ==
    /\ pc[r] \in {"find", "save"}
    /\ pc' = [pc EXCEPT ![r] = pc'[r]]
    /\ pc'[r] \in {"find", "save", "answered", "error"}
    /\ loaded' = [loaded EXCEPT ![r] = loaded'[r]]
    /\ loaded'[r] \in TicketIds \cup {None}
    /\ UNCHANGED <<form, step, held, shown>>
    /\ \/ ticket' = ticket
       \/ /\ pc[r] = "save" /\ pc'[r] # "save"
          /\ TheDesk!Record(loaded[r], TheDesk!DeskRedemption(r))
    /\ pc'[r] = "save" => /\ loaded'[r] \in TicketIds /\ Issued(loaded'[r])
                          /\ TheDesk!Permitted(r, loaded'[r])
                          /\ ticket' = ticket

(* Every step of a web request at work is as DeskWorks says.               *)
LEMMA DeskMoves ==
    ASSUME Typed, NEW r \in Desk, DeskAt(r), DeskWork(r)
    PROVE  DeskWorks(r)
  <1> USE DEF Typed, DeskTyped
  <1>1. /\ TheDesk!DeskStep(r) \/ TheDesk!DeskFail(r)
        /\ UNCHANGED <<step, held, shown>>
    BY Constants DEF DeskWork
  <1>2. CASE TheDesk!DeskFind(r)
    <2>1. pc[r] = "find" /\ UNCHANGED <<ticket, form>>
      BY <1>2 DEF TheDesk!DeskFind
    <2>2. ASSUME NEW outcome, TheDesk!Report(r, outcome)
          PROVE  /\ pc' = [pc EXCEPT ![r] = pc'[r]]
                 /\ pc'[r] \in {"find", "answered"}
      BY <2>2 DEF TheDesk!Report, TheDesk!Goto
    <2>3. CASE /\ loaded' = [loaded EXCEPT ![r] = None]
               /\ TheDesk!Report(r, "not found")
      BY <1>1, <2>1, <2>2, <2>3 DEF DeskWorks
    <2>4. ASSUME NEW t \in TheDesk!WithCode(TheDesk!CurrentCode(r)),
                 loaded' = [loaded EXCEPT ![r] = t],
                 \/ TheDesk!Report(r, "not permitted")
                 \/ TheDesk!Report(r, "already redeemed")
          PROVE  DeskWorks(r)
      <3>1. t \in TicketIds
        BY DEF TheDesk!WithCode, TheDesk!Stored
      <3>2. /\ pc' = [pc EXCEPT ![r] = pc'[r]]
            /\ pc'[r] \in {"find", "answered"}
        BY <2>2, <2>4
      <3> QED
        BY <1>1, <2>1, <2>4, <3>1, <3>2 DEF DeskWorks
    <2>5. ASSUME NEW t \in TheDesk!WithCode(TheDesk!CurrentCode(r)),
                 loaded' = [loaded EXCEPT ![r] = t],
                 TheDesk!Permitted(r, t), TheDesk!Goto(r, "save")
          PROVE  DeskWorks(r)
      <3>1. t \in TicketIds /\ Issued(t)
        BY DEF TheDesk!WithCode, TheDesk!Stored, Issued
      <3>2. /\ pc' = [pc EXCEPT ![r] = pc'[r]] /\ pc'[r] = "save"
            /\ loaded' = [loaded EXCEPT ![r] = loaded'[r]]
            /\ loaded'[r] = t
        BY <2>5 DEF TheDesk!Goto
      <3> QED
        BY <1>1, <2>1, <2>5, <3>1, <3>2 DEF DeskWorks
    <2> QED
      BY <1>2, <2>3, <2>4, <2>5 DEF TheDesk!DeskFind
  <1>3. CASE TheDesk!DeskSave(r)
    <2>1. /\ pc' = [pc EXCEPT ![r] = pc'[r]]
          /\ pc'[r] \in {"find", "answered"}
      BY <1>3 DEF TheDesk!DeskSave, TheDesk!Report, TheDesk!Goto
    <2>2. /\ pc[r] = "save" /\ UNCHANGED <<form, loaded>>
          /\ TheDesk!Record(loaded[r], TheDesk!DeskRedemption(r))
      BY <1>3 DEF TheDesk!DeskSave
    <2> QED
      BY <1>1, <2>1, <2>2 DEF DeskWorks
  <1>4. CASE TheDesk!DeskFail(r)
    <2>1. pc' = [pc EXCEPT ![r] = pc'[r]] /\ pc'[r] = "error"
      BY <1>4 DEF TheDesk!DeskFail, TheDesk!Goto
    <2>2. /\ pc[r] \in {"find", "save"} /\ UNCHANGED <<form, loaded>>
          /\ \/ UNCHANGED ticket
             \/ /\ pc[r] = "save"
                /\ TheDesk!Record(loaded[r], TheDesk!DeskRedemption(r))
      BY <1>4 DEF TheDesk!DeskFail
    <2> QED
      BY <1>1, <2>1, <2>2 DEF DeskWorks
  <1> QED
    BY <1>1, <1>2, <1>3, <1>4 DEF TheDesk!DeskStep

(* A request that issues tickets inserts one, or ends.                     *)
ClerkWorks(r) ==
    /\ pc[r] = "insert"
    /\ pc' = [pc EXCEPT ![r] = pc'[r]]
    /\ pc'[r] \in {"insert", "issued", "error"}
    /\ UNCHANGED <<form, loaded, step, held, shown>>
    /\ \/ ticket' = ticket
       \/ \E t \in TicketIds, c \in Codes : TheDesk!Insert(r, t, c)

(* Every step of an issue request at work is as ClerkWorks says.           *)
LEMMA ClerkMoves ==
    ASSUME Typed, NEW r \in Clerk, DeskWork(r)
    PROVE  ClerkWorks(r)
  <1> USE DEF Typed, DeskTyped
  <1>1. /\ TheDesk!ClerkStep(r) \/ TheDesk!ClerkFail(r)
        /\ UNCHANGED <<step, held, shown>>
    BY Constants DEF DeskWork
  <1>2. CASE TheDesk!ClerkInsert(r)
    <2>1. /\ pc' = [pc EXCEPT ![r] = pc'[r]]
          /\ pc'[r] \in {"insert", "issued"}
      BY <1>2 DEF TheDesk!ClerkInsert, TheDesk!Goto
    <2>2. /\ pc[r] = "insert" /\ UNCHANGED <<form, loaded>>
          /\ \E t \in TicketIds, c \in Codes : TheDesk!Insert(r, t, c)
      BY <1>2 DEF TheDesk!ClerkInsert
    <2> QED
      BY <1>1, <2>1, <2>2 DEF ClerkWorks
  <1>3. CASE TheDesk!ClerkCollision(r)
    BY <1>1, <1>3 DEF TheDesk!ClerkCollision, TheDesk!Goto, ClerkWorks
  <1>4. CASE TheDesk!ClerkFail(r)
    <2>1. pc' = [pc EXCEPT ![r] = pc'[r]] /\ pc'[r] = "error"
      BY <1>4 DEF TheDesk!ClerkFail, TheDesk!Goto
    <2>2. /\ pc[r] = "insert" /\ UNCHANGED <<form, loaded>>
          /\ \/ UNCHANGED ticket
             \/ \E t \in TicketIds, c \in Codes : TheDesk!Insert(r, t, c)
      BY <1>4 DEF TheDesk!ClerkFail
    <2> QED
      BY <1>1, <2>1, <2>2 DEF ClerkWorks
  <1> QED
    BY <1>1, <1>2, <1>3, <1>4 DEF TheDesk!ClerkStep

-----------------------------------------------------------------------------
(* What a step does to the tickets.                                        *)

(* A ticket is left alone, or issued, or its redemption is recorded.       *)
IssuedBy(t, r) ==
    /\ ~Issued(t) /\ pc[r] = "insert"
    /\ ticket'[t].issued_by = form[r].by
    /\ ticket'[t].redeemed = None

RedeemedBy(t, r) ==
    /\ Issued(t) /\ ticket'[t] # None
    /\ pc[r] = "save" /\ loaded[r] = t
    /\ ticket'[t].redeemed = [by |-> form[r].by.id, req |-> r]
    /\ ticket'[t].issued_to = ticket[t].issued_to
    /\ ticket'[t].issued_by = ticket[t].issued_by

TicketsMove ==
    /\ ticket' \in [TicketIds -> TheDesk!Ticket \cup {None}]
    /\ \A t \in TicketIds : \/ ticket'[t] = ticket[t]
                            \/ \E r \in Clerk : IssuedBy(t, r)
                            \/ \E r \in Desk : RedeemedBy(t, r)

(* An insert adds one ticket, by the sender of the form.                   *)
LEMMA InsertEffect ==
    ASSUME Typed, NEW r \in Clerk, ClerkAt(r), pc[r] = "insert",
           NEW i \in TicketIds, NEW c \in Codes, TheDesk!Insert(r, i, c)
    PROVE  TicketsMove
  <1>1. PICK new : new = TheDesk!NewTicket(r, c)
    OBVIOUS
  <1>2. form[r].to \in TheDesk!Owners /\ form[r].by \in Users
    BY DEF ClerkAt, TheDesk!ClerkForms
  <1>3. /\ new \in TheDesk!Ticket
        /\ new.issued_by = form[r].by /\ new.redeemed = None
    BY <1>1, <1>2 DEF TheDesk!NewTicket, TheDesk!Ticket
  <1>4. ticket' = [ticket EXCEPT ![i] = new] /\ ticket[i] = None
    BY <1>1 DEF TheDesk!Insert, TheDesk!Stored
  <1>5. /\ ticket'[i] = new
        /\ \A t \in TicketIds : t # i => ticket'[t] = ticket[t]
    BY <1>4 DEF Typed, DeskTyped
  <1>6. IssuedBy(i, r)
    BY <1>3, <1>4, <1>5 DEF IssuedBy, Issued
  <1>7. ticket' \in [TicketIds -> TheDesk!Ticket \cup {None}]
    BY <1>3, <1>4 DEF Typed, DeskTyped
  <1> QED
    BY <1>5, <1>6, <1>7 DEF TicketsMove

(* A save records the redemption of the one ticket that was loaded.        *)
LEMMA RecordEffect ==
    ASSUME Typed, NEW r \in Desk, DeskAt(r), pc[r] = "save",
           TheDesk!Record(loaded[r], TheDesk!DeskRedemption(r))
    PROVE  TicketsMove
  <1>1. PICK i, x : i = loaded[r] /\ x = [by |-> form[r].by.id, req |-> r]
    OBVIOUS
  <1>2. i \in TicketIds /\ Issued(i) /\ form[r].by \in TheDesk!Viewers
    <2>1. form[r] \in TheDesk!DeskForms /\ form[r].by # None
      BY DEF DeskAt, TheDesk!Permitted
    <2>2. form[r].by \in TheDesk!Viewers
      BY <2>1 DEF TheDesk!DeskForms
    <2> QED
      BY <1>1, <2>2 DEF DeskAt
  <1>3. x \in TheDesk!Redemption
    BY <1>1, <1>2 DEF TheDesk!Redemption, TheDesk!Viewers
  <1>4. ticket[i] \in TheDesk!Ticket
    BY <1>2 DEF Issued, Typed, DeskTyped
  <1>5. PICK new : new = [ticket[i] EXCEPT !.redeemed = x]
    OBVIOUS
  <1>6. /\ new \in TheDesk!Ticket /\ new.redeemed = x
        /\ new.issued_to = ticket[i].issued_to
        /\ new.issued_by = ticket[i].issued_by
    BY <1>3, <1>4, <1>5 DEF TheDesk!Ticket
  <1>7. ticket' = [ticket EXCEPT ![i] = new]
    BY <1>1, <1>5 DEF TheDesk!Record, TheDesk!DeskRedemption
  <1>8. /\ ticket'[i] = new
        /\ \A t \in TicketIds : t # i => ticket'[t] = ticket[t]
    BY <1>2, <1>7 DEF Typed, DeskTyped
  <1>9. RedeemedBy(i, r)
    BY <1>1, <1>2, <1>6, <1>8, Constants DEF RedeemedBy
  <1>10. ticket' \in [TicketIds -> TheDesk!Ticket \cup {None}]
    BY <1>6, <1>7 DEF Typed, DeskTyped
  <1> QED
    BY <1>8, <1>9, <1>10 DEF TicketsMove

(* A step that leaves the collection alone moves no ticket.                *)
LEMMA TicketsUnmoved ==
    ASSUME Typed, ticket' = ticket
    PROVE  TicketsMove
  BY DEF TicketsMove, Typed, DeskTyped

(* Every step leaves a ticket alone, issues it or records its redemption.  *)
LEMMA TicketMoves ==
    ASSUME AccessInv, [Next]_vars
    PROVE  TicketsMove
  <1> USE DEF AccessInv
  <1>1. CASE (Observe /\ Meanwhile) \/ UNCHANGED vars
    <2>1. ticket' = ticket
      BY <1>1 DEF Meanwhile, Expire, KeyChange, vars, desk
    <2> QED
      BY <2>1, TicketsUnmoved
  <1>2. ASSUME NEW r \in Requests, RequestMoves(r)
        PROVE  TicketsMove
    <2>1. CASE r \in Desk /\ DeskWork(r)
      <3>1. DeskWorks(r)
        BY <2>1, DeskMoves
      <3> QED
        BY <2>1, <3>1, RecordEffect, TicketsUnmoved DEF DeskWorks
    <2>2. CASE r \in Clerk /\ DeskWork(r)
      <3>1. ClerkWorks(r)
        BY <2>2, ClerkMoves
      <3> QED
        BY <2>2, <3>1, InsertEffect, TicketsUnmoved DEF ClerkWorks
    <2>3. CASE r \in Desk \cup Clerk /\ Handle(r)
      <3>1. ticket' = ticket
        BY <2>3, HandleMoves DEF HandlerStarts, desk
      <3> QED
        BY <3>1, TicketsUnmoved
    <2>4. CASE ~(r \in Desk \cup Clerk /\ (Handle(r) \/ DeskWork(r)))
      <3>1. ticket' = ticket
        BY <1>2, <2>4
        DEF RequestMoves, Begin, require_auth, require_role, ViewerRead, Page,
            EditRead, ProfileRead, Save, SaveFail, SearchPrefix, SearchOn,
            desk
      <3> QED
        BY <3>1, TicketsUnmoved
    <2> QED
      BY <2>1, <2>2, <2>3, <2>4
  <1> QED
    BY <1>1, <1>2, StepKinds

(* An issued ticket stays, with its owner and its issuer.                  *)
LEMMA TicketsStay ==
    ASSUME TicketsMove, NEW t \in TicketIds, Issued(t)
    PROVE  /\ ticket'[t] # None
           /\ ticket'[t].issued_to = ticket[t].issued_to
           /\ ticket'[t].issued_by = ticket[t].issued_by
  BY DEF TicketsMove, IssuedBy, RedeemedBy, Issued

-----------------------------------------------------------------------------
(* The types.                                                              *)

(* The desk's variables keep their types.                                  *)
LEMMA DeskTypes ==
    ASSUME AccessInv, [Next]_vars
    PROVE  DeskTyped'
  <1> USE DEF AccessInv, Typed
  <1>1. ticket' \in [TicketIds -> TheDesk!Ticket \cup {None}]
    BY TicketMoves DEF TicketsMove
  <1>2. /\ pc' \in [Desk \cup Clerk -> DeskPositions \cup ClerkPositions]
        /\ form' \in [Desk \cup Clerk ->
                        TheDesk!DeskForms \cup TheDesk!ClerkForms \cup {None}]
        /\ loaded' \in [Desk -> TicketIds \cup {None}]
    <2>1. CASE UNCHANGED <<pc, form, loaded>>
      BY <2>1 DEF DeskTyped
    <2>2. ASSUME NEW r \in Desk, DeskWork(r)
          PROVE  <1>2!:
      BY <2>2, DeskMoves
      DEF DeskWorks, DeskTyped, DeskPositions
    <2>3. ASSUME NEW r \in Clerk, DeskWork(r)
          PROVE  <1>2!:
      BY <2>3, ClerkMoves
      DEF ClerkWorks, DeskTyped, ClerkPositions
    <2>4. ASSUME NEW r \in Desk \cup Clerk, Handle(r)
          PROVE  <1>2!:
      <3>1. CASE UNCHANGED desk
        BY <2>1, <3>1 DEF desk
      <3>2. CASE HandlerStarts(r)
        BY <3>2
        DEF HandlerStarts, DeskTyped, DeskPositions, ClerkPositions
      <3> QED
        BY <2>4, <3>1, <3>2, HandleMoves
    <2>5. ASSUME NEW r \in Requests, RequestMoves(r),
                 ~(r \in Desk \cup Clerk /\ (Handle(r) \/ DeskWork(r)))
          PROVE  UNCHANGED <<pc, form, loaded>>
      BY <2>5
      DEF RequestMoves, Begin, require_auth, require_role, ViewerRead, Page,
          EditRead, ProfileRead, Save, SaveFail, SearchPrefix, SearchOn, desk
    <2>6. ASSUME Meanwhile \/ UNCHANGED vars
          PROVE  UNCHANGED <<pc, form, loaded>>
      BY <2>6 DEF Meanwhile, Expire, KeyChange, vars, desk
    <2> QED
      BY <2>1, <2>2, <2>3, <2>4, <2>5, <2>6, StepKinds
  <1> QED
    BY <1>1, <1>2 DEF DeskTyped

(* A save stores an account.                                               *)
LEMMA SaveEffect ==
    ASSUME AccountsTyped, NEW r \in Pages, held[r] \in Changes, Save(r)
    PROVE  /\ user' \in [Users -> Account]
           /\ held[r].id \in Users
           /\ \A u \in Users : u # held[r].id => user'[u] = user[u]
           /\ \A f \in {"admin", "name"} :
                 user'[held[r].id][f] =
                   IF held[r].new[f] = held[r].read[f]
                     THEN user[held[r].id][f] ELSE held[r].new[f]
  <1>1. PICK x : x = held[r]
    OBVIOUS
  <1>2. x.id \in Users /\ x.read \in Account /\ x.new \in Account
    BY <1>1 DEF Changes
  <1>3. PICK old : old = user[x.id]
    OBVIOUS
  <1>4. PICK new : new = ChangedFields(old, x)
    OBVIOUS
  <1>5. user' = [user EXCEPT ![x.id] = new]
    BY <1>1, <1>3, <1>4 DEF Save
  <1>6. \A f \in {"admin", "name"} :
           new[f] = IF x.new[f] = x.read[f] THEN old[f] ELSE x.new[f]
    BY <1>4 DEF ChangedFields
  <1>7. old \in Account
    BY <1>2, <1>3 DEF AccountsTyped
  <1>8. new \in Account
    <2>1. new = [f \in {"admin", "name"} |->
                   IF x.new[f] = x.read[f] THEN old[f] ELSE x.new[f]]
      BY <1>4 DEF ChangedFields
    <2>2. /\ new["admin"] \in BOOLEAN /\ new["name"] \in DisplayNames
          /\ DOMAIN new = {"admin", "name"}
      BY <1>2, <1>6, <1>7, <2>1 DEF Account
    <2>3. new = [admin |-> new["admin"], name |-> new["name"]]
      BY <2>1, <2>2
    <2> QED
      BY <2>2, <2>3 DEF Account
  <1> QED
    BY <1>1, <1>2, <1>3, <1>5, <1>6, <1>8 DEF AccountsTyped

(* Only a save changes an account.                                         *)
LEMMA UserMoves ==
    ASSUME [Next]_vars
    PROVE  \/ user' = user
           \/ Observe /\ \E r \in Pages : Save(r)
  <1>1. ASSUME NEW r \in Requests, RequestMoves(r), ~(r \in Pages /\ Save(r))
        PROVE  user' = user
    BY <1>1
    DEF RequestMoves, Begin, require_auth, require_role, Handle, DeskWork,
        ViewerRead, Page, EditRead, ProfileRead, SaveFail, SearchPrefix,
        SearchOn, accounts
  <1>2. ASSUME Meanwhile \/ UNCHANGED vars
        PROVE  user' = user
    BY <1>2 DEF Meanwhile, Expire, KeyChange, vars, accounts
  <1> QED
    BY <1>1, <1>2, StepKinds

(* The accounts, the keys and the cookies keep their types.                *)
LEMMA AccountTypes ==
    ASSUME AccessInv, [Next]_vars
    PROVE  AccountsTyped'
  <1> USE DEF AccessInv, Typed
  <1>1. user' \in [Users -> Account]
    <2>1. ASSUME NEW r \in Pages, Save(r)
          PROVE  user' \in [Users -> Account]
      <3>1. held[r] \in Changes
        BY <2>1 DEF PageAt, Save
      <3> QED
        BY <2>1, <3>1, SaveEffect
    <2> QED
      BY <2>1, UserMoves DEF AccountsTyped
  <1>2. /\ holder' \in [Keys -> Users \cup {None}]
        /\ live' \subseteq Sessions
    <2>1. ASSUME NEW r \in Requests, RequestMoves(r)
          PROVE  UNCHANGED <<holder, live>>
      BY <2>1
      DEF RequestMoves, Begin, require_auth, require_role, Handle, DeskWork,
          ViewerRead, Page, EditRead, ProfileRead, Save, SaveFail,
          SearchPrefix, SearchOn, accounts
    <2>2. ASSUME NEW c \in Sessions, Expire(c)
          PROVE  <1>2!:
      BY <2>2 DEF Expire, AccountsTyped
    <2>3. ASSUME NEW k \in Keys, KeyChange(k)
          PROVE  <1>2!:
      BY <2>3 DEF KeyChange, AccountsTyped
    <2>4. CASE UNCHANGED vars
      BY <2>4 DEF vars, accounts, AccountsTyped
    <2> QED
      BY <2>1, <2>2, <2>3, <2>4, StepKinds DEF Meanwhile, AccountsTyped
  <1> QED
    BY <1>1, <1>2 DEF AccountsTyped

(* Where a step takes its request, and what becomes of its cookie.         *)
LEMMA StepTypes ==
    ASSUME AccessInv, NEW r \in Requests, RequestMoves(r)
    PROVE  /\ step' \in [Requests -> Steps]
           /\ cookie' \in [Requests -> Sessions \cup {None}]
           /\ held' = [p \in Pages |-> held'[p]]
           /\ shown' \in [Pages -> SUBSET TicketIds]
  <1> USE DEF AccessInv, Typed, RequestsTyped
  <1>1. CASE Begin(r)
    BY <1>1 DEF Begin, Goto, Steps
  <1>2. CASE require_auth(r)
    BY <1>2 DEF require_auth, Goto, Refuse, Steps
  <1>3. CASE require_role(r)
    BY <1>3 DEF require_role, Goto, Refuse, Steps
  <1>4. CASE r \in Desk \cup Clerk /\ Handle(r)
    BY <1>4 DEF Handle, Goto, Refuse, Steps
  <1>5. CASE r \in Desk \cup Clerk /\ DeskWork(r)
    BY <1>5 DEF DeskWork
  <1>6. CASE r \in Pages /\ ViewerRead(r)
    BY <1>6 DEF ViewerRead, Goto, Refuse, Steps
  <1>7. CASE r \in Pages /\ Page(r)
    <2>1. /\ step' \in [Requests -> Steps]
          /\ cookie' \in [Requests -> Sessions \cup {None}]
          /\ held' = [held EXCEPT ![r] = None]
      BY <1>7 DEF Page, Goto, Refuse, Steps
    <2>2. shown' \in [Pages -> SUBSET TicketIds]
      <3>1. PICK v : v = held[r]
        OBVIOUS
      <3>2. \/ UNCHANGED shown
            \/ \E t \in TicketIds : shown' = [shown EXCEPT ![r] = {t}]
            \/ \E owner \in IF v.admin THEN Users \cup Names ELSE {v.id} :
                 shown' = [shown EXCEPT ![r] =
                   {t \in TicketIds : /\ Issued(t)
                                      /\ ticket[t].redeemed = None
                                      /\ ticket[t].issued_to = owner}]
        BY <1>7, <3>1 DEF Page
      <3> QED
        BY <3>2
    <2> QED
      BY <2>1, <2>2
  <1>8. CASE r \in Pages /\ (EditRead(r) \/ ProfileRead(r))
    BY <1>8 DEF EditRead, ProfileRead, Assign, Goto, Refuse, Steps
  <1>9. CASE r \in Pages /\ (Save(r) \/ SaveFail(r))
    BY <1>9 DEF Save, SaveFail, Goto, Refuse, Steps
  <1>10. CASE r \in Pages /\ (SearchPrefix(r) \/ SearchOn(r))
    BY <1>10 DEF SearchPrefix, SearchOn, Goto, Steps
  <1> QED
    BY <1>1, <1>2, <1>3, <1>4, <1>5, <1>6, <1>7, <1>8, <1>9, <1>10
    DEF RequestMoves

(* What a request has seen are viewers.                                    *)
LEMMA SeenTypes ==
    ASSUME Typed, Observe
    PROVE  seen' \in [Requests -> SUBSET TheDesk!Viewers]
  <1>1. ASSUME NEW c PROVE {Viewer(u) : u \in StandsFor(c)}
                              \subseteq TheDesk!Viewers
    BY DEF Typed, AccountsTyped, Account, StandsFor, Viewer, TheDesk!Viewers
  <1>2. ASSUME NEW r \in Requests
        PROVE  seen'[r] \subseteq TheDesk!Viewers
    <2>1. \/ seen'[r] = {} \/ seen'[r] = seen[r]
          \/ seen'[r] = seen[r] \cup {Viewer(u) : u \in StandsFor(cookie[r])}
      BY SeenMoves
    <2> QED
      BY <1>1, <2>1 DEF Typed, RequestsTyped
  <1>3. seen' = [r \in Requests |-> seen'[r]]
    BY DEF Observe
  <1> QED
    BY <1>2, <1>3

(* All variables keep their types.                                         *)
LEMMA TypesStep ==
    ASSUME AccessInv, [Next]_vars
    PROVE  Typed'
  <1>1. RequestsTyped'
    <2>1. ASSUME NEW r \in Requests, RequestMoves(r), Observe
          PROVE  RequestsTyped'
      BY <2>1, StepTypes, SeenTypes DEF AccessInv, RequestsTyped
    <2>2. CASE Observe /\ Meanwhile
      <3>1. UNCHANGED requests
        BY <2>2 DEF Meanwhile, Expire, KeyChange
      <3> QED
        BY <2>2, <3>1, SeenTypes
        DEF AccessInv, Typed, RequestsTyped, requests
    <2>3. CASE UNCHANGED vars
      BY <2>3 DEF AccessInv, Typed, RequestsTyped, vars, requests
    <2> QED
      BY <2>1, <2>2, <2>3, StepKinds
  <1> QED
    BY <1>1, DeskTypes, AccountTypes DEF Typed

-----------------------------------------------------------------------------
(* A request that takes no step keeps its part of the invariant.           *)

(* A web request that waits: the ticket it has loaded keeps its owner.     *)
LEMMA DeskStays ==
    ASSUME TicketsMove, NEW s \in Desk, DeskAt(s), Kept(s)
    PROVE  DeskAt(s)'
  <1>1. pc'[s] = pc[s] /\ form'[s] = form[s] /\ loaded'[s] = loaded[s]
        /\ step'[s] = step[s]
    BY DEF Kept
  <1>2. pc[s] # "idle" => seen'[s] = seen[s]
    BY DEF Kept, DeskAt, Forgets
  <1>3. pc[s] = "save" =>
            /\ ticket'[loaded[s]] # None
            /\ ticket'[loaded[s]].issued_to = ticket[loaded[s]].issued_to
    BY TicketsStay DEF DeskAt
  <1> QED
    BY <1>1, <1>2, <1>3 DEF DeskAt, Issued, TheDesk!Permitted

(* An issue request that waits.                                            *)
LEMMA ClerkStays ==
    ASSUME NEW s \in Clerk, ClerkAt(s), Kept(s)
    PROVE  ClerkAt(s)'
  <1>1. pc'[s] = pc[s] /\ form'[s] = form[s] /\ step'[s] = step[s]
    BY DEF Kept
  <1>2. step[s] \in {"viewer", "handler"} => seen'[s] = seen[s]
    BY DEF Kept, Forgets
  <1> QED
    BY <1>1, <1>2 DEF ClerkAt, SawAdmin

(* The request of a page that waits: the tickets on the page keep their    *)
(* owners.                                                                 *)
LEMMA PageStays ==
    ASSUME TicketsMove, NEW s \in Pages, shown[s] \subseteq TicketIds,
           PageAt(s), Kept(s)
    PROVE  PageAt(s)'
  <1>1. held'[s] = held[s] /\ shown'[s] = shown[s] /\ step'[s] = step[s]
    BY DEF Kept
  <1>2. step[s] \notin Forgets => seen'[s] = seen[s]
    BY DEF Kept
  <1>3. Listed(s)' = Listed(s)
    BY <1>1 DEF Listed
  <1>4. ASSUME NEW t \in shown[s]
        PROVE  ticket'[t] # None /\ SawEntitled(s, t)'
    <2>1. step[s] = "shown" /\ t \in TicketIds
      BY DEF PageAt
    <2>2. /\ ticket'[t] # None
          /\ ticket'[t].issued_to = ticket[t].issued_to
      BY <2>1, TicketsStay DEF PageAt
    <2>3. seen'[s] = seen[s]
      BY <1>2, <2>1 DEF Forgets
    <2> QED
      BY <2>2, <2>3 DEF PageAt, SawEntitled
  <1> QED
    BY <1>1, <1>2, <1>3, <1>4 DEF PageAt, Issued, SawAdmin, Forgets

-----------------------------------------------------------------------------
(* The request that takes the step.                                        *)

(* A web request's step: the viewer in its form is one it has seen, and    *)
(* the ticket it is to save one it may redeem.                             *)
LEMMA DeskMover ==
    ASSUME AccessInv, [Next]_vars, Observe, NEW r \in Desk, RequestMoves(r)
    PROVE  DeskAt(r)'
  <1> USE DEF AccessInv, Typed, DeskTyped, RequestsTyped
  <1>1. r \in Requests /\ r \in Desk \cup Clerk /\ r \notin Pages
    BY Constants
  <1>2. /\ DeskAt(r) /\ cookie[r] \in Sessions \cup {None}
        /\ DOMAIN step = Requests
    BY <1>1
  <1>3. ASSUME UNCHANGED desk, step[r] # "handler",
               step'[r] \in HandlerSteps
        PROVE  DeskAt(r)'
    BY <1>2, <1>3 DEF DeskAt, desk
  <1>4. CASE Begin(r) \/ require_auth(r) \/ require_role(r)
    BY <1>1, <1>2, <1>3, <1>4, Constants
    DEF Begin, require_auth, require_role, Goto, Refuse, HandlerSteps
  <1>5. CASE Handle(r)
    <2>1. CASE step[r] = "viewer" /\ Refuse(r) /\ UNCHANGED desk
      BY <1>1, <1>2, <1>3, <2>1 DEF Refuse, Goto, HandlerSteps
    <2>2. CASE HandlerStarts(r)
      <3>1. PICK v : v = current_user_ref(cookie[r])
        OBVIOUS
      <3>2. /\ step[r] = "viewer" /\ step'[r] = "handler"
            /\ pc'[r] = "find"
            /\ form'[r] \in TheDesk!DeskForms /\ form'[r].by = v
        BY <1>1, <1>2, <2>2, <3>1 DEF HandlerStarts
      <3>3. v # None => v \in seen'[r]
        BY <1>1, <1>2, <3>1, <3>2, SeenMoves, ViewerIs DEF Forgets
      <3> QED
        BY <3>2, <3>3 DEF DeskAt, DeskPositions, HandlerSteps
    <2> QED
      BY <1>1, <1>5, <2>1, <2>2, HandleMoves
  <1>6. CASE DeskWork(r)
    <2>1. DeskWorks(r)
      BY <1>2, <1>6, DeskMoves
    <2>2. /\ step[r] = "handler" /\ form[r] \in TheDesk!DeskForms
          /\ form[r].by # None => form[r].by \in seen[r]
      BY <1>2, <2>1 DEF DeskWorks, DeskAt
    <2>3. step'[r] = "handler" /\ form'[r] = form[r] /\ seen'[r] = seen[r]
      BY <1>1, <2>1, <2>2, SeenMoves DEF DeskWorks, Forgets
    <2>4. pc'[r] \in DeskPositions
      BY <2>1 DEF DeskWorks, DeskPositions
    <2>5. pc'[r] = "save" =>
             /\ loaded'[r] \in TicketIds /\ ticket'[loaded'[r]] # None
             /\ form'[r].by # None
             /\ form'[r].by.admin
                  \/ ticket'[loaded'[r]].issued_to = form'[r].by.id
      BY <2>1, <2>3 DEF DeskWorks, Issued, TheDesk!Permitted
    <2> QED
      BY <2>2, <2>3, <2>4, <2>5
      DEF DeskAt, HandlerSteps, Issued, TheDesk!Permitted
  <1> QED
    BY <1>1, <1>4, <1>5, <1>6 DEF RequestMoves

(* An issue request's step: it has seen an administrator past the role's   *)
(* guard, and the issuer in its form is one it has seen.                   *)
LEMMA ClerkMover ==
    ASSUME AccessInv, [Next]_vars, Observe, NEW r \in Clerk, RequestMoves(r)
    PROVE  ClerkAt(r)'
  <1> USE DEF AccessInv, Typed, DeskTyped, RequestsTyped
  <1>1. /\ r \in Requests /\ r \in Desk \cup Clerk
        /\ r \notin Pages /\ r \notin Desk
    BY Constants
  <1>2. /\ ClerkAt(r) /\ cookie[r] \in Sessions \cup {None}
        /\ DOMAIN step = Requests /\ AccountsTyped
    BY <1>1
  <1>3. ASSUME UNCHANGED desk, step[r] # "handler",
               step'[r] \in HandlerSteps,
               step'[r] = "viewer" => SawAdmin(r)'
        PROVE  ClerkAt(r)'
    BY <1>2, <1>3 DEF ClerkAt, desk
  <1>4. CASE Begin(r)
    BY <1>1, <1>2, <1>3, <1>4 DEF Begin, Goto, HandlerSteps
  <1>5. CASE require_auth(r)
    BY <1>1, <1>2, <1>3, <1>5 DEF require_auth, Goto, Refuse, HandlerSteps
  <1>6. CASE require_role(r)
    <2>1. PICK v : v = current_user_ref(cookie[r])
      OBVIOUS
    <2>2. /\ step[r] = "role" /\ UNCHANGED desk
          /\ \/ step'[r] = "refused"
             \/ step'[r] = "viewer" /\ HasRole(v)
      BY <1>1, <1>2, <1>6, <2>1, Constants DEF require_role, Goto, Refuse
    <2>3. CASE step'[r] = "viewer" /\ HasRole(v)
      <3>1. v \in seen'[r] /\ v.admin
        BY <1>1, <1>2, <2>1, <2>2, <2>3, SeenMoves, ViewerIs
        DEF Forgets, HasRole
      <3> QED
        BY <1>3, <2>2, <2>3, <3>1 DEF SawAdmin, HandlerSteps
    <2> QED
      BY <1>3, <2>2, <2>3 DEF HandlerSteps
  <1>7. CASE Handle(r)
    <2>1. CASE step[r] = "viewer" /\ Refuse(r) /\ UNCHANGED desk
      BY <1>1, <1>2, <1>3, <2>1 DEF Refuse, Goto, HandlerSteps
    <2>2. CASE HandlerStarts(r)
      <3>1. PICK v : v = current_user_ref(cookie[r])
        OBVIOUS
      <3>2. /\ step[r] = "viewer" /\ step'[r] = "handler"
            /\ pc'[r] = "insert"
            /\ form'[r] \in TheDesk!ClerkForms
            /\ form'[r].to # None /\ form'[r].by # None
            /\ v # None /\ form'[r].by = v.id
        BY <1>1, <1>2, <2>2, <3>1 DEF HandlerStarts
      <3>3. v \in seen'[r] /\ seen[r] \subseteq seen'[r]
        BY <1>1, <1>2, <3>1, <3>2, SeenMoves, ViewerIs DEF Forgets
      <3>4. SawAdmin(r)'
        BY <1>2, <3>2, <3>3 DEF ClerkAt, SawAdmin
      <3> QED
        BY <3>2, <3>3, <3>4 DEF ClerkAt, ClerkPositions, HandlerSteps
    <2> QED
      BY <1>1, <1>7, <2>1, <2>2, HandleMoves
  <1>8. CASE DeskWork(r)
    <2>1. ClerkWorks(r)
      BY <1>8, ClerkMoves
    <2>2. step[r] = "handler" /\ pc[r] = "insert"
      BY <1>2, <2>1 DEF ClerkWorks, ClerkAt
    <2>3. step'[r] = "handler" /\ form'[r] = form[r] /\ seen'[r] = seen[r]
      BY <1>1, <2>1, <2>2, SeenMoves DEF ClerkWorks, Forgets
    <2>4. pc'[r] \in ClerkPositions
      BY <2>1 DEF ClerkWorks, ClerkPositions
    <2> QED
      BY <1>2, <2>2, <2>3, <2>4 DEF ClerkAt, HandlerSteps, SawAdmin
  <1> QED
    BY <1>1, <1>4, <1>5, <1>6, <1>7, <1>8 DEF RequestMoves

(* A page's step: an edit is an administrator's, a page is for a viewer    *)
(* that was seen, a name is saved to the account of the session.           *)
LEMMA PageMover ==
    ASSUME AccessInv, [Next]_vars, Observe, NEW r \in Pages, RequestMoves(r)
    PROVE  PageAt(r)'
  <1> USE DEF AccessInv, Typed, RequestsTyped
  <1>1. r \in Requests /\ r \notin Desk \cup Clerk
    BY Constants
  <1>2. /\ PageAt(r) /\ cookie[r] \in Sessions \cup {None}
        /\ DOMAIN step = Requests /\ AccountsTyped
        /\ held = [p \in Pages |-> held[p]] /\ DOMAIN shown = Pages
    BY <1>1
  <1>3. ASSUME step[r] # "shown", shown'[r] = shown[r],
               step'[r] \notin {"edit", "save", "page", "rename", "search on",
                                 "handler"}
        PROVE  PageAt(r)'
    BY <1>2, <1>3 DEF PageAt
  <1>4. CASE Begin(r)
    BY <1>1, <1>2, <1>3, <1>4 DEF Begin, Goto
  <1>5. CASE require_auth(r)
    BY <1>1, <1>2, <1>3, <1>5 DEF require_auth, Goto, Refuse
  <1>6. CASE require_role(r)
    <2>1. PICK v : v = current_user_ref(cookie[r])
      OBVIOUS
    <2>2. /\ step[r] = "role" /\ UNCHANGED shown
          /\ \/ step'[r] \in {"refused", "viewer", "search"}
             \/ step'[r] = "edit" /\ HasRole(v)
      BY <1>1, <1>2, <1>6, <2>1 DEF require_role, Goto, Refuse
    <2>3. CASE step'[r] = "edit" /\ HasRole(v)
      <3>1. v \in seen'[r] /\ v.admin
        BY <1>1, <1>2, <2>1, <2>2, <2>3, SeenMoves, ViewerIs
        DEF Forgets, HasRole
      <3> QED
        BY <1>2, <2>2, <2>3, <3>1 DEF PageAt, SawAdmin
    <2> QED
      BY <1>3, <2>2, <2>3
  <1>7. CASE ViewerRead(r)
    <2>1. PICK v : v = current_user_ref(cookie[r])
      OBVIOUS
    <2>2. /\ step[r] = "viewer" /\ UNCHANGED shown
          /\ \/ step'[r] = "refused"
             \/ step'[r] = "page" /\ v # None /\ held'[r] = v
      BY <1>1, <1>2, <1>7, <2>1 DEF ViewerRead, Goto, Refuse
    <2>3. CASE step'[r] = "page" /\ v # None /\ held'[r] = v
      <3>1. v \in seen'[r]
        BY <1>1, <1>2, <2>1, <2>2, <2>3, SeenMoves, ViewerIs DEF Forgets
      <3> QED
        BY <1>2, <2>2, <2>3, <3>1 DEF PageAt
    <2> QED
      BY <1>3, <2>2, <2>3
  <1>8. CASE Page(r)
    <2>1. PICK v : v = held[r]
      OBVIOUS
    <2>2. /\ step[r] = "page" /\ ticket' = ticket /\ v \in seen[r]
          /\ v \in TheDesk!Viewers
      BY <1>1, <1>2, <1>8, <2>1 DEF Page, desk, PageAt
    <2>3. CASE Refuse(r) /\ UNCHANGED shown
      BY <1>1, <1>2, <1>3, <2>2, <2>3 DEF Refuse, Goto
    <2>4. ASSUME Goto(r, "shown"),
                 \A t \in shown'[r] :
                    Issued(t) /\ (v.admin \/ ticket[t].issued_to = v.id)
          PROVE  PageAt(r)'
      <3>1. step'[r] = "shown"
        BY <1>1, <1>2, <2>4 DEF Goto
      <3>2. seen'[r] = seen[r]
        BY <1>1, <2>2, <3>1, SeenMoves DEF Forgets
      <3> QED
        BY <2>2, <2>4, <3>1, <3>2 DEF PageAt, Issued, SawEntitled
    <2>5. ASSUME NEW t \in TicketIds, Issued(t), Visible(v, t),
                 shown' = [shown EXCEPT ![r] = {t}], Goto(r, "shown")
          PROVE  PageAt(r)'
      <3>1. shown'[r] = {t}
        BY <1>2, <2>5
      <3> QED
        BY <2>4, <2>5, <3>1 DEF Visible
    <2>6. ASSUME NEW owner \in IF v.admin THEN Users \cup Names ELSE {v.id},
                 shown' = [shown EXCEPT ![r] =
                   {t \in TicketIds : /\ Issued(t)
                                      /\ ticket[t].redeemed = None
                                      /\ ticket[t].issued_to = owner}],
                 Goto(r, "shown")
          PROVE  PageAt(r)'
      <3>1. shown'[r] = {t \in TicketIds : /\ Issued(t)
                                           /\ ticket[t].redeemed = None
                                           /\ ticket[t].issued_to = owner}
        BY <1>2, <2>6
      <3>2. v.admin \/ owner = v.id
        BY <2>6
      <3> QED
        BY <2>4, <2>6, <3>1, <3>2
    <2> QED
      BY <1>8, <2>1, <2>3, <2>5, <2>6 DEF Page
  <1>9. CASE EditRead(r)
    <2>1. step[r] = "edit" /\ SawAdmin(r) /\ UNCHANGED shown
      BY <1>2, <1>9 DEF EditRead, PageAt
    <2>2. CASE Refuse(r)
      BY <1>1, <1>2, <1>3, <2>1, <2>2 DEF Refuse, Goto
    <2>3. ASSUME NEW u \in Users, NEW a \in Account, Assign(r, u, a),
                 Goto(r, "save")
          PROVE  PageAt(r)'
      <3>1. step'[r] = "save"
        BY <1>1, <1>2, <2>3 DEF Goto
      <3>2. held'[r] = [id |-> u, read |-> user[u], new |-> a]
        BY <1>2, <2>3 DEF Assign
      <3>3. held'[r] \in Changes
        BY <1>2, <3>2 DEF Changes, AccountsTyped
      <3>4. seen'[r] = seen[r]
        BY <1>1, <2>1, <3>1, SeenMoves DEF Forgets
      <3> QED
        BY <1>2, <2>1, <3>1, <3>3, <3>4 DEF PageAt, SawAdmin
    <2> QED
      BY <1>9, <2>2, <2>3 DEF EditRead
  <1>10. CASE ProfileRead(r)
    <2>1. PICK u : u = _session_user(cookie[r])
      OBVIOUS
    <2>2. step[r] = "profile" /\ UNCHANGED shown
      BY <1>10 DEF ProfileRead
    <2>3. CASE Refuse(r)
      BY <1>1, <1>2, <1>3, <2>2, <2>3 DEF Refuse, Goto
    <2>4. ASSUME u # None, NEW name \in DisplayNames,
                 Assign(r, u, [user[u] EXCEPT !.name = name]),
                 Goto(r, "rename")
          PROVE  PageAt(r)'
      <3>1. step'[r] = "rename"
        BY <1>1, <1>2, <2>4 DEF Goto
      <3>2. PICK a : a = [user[u] EXCEPT !.name = name]
        OBVIOUS
      <3>3. u \in Users /\ u \in StandsFor(cookie[r])
        BY <1>2, <2>1, <2>4, SessionUser
      <3>4. user[u] \in Account
        BY <1>2, <3>3 DEF AccountsTyped
      <3>5. a \in Account /\ a.admin = user[u].admin
        BY <3>2, <3>4 DEF Account
      <3>6. held'[r] = [id |-> u, read |-> user[u], new |-> a]
        BY <1>2, <2>4, <3>2 DEF Assign
      <3>7. Viewer(u) \in seen'[r]
        BY <1>1, <2>2, <3>1, <3>3, SeenMoves DEF Forgets
      <3>8. \E v \in seen'[r] : v.id = u
        BY <3>7 DEF Viewer
      <3>9. /\ held'[r] \in Changes
            /\ held'[r].new.admin = held'[r].read.admin
            /\ held'[r].id = u
        BY <3>3, <3>4, <3>5, <3>6 DEF Changes
      <3> QED
        BY <1>2, <2>2, <3>1, <3>8, <3>9 DEF PageAt
    <2> QED
      BY <1>10, <2>1, <2>3, <2>4 DEF ProfileRead
  <1>11. CASE Save(r) \/ SaveFail(r)
    BY <1>1, <1>2, <1>3, <1>11 DEF Save, SaveFail, Refuse, Goto
  <1>12. CASE SearchPrefix(r)
    <2>1. step[r] = "search" /\ UNCHANGED shown
      BY <1>12 DEF SearchPrefix
    <2>2. PICK l \in Some({u \in Users : user[u].name \in Prefixed}, LIMIT) :
              /\ held' = [held EXCEPT ![r] =
                            [u \in Users |-> IF u \in l THEN 1 ELSE 0]]
              /\ Goto(r, IF Cardinality(l) < LIMIT THEN "search on"
                                                   ELSE "listed")
      BY <1>12 DEF SearchPrefix
    <2>3. held'[r] = [u \in Users |-> IF u \in l THEN 1 ELSE 0]
      BY <1>2, <2>2
    <2>4. step'[r] = IF Cardinality(l) < LIMIT THEN "search on" ELSE "listed"
      BY <1>1, <1>2, <2>2 DEF Goto
    <2>5. l \subseteq Users
      BY <2>2 DEF Some
    <2>6. Listed(r)' = l
      BY <2>3, <2>5 DEF Listed
    <2>7. held'[r] \in [Users -> {0, 1}]
      BY <2>3
    <2> QED
      BY <1>2, <1>3, <2>1, <2>4, <2>6, <2>7 DEF PageAt
  <1>13. CASE SearchOn(r)
    BY <1>1, <1>2, <1>3, <1>13 DEF SearchOn, Goto
  <1> QED
    BY <1>1, <1>4, <1>5, <1>6, <1>7, <1>8, <1>9, <1>10, <1>11, <1>12, <1>13
    DEF RequestMoves

-----------------------------------------------------------------------------
(* The tickets.                                                            *)

(* A request that has reached its handler stays there, and what it has     *)
(* seen stays what it was.                                                 *)
LEMMA HandlerStays ==
    ASSUME AccessInv, [Next]_vars, NEW r \in Requests, step[r] = "handler"
    PROVE  step'[r] = "handler" /\ seen'[r] = seen[r]
  <1> USE DEF AccessInv
  <1>1. CASE Kept(r)
    BY <1>1 DEF Kept, Forgets
  <1>2. CASE Observe /\ RequestMoves(r)
    <2>1. UNCHANGED step
      BY <1>2
      DEF RequestMoves, Begin, require_auth, require_role, Handle, DeskWork,
          ViewerRead, Page, EditRead, ProfileRead, Save, SaveFail,
          SearchPrefix, SearchOn
    <2> QED
      BY <1>2, <2>1, SeenMoves DEF Forgets
  <1> QED
    BY <1>1, <1>2, StepKinds, AllKept, OthersKept

(* A ticket's issuer has reached the handler, so it remains a witness.     *)
LEMMA IssuersStay ==
    ASSUME AccessInv, [Next]_vars, NEW t \in TicketIds, NEW r \in Clerk,
           step[r] = "handler", SawAdmin(r),
           \E v \in seen[r] : v.id = ticket'[t].issued_by
    PROVE  IssuedWell(t)'
  <1>1. step'[r] = "handler" /\ seen'[r] = seen[r]
    BY Constants, HandlerStays
  <1> QED
    BY <1>1 DEF IssuedWell, SawAdmin

(* So has the request that redeemed it.                                    *)
LEMMA RedeemersStay ==
    ASSUME AccessInv, [Next]_vars, NEW t \in TicketIds, NEW r \in Desk,
           step[r] = "handler", ticket'[t].redeemed.req = r,
           \E v \in seen[r] :
              /\ v.id = ticket'[t].redeemed.by
              /\ v.admin \/ ticket'[t].issued_to = v.id
    PROVE  RedeemedWell(t)'
  <1>1. step'[r] = "handler" /\ seen'[r] = seen[r]
    BY Constants, HandlerStays
  <1> QED
    BY <1>1 DEF RedeemedWell

(* Every ticket is issued and redeemed by whom the invariant says.         *)
LEMMA TicketsStep ==
    ASSUME AccessInv, [Next]_vars, NEW t \in TicketIds, Issued(t)'
    PROVE  IssuedWell(t)' /\ RedeemedWell(t)'
  <1> USE DEF AccessInv
  <1>1. CASE ticket'[t] = ticket[t]
    <2>1. Issued(t) /\ IssuedWell(t) /\ RedeemedWell(t)
      BY <1>1 DEF Issued
    <2>2. IssuedWell(t)'
      BY <1>1, <2>1, IssuersStay DEF IssuedWell
    <2>3. RedeemedWell(t)'
      BY <1>1, <2>1, RedeemersStay DEF RedeemedWell
    <2> QED
      BY <2>2, <2>3
  <1>2. ASSUME NEW r \in Clerk, IssuedBy(t, r)
        PROVE  IssuedWell(t)' /\ RedeemedWell(t)'
    <2>1. /\ step[r] = "handler" /\ SawAdmin(r)
          /\ \E v \in seen[r] : v.id = ticket'[t].issued_by
      BY <1>2 DEF IssuedBy, ClerkAt
    <2>2. IssuedWell(t)'
      BY <2>1, IssuersStay
    <2> QED
      BY <1>2, <2>2 DEF IssuedBy, RedeemedWell
  <1>3. ASSUME NEW r \in Desk, RedeemedBy(t, r)
        PROVE  IssuedWell(t)' /\ RedeemedWell(t)'
    <2>1. /\ Issued(t) /\ IssuedWell(t)
          /\ ticket'[t].issued_by = ticket[t].issued_by
          /\ ticket'[t].issued_to = ticket[t].issued_to
      BY <1>3 DEF RedeemedBy
    <2>2. IssuedWell(t)'
      BY <2>1, IssuersStay DEF IssuedWell
    <2>3. /\ step[r] = "handler" /\ form[r].by # None
          /\ form[r].by \in seen[r]
          /\ form[r].by.admin \/ ticket[t].issued_to = form[r].by.id
      BY <1>3 DEF RedeemedBy, DeskAt, TheDesk!Permitted
    <2>4. /\ ticket'[t].redeemed.req = r
          /\ ticket'[t].redeemed.by = form[r].by.id
      BY <1>3 DEF RedeemedBy
    <2>5. RedeemedWell(t)'
      BY <2>1, <2>3, <2>4, RedeemersStay
    <2> QED
      BY <2>2, <2>5
  <1> QED
    BY <1>1, <1>2, <1>3, TicketMoves DEF TicketsMove

-----------------------------------------------------------------------------
(* The inductive invariant.                                                *)

(* The invariant is inductive.                                             *)
LEMMA InvStep == AccessInv /\ [Next]_vars => AccessInv'
  <1> SUFFICES ASSUME AccessInv, [Next]_vars
               PROVE  AccessInv'
    OBVIOUS
  <1>1. Typed'
    BY TypesStep
  <1>2. Typed /\ TicketsMove /\ \A s \in Pages : shown[s] \subseteq TicketIds
    BY TicketMoves DEF AccessInv, Typed, RequestsTyped
  <1>3. ASSUME NEW s \in Requests
        PROVE  Kept(s) \/ (Observe /\ RequestMoves(s))
    BY <1>2, StepKinds, AllKept, OthersKept
  <1>4. ASSUME NEW s \in Desk
        PROVE  DeskAt(s)'
    BY <1>2, <1>3, Constants, DeskStays, DeskMover DEF AccessInv
  <1>5. ASSUME NEW s \in Clerk
        PROVE  ClerkAt(s)'
    BY <1>3, Constants, ClerkStays, ClerkMover DEF AccessInv
  <1>6. ASSUME NEW s \in Pages
        PROVE  PageAt(s)'
    BY <1>2, <1>3, Constants, PageStays, PageMover DEF AccessInv
  <1>7. \A t \in TicketIds :
           Issued(t)' => IssuedWell(t)' /\ RedeemedWell(t)'
    BY TicketsStep
  <1> QED
    BY <1>1, <1>4, <1>5, <1>6, <1>7 DEF AccessInv

(* It holds before any request.                                            *)
LEMMA InitInv == Init => AccessInv
  <1> SUFFICES ASSUME Init
               PROVE  AccessInv
    OBVIOUS
  <1> USE Constants DEF Init, TheDesk!Init
  <1>1. DeskTyped
    BY DEF DeskTyped, DeskPositions
  <1>2. AccountsTyped /\ RequestsTyped
    BY DEF AccountsTyped, RequestsTyped, Steps
  <1>3. \A r \in Desk : DeskAt(r)
    BY DEF DeskAt, DeskPositions, HandlerSteps
  <1>4. \A r \in Clerk : ClerkAt(r)
    BY DEF ClerkAt, ClerkPositions, HandlerSteps
  <1>5. \A r \in Pages : PageAt(r)
    BY DEF PageAt
  <1>6. \A t \in TicketIds : ~Issued(t)
    BY DEF Issued
  <1> QED
    BY <1>1, <1>2, <1>3, <1>4, <1>5, <1>6 DEF AccessInv, Typed

(* Where every request is, what it has seen by then, and by whom each      *)
(* ticket was issued and redeemed.                                         *)
THEOREM Invariance == Spec => []AccessInv
  BY InitInv, InvStep, PTL DEF Spec

(* Tickets are issued in the name of an account that the request's cookie  *)
(* stood for and by an administrator's request, are redeemed at the desk   *)
(* by their owner or an administrator, and are shown to nobody else,       *)
(* whatever happens to keys, roles and cookies between the reads of the    *)
(* session.                                                                *)
THEOREM SessionsAreActedFor == Spec => []ActsForItsSession
  <1>1. ASSUME AccessInv
        PROVE  ActsForItsSession
    <2>1. ASSUME NEW t \in {u \in TicketIds : Issued(u)}
          PROVE  IssuedWell(t) /\ RedeemedWell(t)
      BY <1>1 DEF AccessInv
    <2>2. ASSUME NEW r \in Pages, NEW t \in shown[r]
          PROVE  SawEntitled(r, t)
      BY <1>1 DEF AccessInv, PageAt
    <2> QED
      BY <2>1, <2>2 DEF ActsForItsSession, IssuedWell, RedeemedWell
  <1> QED
    BY <1>1, Invariance, PTL

-----------------------------------------------------------------------------
(* Roles and names change only as they were asked to be.                   *)

(* What a save changes of an account is what its request has asked for and *)
(* had read as something else.                                             *)
AskedFor(u, f) ==
    user'[u][f] # user[u][f] =>
        \E r \in Pages :
            /\ step'[r] = "saved" /\ step[r] # step'[r]
            /\ held[r].id = u
            /\ held[r].new[f] = user'[u][f]
            /\ held[r].new[f] # held[r].read[f]
            /\ \/ step[r] = "save" /\ SawAdmin(r)
               \/ /\ step[r] = "rename" /\ f = "name"
                  /\ \E v \in seen[r] : v.id = u

(* A save changes a field only to the value its form had, and a form that  *)
(* changes the name leaves the role as it was read.                        *)
LEMMA SavesAreAskedFor ==
    ASSUME AccessInv, NEW r \in Pages, Save(r),
           NEW u \in Users, NEW f \in {"admin", "name"}
    PROVE  AskedFor(u, f)
  <1> SUFFICES ASSUME user'[u][f] # user[u][f]
               PROVE  AskedFor(u, f)
    BY DEF AskedFor
  <1> USE DEF AccessInv, Typed
  <1>1. /\ step[r] \in {"save", "rename"} /\ PageAt(r)
        /\ step'[r] = "saved"
    BY Constants DEF Save, Goto, RequestsTyped
  <1>2. held[r] \in Changes
    BY <1>1 DEF PageAt
  <1>3. /\ \A w \in Users : w # held[r].id => user'[w] = user[w]
        /\ user'[held[r].id][f] = IF held[r].new[f] = held[r].read[f]
                                    THEN user[held[r].id][f]
                                    ELSE held[r].new[f]
    BY <1>2, SaveEffect
  <1>4. /\ held[r].id = u
        /\ held[r].new[f] # held[r].read[f]
        /\ user'[u][f] = held[r].new[f]
    BY <1>3
  <1>5. CASE step[r] = "save"
    BY <1>1, <1>4, <1>5 DEF AskedFor, PageAt
  <1>6. CASE step[r] = "rename"
    <2>1. /\ held[r].new.admin = held[r].read.admin
          /\ \E v \in seen[r] : v.id = u
      BY <1>1, <1>4, <1>6 DEF PageAt
    <2>2. f = "name"
      <3>1. CASE f = "admin"
        <4>1. held[r].new["admin"] # held[r].read["admin"]
          BY <1>4, <3>1
        <4> QED
          BY <2>1, <4>1
      <3> QED
        BY <3>1
    <2> QED
      BY <1>1, <1>4, <1>6, <2>1, <2>2 DEF AskedFor
  <1> QED
    BY <1>1, <1>5, <1>6

(* A role, or a name, changes only because the request that saves it asked *)
(* for the value and had read another: an administrator's request, or the  *)
(* account's own for its name.  What others have saved since the document  *)
(* was read stays, wherever the request leaves a field as it was read.     *)
THEOREM ChangesAreAskedFor == Spec => OnlyAsAsked
  <1>1. AccessInv /\ [Next]_vars =>
          [\A u \in Users, f \in {"admin", "name"} :
              user'[u][f] # user[u][f] =>
                  \E r \in Pages :
                      /\ step'[r] = "saved" /\ step[r] # step'[r]
                      /\ held[r].id = u
                      /\ held[r].new[f] = user'[u][f]
                      /\ held[r].new[f] # held[r].read[f]
                      /\ \/ step[r] = "save" /\ SawAdmin(r)
                         \/ /\ step[r] = "rename" /\ f = "name"
                            /\ \E v \in seen[r] : v.id = u]_vars
    <2> SUFFICES ASSUME AccessInv, [Next]_vars,
                        NEW u \in Users, NEW f \in {"admin", "name"}
                 PROVE  AskedFor(u, f)
      BY DEF AskedFor
    <2>1. ASSUME NEW r \in Pages, Save(r)
          PROVE  AskedFor(u, f)
      BY <2>1, SavesAreAskedFor
    <2>2. CASE user' = user
      BY <2>2 DEF AskedFor
    <2> QED
      BY <2>1, <2>2, UserMoves
  <1> QED
    BY <1>1, Invariance, PTL DEF Spec, OnlyAsAsked

-----------------------------------------------------------------------------
(* A search lists everybody it should, once.                               *)

(* The first accounts of a query, counted.                                 *)
LEMMA SomeCounted ==
    ASSUME NEW us \in SUBSET Users, NEW n \in Nat, NEW l \in Some(us, n)
    PROVE  /\ l \subseteq us /\ IsFiniteSet(l)
           /\ Cardinality(l) \in Nat /\ Cardinality(l) <= n
           /\ l # us => Cardinality(l) = n
  <1>1. IsFiniteSet(us)
    BY AccessAssumption, FS_Subset
  <1>2. /\ l \subseteq us
        /\ Cardinality(l) = IF Cardinality(us) < n THEN Cardinality(us)
                                                   ELSE n
    BY DEF Some
  <1>3. IsFiniteSet(l) /\ Cardinality(us) \in Nat /\ Cardinality(l) \in Nat
    BY <1>1, <1>2, FS_Subset, FS_CardinalityType
  <1>4. l # us => Cardinality(l) # Cardinality(us)
    BY <1>1, <1>2, FS_Subset
  <1> QED
    BY <1>2, <1>3, <1>4

(* The list of a search as it is answered.                                 *)
Listing(r) == {u \in Users : held'[r][u] > 0}

ListedWell(r) ==
    /\ \A u \in Users : held'[r][u] <= 1
    /\ Cardinality(Listing(r)) <= LIMIT
    /\ \A u \in Users \ Listing(r) :
          user[u].name \in Matching => Cardinality(Listing(r)) = LIMIT

(* A list that the first query fills has room for nobody else.             *)
LEMMA FirstQueryLists ==
    ASSUME AccessInv, NEW r \in Pages, SearchPrefix(r), step'[r] = "listed"
    PROVE  ListedWell(r)
  <1> USE DEF AccessInv, Typed, RequestsTyped
  <1>1. PICK l \in Some({u \in Users : user[u].name \in Prefixed}, LIMIT) :
            /\ held' = [held EXCEPT ![r] =
                          [u \in Users |-> IF u \in l THEN 1 ELSE 0]]
            /\ Goto(r, IF Cardinality(l) < LIMIT THEN "search on"
                                                 ELSE "listed")
    BY DEF SearchPrefix
  <1>2. LIMIT \in Nat
    BY AccessAssumption
  <1>3. l \subseteq Users /\ Cardinality(l) \in Nat /\ Cardinality(l) <= LIMIT
    <2>1. PICK us : us = {u \in Users : user[u].name \in Prefixed}
      OBVIOUS
    <2>2. us \in SUBSET Users /\ l \in Some(us, LIMIT)
      BY <2>1
    <2> QED
      BY <1>2, <2>2, SomeCounted
  <1>4. ~(Cardinality(l) < LIMIT)
    BY <1>1, Constants DEF Goto
  <1>5. held'[r] = [u \in Users |-> IF u \in l THEN 1 ELSE 0]
    BY <1>1
  <1>6. Listing(r) = l
    BY <1>3, <1>5 DEF Listing
  <1> QED
    BY <1>2, <1>3, <1>4, <1>5, <1>6 DEF ListedWell

(* The second query leaves out who is listed, and fills the list up.       *)
LEMMA SecondQueryLists ==
    ASSUME AccessInv, NEW r \in Pages, SearchOn(r)
    PROVE  ListedWell(r)
  <1> USE DEF AccessInv, Typed, RequestsTyped
  <1>1. PICK first : first = Listed(r)
    OBVIOUS
  <1>2. /\ held[r] \in [Users -> {0, 1}]
        /\ Cardinality(first) < LIMIT /\ LIMIT \in Nat
    BY <1>1, AccessAssumption DEF SearchOn, PageAt
  <1>3. first = {u \in Users : held[r][u] > 0} /\ first \subseteq Users
    BY <1>1 DEF Listed
  <1>4. IsFiniteSet(first) /\ Cardinality(first) \in Nat
    BY <1>3, AccessAssumption, FS_Subset, FS_CardinalityType
  <1>5. PICK n : n = LIMIT - Cardinality(first)
    OBVIOUS
  <1>6. n \in Nat
    BY <1>2, <1>4, <1>5
  <1>7. PICK others : others = OtherMatches(r)
    OBVIOUS
  <1>8. others = {u \in Users \ first : user[u].name \in Matching}
    BY <1>1, <1>7 DEF OtherMatches
  <1>9. PICK l \in Some(others, n) :
            held' = [held EXCEPT ![r] =
                       [u \in Users |-> @[u] + IF u \in l THEN 1 ELSE 0]]
    BY <1>1, <1>5, <1>7 DEF SearchOn
  <1>10. /\ l \subseteq others /\ IsFiniteSet(l)
         /\ Cardinality(l) \in Nat /\ Cardinality(l) <= n
         /\ l # others => Cardinality(l) = n
    <2>1. others \in SUBSET Users
      BY <1>8
    <2> QED
      BY <1>6, <1>9, <2>1, SomeCounted
  <1>11. l \cap first = {} /\ l \subseteq Users
    BY <1>8, <1>10
  <1>12. \A u \in Users :
            held'[r][u] = held[r][u] + IF u \in l THEN 1 ELSE 0
    BY <1>9
  <1>13. \A u \in Users :
            /\ held'[r][u] <= 1
            /\ held'[r][u] > 0 <=> u \in first \/ u \in l
    BY <1>2, <1>3, <1>11, <1>12
  <1>14. Listing(r) = first \cup l
    BY <1>3, <1>11, <1>13 DEF Listing
  <1>15. Cardinality(Listing(r)) = Cardinality(first) + Cardinality(l)
    <2>1. Cardinality(first \cap l) = 0
      BY <1>11, FS_EmptySet
    <2>2. Cardinality(first \cup l) =
            Cardinality(first) + Cardinality(l) - Cardinality(first \cap l)
      BY <1>4, <1>10, FS_Union
    <2> QED
      BY <1>4, <1>10, <1>14, <2>1, <2>2
  <1>16. Cardinality(Listing(r)) <= LIMIT
    BY <1>2, <1>4, <1>5, <1>10, <1>15
  <1>17. ASSUME NEW u \in Users \ Listing(r), user[u].name \in Matching
         PROVE  Cardinality(Listing(r)) = LIMIT
    <2>1. u \in others /\ u \notin l
      BY <1>8, <1>14, <1>17
    <2>2. Cardinality(l) = n
      BY <1>10, <2>1
    <2> QED
      BY <1>2, <1>4, <1>5, <1>15, <2>2
  <1> QED
    BY <1>13, <1>16, <1>17 DEF ListedWell

(* A search lists nobody twice and no more accounts than it may, and nobody*)
(* whose name matches is missing from a list with room left, though        *)
(* accounts are renamed between its two queries.                           *)
THEOREM SearchesListOnce == Spec => ListedOnce
  <1>1. AccessInv /\ [Next]_vars =>
          [\A r \in Pages :
              step[r] # step'[r] /\ step'[r] = "listed" =>
                  LET list == {u \in Users : held'[r][u] > 0} IN
                  /\ \A u \in Users : held'[r][u] <= 1
                  /\ Cardinality(list) <= LIMIT
                  /\ \A u \in Users \ list :
                        user[u].name \in Matching =>
                            Cardinality(list) = LIMIT]_vars
    <2> SUFFICES ASSUME AccessInv, [Next]_vars, NEW r \in Pages,
                        step[r] # step'[r], step'[r] = "listed"
                 PROVE  ListedWell(r)
      BY DEF ListedWell, Listing
    <2>1. ~Kept(r)
      BY DEF Kept
    <2>2. RequestMoves(r)
      BY <2>1, Constants, StepKinds, AllKept, OthersKept DEF AccessInv
    <2>3. SearchPrefix(r) \/ SearchOn(r)
      <3>1. r \notin Desk \cup Clerk /\ r \in Requests
        BY Constants
      <3>2. DOMAIN step = Requests
        BY DEF AccessInv, Typed, RequestsTyped
      <3> QED
        BY <2>2, <3>1, <3>2
        DEF RequestMoves, Begin, require_auth, require_role, ViewerRead,
            Page, EditRead, ProfileRead, Save, SaveFail, Goto, Refuse
    <2> QED
      BY <2>3, FirstQueryLists, SecondQueryLists
  <1> QED
    BY <1>1, Invariance, PTL DEF Spec, ListedOnce

-----------------------------------------------------------------------------
(* Who has lost the role stays out.                                        *)

(* A cookie stands for nobody that it did not stand for before, unless a   *)
(* key changes hands.                                                      *)
LEMMA StandsForLess ==
    ASSUME [Next]_vars, holder' = holder, NEW c
    PROVE  StandsFor(c)' \subseteq StandsFor(c)
  <1>1. live' \subseteq live
    <2>1. ASSUME NEW r \in Requests, RequestMoves(r)
          PROVE  live' = live
      BY <2>1
      DEF RequestMoves, Begin, require_auth, require_role, Handle, DeskWork,
          ViewerRead, Page, EditRead, ProfileRead, Save, SaveFail,
          SearchPrefix, SearchOn, accounts
    <2>2. ASSUME Meanwhile \/ UNCHANGED vars
          PROVE  live' \subseteq live
      BY <2>2 DEF Meanwhile, Expire, KeyChange, vars, accounts
    <2> QED
      BY <2>1, <2>2, StepKinds
  <1> QED
    BY <1>1 DEF StandsFor

(* A viewer that is read for such a cookie has no role.                    *)
LEMMA NoRole ==
    ASSUME AccountsTyped, NEW c \in Sessions \cup {None},
           \A u \in StandsFor(c) : ~user[u].admin
    PROVE  ~HasRole(current_user_ref(c))
  BY ViewerIs DEF HasRole

(* Requests that carry the cookie and do not use the role do not begin to. *)
LEMMA RoleNotGained ==
    ASSUME AccessInv, Observe, NEW c \in Sessions, Barred(c),
           NEW r \in Requests, RequestMoves(r), cookie'[r] = c
    PROVE  ~UsesRole(r)'
  <1> USE DEF AccessInv, Typed, DeskTyped, RequestsTyped
  <1>1. /\ DOMAIN step = Requests /\ DOMAIN cookie = Requests
        /\ held = [p \in Pages |-> held[p]]
        /\ c # None
    BY Constants
  <1>2. \A u \in StandsFor(c) : ~user[u].admin
    BY DEF Barred
  <1>3. PICK v : v = current_user_ref(c)
    OBVIOUS
  <1>4. v # None => ~v.admin
    BY <1>2, <1>3, NoRole DEF HasRole
  <1>5. cookie[r] = c => ~UsesRole(r)
    BY DEF Barred
  <1>6. ASSUME step'[r] \in {"auth", "role", "profile", "rename", "shown",
                             "saved", "listed", "refused"}
        PROVE  ~UsesRole(r)'
    BY <1>6 DEF UsesRole
  <1>7. CASE Begin(r)
    BY <1>1, <1>6, <1>7 DEF Begin, Goto
  <1>8. CASE require_auth(r)
    <2>1. \/ step'[r] \in {"refused", "role"}
          \/ step'[r] = "viewer" /\ r \notin Clerk
      BY <1>1, <1>8, Constants DEF require_auth, Goto, Refuse
    <2> QED
      BY <1>6, <2>1 DEF UsesRole
  <1>9. CASE require_role(r)
    <2>1. \/ step'[r] = "refused"
          \/ cookie'[r] = cookie[r] /\ HasRole(current_user_ref(cookie[r]))
      BY <1>1, <1>9 DEF require_role, Goto, Refuse
    <2>2. step'[r] = "refused"
      BY <1>3, <1>4, <2>1 DEF HasRole
    <2> QED
      BY <1>6, <2>2
  <1>10. CASE r \in Desk \cup Clerk /\ Handle(r)
    <2>1. CASE Refuse(r)
      BY <1>1, <1>6, <2>1 DEF Refuse, Goto
    <2>2. CASE HandlerStarts(r)
      <3>1. /\ step[r] = "viewer" /\ step'[r] = "handler"
            /\ cookie[r] = c
        BY <1>1, <2>2 DEF HandlerStarts
      <3>2. r \notin Clerk
        BY <1>5, <3>1 DEF UsesRole
      <3>3. pc'[r] = "find" /\ form'[r].by = v
        BY <1>3, <1>10, <2>2, <3>1, <3>2 DEF HandlerStarts
      <3> QED
        BY <1>4, <3>1, <3>3 DEF UsesRole
    <2> QED
      BY <1>10, <2>1, <2>2, HandleMoves
  <1>11. CASE r \in Desk \cup Clerk /\ DeskWork(r)
    <2>1. CASE r \in Desk
      <3>1. DeskWorks(r)
        BY <1>11, <2>1, DeskMoves
      <3>2. step[r] = "handler" /\ step'[r] = "handler"
        BY <2>1, <3>1 DEF DeskWorks, DeskAt
      <3>3. /\ pc[r] \in {"find", "save"} /\ form'[r] = form[r]
            /\ pc'[r] # "insert"
        BY <3>1 DEF DeskWorks
      <3>4. cookie[r] = c
        BY <1>1, <1>11 DEF DeskWork
      <3>5. ~(form[r].by # None /\ form[r].by.admin)
        BY <1>5, <3>2, <3>3, <3>4 DEF UsesRole
      <3> QED
        BY <3>2, <3>3, <3>5 DEF UsesRole
    <2>2. CASE r \in Clerk
      <3>1. pc[r] = "insert" /\ step[r] = "handler"
        BY <1>11, <2>2, ClerkMoves DEF ClerkWorks, ClerkAt
      <3>2. cookie[r] = c
        BY <1>1, <1>11 DEF DeskWork
      <3> QED
        BY <1>5, <3>1, <3>2 DEF UsesRole
    <2> QED
      BY <1>11, <2>1, <2>2
  <1>12. CASE r \in Pages /\ ViewerRead(r)
    <2>1. CASE Refuse(r)
      BY <1>1, <1>6, <2>1 DEF Refuse, Goto
    <2>2. CASE ~Refuse(r)
      <3>1. /\ cookie[r] = c
            /\ step'[r] = "page" /\ held'[r] = current_user_ref(cookie[r])
            /\ current_user_ref(cookie[r]) # None
        BY <1>1, <1>12, <2>2 DEF ViewerRead, Goto
      <3> QED
        BY <1>3, <1>4, <3>1 DEF UsesRole
    <2> QED
      BY <2>1, <2>2
  <1>13. CASE r \in Pages /\ (Page(r) \/ Save(r) \/ SaveFail(r))
    BY <1>1, <1>6, <1>13 DEF Page, Save, SaveFail, Goto, Refuse
  <1>14. CASE r \in Pages /\ EditRead(r)
    <2>1. CASE Refuse(r)
      BY <1>1, <1>6, <2>1 DEF Refuse, Goto
    <2>2. CASE ~Refuse(r)
      BY <1>5, <1>14, <2>2 DEF EditRead, UsesRole
    <2> QED
      BY <2>1, <2>2
  <1>15. CASE r \in Pages /\ ProfileRead(r)
    BY <1>1, <1>6, <1>15 DEF ProfileRead, Goto, Refuse
  <1>16. CASE r \in Pages /\ (SearchPrefix(r) \/ SearchOn(r))
    BY <1>5, <1>16 DEF SearchPrefix, SearchOn, UsesRole
  <1> QED
    BY <1>7, <1>8, <1>9, <1>10, <1>11, <1>12, <1>13, <1>14, <1>15, <1>16
    DEF RequestMoves

(* A request that takes no step uses the role no more than before.         *)
LEMMA RoleKept ==
    ASSUME AccessInv, NEW r \in Requests, Kept(r)
    PROVE  UsesRole(r)' => UsesRole(r)
  <1>1. /\ step[r] = "page" => r \in Pages
        /\ step[r] = "handler" => r \in Desk \cup Clerk
    BY Constants DEF AccessInv, DeskAt, ClerkAt, PageAt, HandlerSteps
  <1> QED
    BY <1>1 DEF Kept, UsesRole

(* A session whose account has lost the role, whose key is gone or whose   *)
(* time is up gets no administrator's rights again until the role is given *)
(* to the account or a key changes hands, once the requests that had been  *)
(* let in are over.                                                        *)
THEOREM BarredAreOut == Spec => BarredStaysOut
  <1>1. AccessInv /\ [Next]_vars =>
          [\A c \in Sessions :
              Barred(c) =>
                  \/ Barred(c)'
                  \/ holder' # holder
                  \/ \E u \in StandsFor(c) : user'[u].admin]_vars
    <2> SUFFICES ASSUME AccessInv, [Next]_vars,
                        NEW c \in Sessions, Barred(c), holder' = holder,
                        \A u \in StandsFor(c) : ~user'[u].admin
                 PROVE  Barred(c)'
      OBVIOUS
    <2>1. \A u \in StandsFor(c)' : ~user'[u].admin
      BY StandsForLess
    <2>2. ASSUME NEW r \in Requests, cookie'[r] = c
          PROVE  ~UsesRole(r)'
      <3>1. CASE Kept(r)
        <4>1. cookie[r] = c
          BY <2>2, <3>1 DEF Kept
        <4> QED
          BY <3>1, <4>1, RoleKept DEF Barred
      <3>2. CASE Observe /\ RequestMoves(r)
        BY <2>2, <3>2, RoleNotGained
      <3> QED
        BY <3>1, <3>2, StepKinds, AllKept, OthersKept DEF AccessInv
    <2> QED
      BY <2>1, <2>2 DEF Barred
  <1> QED
    BY <1>1, Invariance, PTL DEF Spec, BarredStaysOut
=============================================================================
