------------------------------- MODULE Access -------------------------------
(***************************************************************************)
(* Who a request acts for.  A request carries a session cookie, and the    *)
(* service asks the database anew, each time it wants to know, whose       *)
(* session that is: in require_auth, again in require_role, and again for  *)
(* the viewer that the handler is given (service/routes.py,                *)
(* service/auth.py).  Between two of these reads roles are edited, a FIDO2 *)
(* key is taken from one account and registered in another, or the cookie  *)
(* turns twelve hours old.  The requests:                                  *)
(*   Desk     POST /redeem     require_auth, viewer, TicketDesk's Desk     *)
(*   Clerk    POST /issue      require_admin, viewer, TicketDesk's Clerk   *)
(*   Pages    POST /admin/user/view    require_admin, read, save           *)
(*            POST /authn/display-name session user, save                  *)
(*            GET /ticket, /tickets    require_auth, viewer, page          *)
(*            GET /users/search        require_admin, two queries          *)
(* The tickets are those of TicketDesk, which this module composes with.   *)
(* The process is not in registration mode (see Credentials, StartUp).     *)
(* Signing out only makes the browser forget its cookie.                   *)
(***************************************************************************)
EXTENDS Naturals, Sequences, FiniteSets

CONSTANTS
    Desk, Clerk, Users, Names, Codes, FormCodes, TicketIds,
    MAX_TICKETS, MAX_CODE_ATTEMPTS, None,   \* as in TicketDesk
    Pages,          \* the other requests
    Searches,       \* those of them that may be searches
    Sessions,       \* the session cookies in browsers
    Keys,           \* FIDO2 keys
    names,          \* what a cookie names: a key ("serial") or a "user_id"
    DisplayNames,   \* what an account can be called; None is no name
    Prefixed,       \* the names that begin with what is searched for
    Matching,       \* the names it occurs in
    LIMIT           \* most accounts a search lists

Requests == Desk \cup Clerk \cup Pages

ASSUME AccessAssumption ==
    /\ Pages \cap (Desk \cup Clerk) = {} /\ Searches \subseteq Pages
    /\ Users \cap Keys = {} /\ IsFiniteSet(Users)
    /\ Prefixed \subseteq Matching /\ Matching \subseteq DisplayNames \ {None}
    /\ LIMIT \in Nat \ {0}
    /\ names \in [Sessions -> Keys \cup Users]
    /\ None \notin Requests \cup Sessions \cup Keys

Account == [admin : BOOLEAN, name : DisplayNames]
Changes == [id : Users, read : Account, new : Account]

VARIABLES
    ticket, pc, form, loaded, results, bearer, issued,  \* of TicketDesk
    user,       \* the user collection: role and display name
    holder,     \* the account that a FIDO2 key is registered in
    live,       \* the cookies not yet twelve hours old
    step,       \* how far a request has come before its handler
    cookie,     \* the cookie it carries
    held,       \* the viewer its page is for, the document it will save, or
                \* how often each account is on its list
    shown,      \* the tickets on the page it was answered with
    seen        \* history: whom its cookie stood for when it was read

desk == <<ticket, pc, form, loaded, results, bearer, issued>>
accounts == <<user, holder, live>>
requests == <<step, cookie, held, shown>>
vars == <<desk, accounts, requests, seen>>

TheDesk == INSTANCE TicketDesk WITH Partner <- {}

(* What TicketDesk assumes of its constants.                               *)
ASSUME DeskAssumption ==
    /\ Desk \cap Clerk = {} /\ Users \cap Names = {}
    /\ None \notin Users \cup Names \cup Codes \cup TicketIds
    /\ None \notin TheDesk!Viewers \cup TheDesk!Redemption
    /\ None \notin TheDesk!IssueData \cup TheDesk!Ticket
    /\ FormCodes \subseteq Seq(Codes)
    /\ MAX_TICKETS \in Nat /\ MAX_CODE_ATTEMPTS \in Nat \ {0}

Viewer(u) == [id |-> u, admin |-> user[u].admin]

Init ==
    /\ TheDesk!Init
    /\ user \in [Users -> Account]
    /\ holder \in [Keys -> Users \cup {None}]
    /\ live = Sessions
    /\ step = [r \in Requests |-> "idle"]
    /\ cookie = [r \in Requests |-> None]
    /\ held = [r \in Pages |-> None]
    /\ shown = [r \in Pages |-> {}]
    /\ seen = [r \in Requests |-> {}]

-----------------------------------------------------------------------------
(* The session.                                                            *)

(* Mutant: a cookie is good for as long as the browser keeps it.           *)
NoAge(c) == c # None

Fresh(c) == c \in live

_session_user(c) ==
    IF ~Fresh(c) THEN None
    ELSE IF names[c] \in Users THEN names[c] ELSE holder[names[c]]

(* A cookie has a serial or a user_id, never both, so _is_authenticated    *)
(* looks for the same account.                                             *)
_is_authenticated(c) == _session_user(c) # None

current_user_ref(c) ==
    IF _session_user(c) = None THEN None ELSE Viewer(_session_user(c))

-----------------------------------------------------------------------------
(* The guards.                                                             *)

Goto(r, where) == step' = [step EXCEPT ![r] = where]

(* The request is answered without the handler having done anything: the   *)
(* guard refuses it, or there is no viewer any more where one is used.     *)
Refuse(r) ==
    /\ Goto(r, "refused")
    /\ cookie' = [cookie EXCEPT ![r] = None]

Begin(r) ==
    /\ step[r] = "idle"
    /\ \E c \in Sessions : cookie' = [cookie EXCEPT ![r] = c]
    /\ \/ r \in Desk \cup Clerk /\ Goto(r, "auth")
       \/ r \in Pages /\ Goto(r, "profile")
       \/ r \in Pages /\ Goto(r, "auth")
    /\ UNCHANGED <<desk, accounts, held, shown>>

require_auth(r) ==
    /\ step[r] = "auth"
    /\ \/ ~_is_authenticated(cookie[r]) /\ Refuse(r)
       \/ /\ _is_authenticated(cookie[r])
          /\ UNCHANGED cookie
          /\ \/ r \in Desk \cup Pages /\ Goto(r, "viewer")
             \/ r \in Clerk \cup Pages /\ Goto(r, "role")
    /\ UNCHANGED <<desk, accounts, held, shown>>

(* Mutant: any account has the role.                                       *)
AnyRole(v) == v # None

HasRole(v) == v # None /\ v.admin

require_role(r) ==
    LET v == current_user_ref(cookie[r]) IN
    /\ step[r] = "role"
    /\ \/ ~HasRole(v) /\ Refuse(r)
       \/ /\ HasRole(v)
          /\ UNCHANGED cookie
          /\ \/ r \in Clerk /\ Goto(r, "viewer")
             \/ r \in Pages /\ Goto(r, "edit")
             \/ r \in Searches /\ Goto(r, "search")
    /\ UNCHANGED <<desk, accounts, held, shown>>

-----------------------------------------------------------------------------
(* The handlers.                                                           *)

(* The viewer is read once more and handed to issue or redeem; a form      *)
(* these refuse leaves nothing behind.                                     *)
Handle(r) ==
    LET v == current_user_ref(cookie[r]) IN
    /\ step[r] = "viewer"
    /\ \/ Refuse(r) /\ UNCHANGED desk
       \/ /\ \/ /\ r \in Desk
                /\ TheDesk!DeskBegin(r)
                /\ form'[r].by = v
             \/ /\ r \in Clerk
                /\ TheDesk!ClerkBegin(r)
                /\ form'[r].by = IF v = None THEN None ELSE v.id
          /\ pc'[r] \in TheDesk!Working
          /\ Goto(r, "handler")
          /\ UNCHANGED cookie
    /\ UNCHANGED <<accounts, held, shown>>

Issued(t) == ticket[t] # None

(* Mutant: the ticket is shown to whoever is signed in.                    *)
VisibleToAll(v, t) == v # None

Visible(v, t) == v.admin \/ ticket[t].issued_to = v.id

ViewerRead(r) ==
    LET v == current_user_ref(cookie[r]) IN
    /\ step[r] = "viewer"
    /\ r \in Pages
    /\ \/ v = None /\ Refuse(r) /\ UNCHANGED held
       \/ /\ v # None
          /\ held' = [held EXCEPT ![r] = v]
          /\ Goto(r, "page")
          /\ UNCHANGED cookie
    /\ UNCHANGED <<desk, accounts, shown>>

(* The page of a ticket, and the page of an owner, which an administrator  *)
(* chooses and anyone else is.  An unknown ticket is refused; without an   *)
(* owner there is the list of owners, or an error: no ticket is shown.     *)
Page(r) ==
    LET v == held[r] IN
    /\ step[r] = "page"
    /\ \/ Refuse(r) /\ UNCHANGED shown
       \/ /\ \/ \E t \in {u \in TicketIds : Issued(u)} :
                   Visible(v, t) /\ shown' = [shown EXCEPT ![r] = {t}]
             \/ \E owner \in IF v.admin THEN Users \cup Names ELSE {v.id} :
                   shown' = [shown EXCEPT ![r] =
                     {t \in TicketIds : /\ Issued(t)
                                        /\ ticket[t].redeemed = None
                                        /\ ticket[t].issued_to = owner}]
          /\ Goto(r, "shown")
          /\ cookie' = [cookie EXCEPT ![r] = None]
    /\ held' = [held EXCEPT ![r] = None]
    /\ UNCHANGED <<desk, accounts>>

Assign(r, u, a) ==
    held' = [held EXCEPT ![r] = [id |-> u, read |-> user[u], new |-> a]]

(* The form has the role and the name, whichever of them was meant to be   *)
(* changed.                                                                *)
EditRead(r) ==
    /\ step[r] = "edit"
    /\ \/ Refuse(r) /\ UNCHANGED held
       \/ /\ \E u \in Users, a \in Account :
                a.name # None /\ Assign(r, u, a)
          /\ Goto(r, "save")
          /\ UNCHANGED cookie
    /\ UNCHANGED <<desk, accounts, shown>>

ProfileRead(r) ==
    LET u == _session_user(cookie[r]) IN
    /\ step[r] = "profile"
    /\ \/ Refuse(r) /\ UNCHANGED held
       \/ /\ u # None
          /\ \E name \in DisplayNames :
                Assign(r, u, [user[u] EXCEPT !.name = name])
          /\ Goto(r, "rename")
          /\ UNCHANGED cookie
    /\ UNCHANGED <<desk, accounts, shown>>

(* Mutant: the document is written whole.                                  *)
WholeDocument(old, x) == x.new

(* save() writes the fields that were given another value than was read.   *)
ChangedFields(old, x) ==
    [f \in {"admin", "name"} |-> IF x.new[f] = x.read[f] THEN old[f]
                                                         ELSE x.new[f]]

Save(r) ==
    LET x == held[r] IN
    /\ step[r] \in {"save", "rename"}
    /\ user' = [user EXCEPT ![x.id] = ChangedFields(@, x)]
    /\ Goto(r, "saved")
    /\ cookie' = [cookie EXCEPT ![r] = None]
    /\ held' = [held EXCEPT ![r] = None]
    /\ UNCHANGED <<desk, holder, live, shown>>

(* The database raises before the document is written.                     *)
SaveFail(r) ==
    /\ step[r] \in {"save", "rename"}
    /\ Refuse(r)
    /\ held' = [held EXCEPT ![r] = None]
    /\ UNCHANGED <<desk, accounts, shown>>

(* The first accounts, up to n, of a query.                                *)
Some(us, n) ==
    {l \in SUBSET us :
        Cardinality(l) = IF Cardinality(us) < n THEN Cardinality(us) ELSE n}

SearchPrefix(r) ==
    /\ step[r] = "search"
    /\ \E l \in Some({u \in Users : user[u].name \in Prefixed}, LIMIT) :
        /\ held' = [held EXCEPT ![r] =
                      [u \in Users |-> IF u \in l THEN 1 ELSE 0]]
        /\ Goto(r, IF Cardinality(l) < LIMIT THEN "search on" ELSE "listed")
    /\ UNCHANGED <<desk, accounts, cookie, shown>>

Listed(r) == {u \in Users : held[r][u] > 0}

(* Mutant: the second query does not ask for id__nin.                      *)
AllMatches(r) == {u \in Users : user[u].name \in Matching}

OtherMatches(r) == {u \in Users \ Listed(r) : user[u].name \in Matching}

SearchOn(r) ==
    /\ step[r] = "search on"
    /\ \E l \in Some(OtherMatches(r), LIMIT - Cardinality(Listed(r))) :
        held' = [held EXCEPT ![r] =
                   [u \in Users |-> @[u] + IF u \in l THEN 1 ELSE 0]]
    /\ Goto(r, "listed")
    /\ UNCHANGED <<desk, accounts, cookie, shown>>

-----------------------------------------------------------------------------
(* Meanwhile.                                                              *)

(* A cookie turns twelve hours old, or the process restarts.               *)
Expire(c) ==
    /\ c \in live
    /\ live' = live \ {c}
    /\ UNCHANGED <<desk, user, holder, requests>>

(* A key is removed from an account, or added to one (Credentials).        *)
KeyChange(k) ==
    /\ \E u \in Users \cup {None} :
        /\ holder[k] = None \/ u = None
        /\ holder' = [holder EXCEPT ![k] = u]
    /\ UNCHANGED <<desk, user, live, requests>>

DeskWork(r) ==
    /\ \/ r \in Desk /\ (TheDesk!DeskStep(r) \/ TheDesk!DeskFail(r))
       \/ r \in Clerk /\ (TheDesk!ClerkStep(r) \/ TheDesk!ClerkFail(r))
    /\ cookie' = [cookie EXCEPT ![r] =
                     IF pc'[r] \in TheDesk!Ended THEN None ELSE @]
    /\ UNCHANGED <<accounts, step, held, shown>>

(* The accounts a cookie stands for.                                       *)
StandsFor(c) ==
    {u \in Users :
        /\ c \in live
        /\ names[c] = u \/ \E k \in Keys : names[c] = k /\ holder[k] = u}

(* What a request that is over has seen is forgotten.                      *)
Observe ==
    seen' = [r \in Requests |->
      CASE step'[r] \in {"refused", "saved"} -> {}
        [] /\ step[r] \in {"auth", "role", "viewer", "profile"}
           /\ step'[r] \notin {step[r], "refused", "saved"} ->
             seen[r] \cup {Viewer(u) : u \in StandsFor(cookie[r])}
        [] OTHER -> seen[r]]

Next ==
    /\ \/ \E r \in Requests : Begin(r) \/ require_auth(r) \/ require_role(r)
       \/ \E r \in Desk \cup Clerk : Handle(r) \/ DeskWork(r)
       \/ \E r \in Pages : \/ ViewerRead(r) \/ Page(r)
                          \/ EditRead(r) \/ ProfileRead(r)
                          \/ Save(r) \/ SaveFail(r)
                          \/ SearchPrefix(r) \/ SearchOn(r)
       \/ \E c \in Sessions : Expire(c)
       \/ \E k \in Keys : KeyChange(k)
    /\ Observe

Spec == Init /\ [][Next]_vars

-----------------------------------------------------------------------------
(* Properties.                                                             *)

(* When request r read its cookie, it stood for an administrator; for an   *)
(* account that may have the ticket t.                                     *)
SawAdmin(r) == \E v \in seen[r] : v.admin
SawEntitled(r, t) ==
    \E v \in seen[r] : v.admin \/ ticket[t].issued_to = v.id

(* Whatever a request does, it does for whom its cookie stood for on the   *)
(* way: a ticket in the collection was issued under the name of such an    *)
(* account by a request that was an administrator's, a ticket redeemed at  *)
(* the desk was redeemed by one who owned it or was an administrator, and  *)
(* a page shows nobody else's tickets, though the three reads of the       *)
(* session (routes.py:186-191) may all have different results.             *)
ActsForItsSession ==
    /\ \A t \in {u \in TicketIds : Issued(u)} :
        /\ \E r \in Clerk :
              /\ SawAdmin(r)
              /\ \E v \in seen[r] : v.id = ticket[t].issued_by
        /\ ticket[t].redeemed # None =>
              \E v \in seen[ticket[t].redeemed.req] :
                  /\ v.id = ticket[t].redeemed.by
                  /\ v.admin \/ ticket[t].issued_to = v.id
    /\ \A r \in Pages : \A t \in shown[r] : SawEntitled(r, t)

(* The request is past its last look at the role, and may still use it.    *)
UsesRole(r) ==
    \/ step[r] \in {"edit", "save", "search", "search on"}
    \/ step[r] = "viewer" /\ r \in Clerk
    \/ step[r] = "page" /\ held[r].admin
    \/ step[r] = "handler" /\ pc[r] = "insert"
    \/ /\ step[r] = "handler" /\ pc[r] \in {"find", "save"}
       /\ form[r].by # None /\ form[r].by.admin

(* The cookie stands for no administrator, and no request that carries it  *)
(* was let in as one.                                                      *)
Barred(c) ==
    /\ \A u \in StandsFor(c) : ~user[u].admin
    /\ \A r \in Requests : cookie[r] = c => ~UsesRole(r)

(* Who loses the role, the key or the session is out once the requests     *)
(* then under way have ended: no request gets an administrator's rights    *)
(* until an administrator gives the account the role, or the key to an     *)
(* account that has it (auth.py:544-552, admin_users.py:178).              *)
BarredStaysOut ==
    [][\A c \in Sessions :
          Barred(c) =>
              \/ Barred(c)'
              \/ holder' # holder
              \/ \E u \in StandsFor(c) : user'[u].admin]_vars

(* A role, or a name, changes only because the request that saves it asked *)
(* for this value and had read another one: a role in an edit by an        *)
(* administrator, a name in such an edit or by the account itself.  What   *)
(* another save changed meanwhile is not taken back by a request that      *)
(* leaves it as it was read, though it saves the same document             *)
(* (admin_users.py:176-201, auth.py:535-543).  A form that an              *)
(* administrator opened before that other save does ask for the old value, *)
(* and takes it back.                                                      *)
OnlyAsAsked ==
    [][\A u \in Users, f \in {"admin", "name"} :
          user'[u][f] # user[u][f] =>
              \E r \in Pages :
                  /\ step'[r] = "saved" /\ step[r] # step'[r]
                  /\ held[r].id = u
                  /\ held[r].new[f] = user'[u][f]
                  /\ held[r].new[f] # held[r].read[f]
                  /\ \/ step[r] = "save" /\ SawAdmin(r)
                     \/ /\ step[r] = "rename" /\ f = "name"
                        /\ \E v \in seen[r] : v.id = u]_vars

(* A search lists nobody twice and no more than LIMIT accounts, and leaves *)
(* out an account whose name matches when the search ends only if the list *)
(* is full, whoever is renamed into the match, out of it, or from one      *)
(* query's part to the other's in between (search_users.py:10-23).         *)
ListedOnce ==
    [][\A r \in Pages :
          step[r] # step'[r] /\ step'[r] = "listed" =>
              LET list == {u \in Users : held'[r][u] > 0} IN
              /\ \A u \in Users : held'[r][u] <= 1
              /\ Cardinality(list) <= LIMIT
              /\ \A u \in Users \ list :
                    user[u].name \in Matching =>
                        Cardinality(list) = LIMIT]_vars
=============================================================================
