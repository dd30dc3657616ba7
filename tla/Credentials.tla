---------------------------- MODULE Credentials ----------------------------
(***************************************************************************)
(* The credentials of the accounts: FIDO2 keys, Google and Microsoft       *)
(* addresses, each kind a list in the user document.  Every handler that   *)
(* changes a list reads the document, computes the new list from its copy  *)
(* and saves that list whole.  The requests:                               *)
(*   Links      _fido2.add_credential, google.complete, microsoft.complete *)
(*   Removes    remove_credential, remove, admin_users.update_user         *)
(*   Creates    admin_users.create_user                                    *)
(*   Registers  register.complete_register, in registration mode           *)
(* A link starts in a session, leaves for an authenticator or another      *)
(* site, and comes back with whatever session the browser then has.  The   *)
(* order of a list never matters, so lists are sets.                       *)
(***************************************************************************)
EXTENDS Naturals, FiniteSets

CONSTANTS
    Links, Removes, Creates, Registers, \* the requests of each kind
    Accounts,                           \* ids of user documents
    Keys, Googles, Microsofts,          \* the credentials of each kind
    MaxRestarts,                        \* a bound on restarts
    None

Requests == Links \cup Removes \cup Creates \cup Registers
Items == Keys \cup Googles \cup Microsofts

ASSUME CredentialKindsAssumption ==
    /\ Links \cap Removes = {} /\ (Links \cup Removes) \cap Creates = {}
    /\ (Links \cup Removes \cup Creates) \cap Registers = {}
    /\ Keys \cap Googles = {} /\ (Keys \cup Googles) \cap Microsofts = {}
    /\ Items \cap Accounts = {}
    /\ None \notin Requests \cup Accounts \cup Items
    /\ \A list \in SUBSET Items : list # None

ASSUME RestartsAssumption == MaxRestarts \in Nat

(* The list of the document the item belongs to.                           *)
ListOf(x) == CHOOSE l \in {Keys, Googles, Microsofts} : x \in l

(* A session cookie names a FIDO2 key ("serial") or an account ("user_id").*)
(* A begun link or registration is a signed state; every process draws its *)
(* own secret, so the number of restarts stands for the one that signed it.*)
Cookies == Keys \cup Accounts
Flow == [item : Items \cup {None}, user : Accounts \cup {None},
         secret : 0..MaxRestarts]
Copies == [id : Accounts, doc : (SUBSET Items) \cup {None}]

VARIABLES
    user,       \* the user collection: the credentials of each document
    cookies,    \* the session cookies the running process has signed
    register,   \* registration_mode of the running process
    restarts,   \* how often the service was restarted
    pc,         \* where each request is, or how it was answered
    flow,       \* what it is about, and the state it was begun with
    copy        \* the document it has read

vars == <<user, cookies, register, restarts, pc, flow, copy>>

Goto(r, where) == pc' = [pc EXCEPT ![r] = where]
Load(r, u) == copy' = [copy EXCEPT ![r] = [id |-> u, doc |-> user[u]]]

NoFlow == [item |-> None, user |-> None, secret |-> 0]

(* A request ends: what its thread knew is forgotten.                      *)
Answer(r, how) ==
    /\ Goto(r, how)
    /\ flow' = [flow EXCEPT ![r] = NoFlow]
    /\ copy' = [copy EXCEPT ![r] = None]

Exists(u) == user[u] # None
Owners(x) == {u \in Accounts : Exists(u) /\ x \in user[u]}

(* _session_user: the account of the cookie a request came with.           *)
SessionUsers ==
    {None} \cup {u \in Accounts :
                   \/ u \in cookies /\ Exists(u)
                   \/ \E k \in Keys \cap cookies : u \in Owners(k)}

(* The unique indexes refuse a list with an item of another document.      *)
Refused(u, list) == \E x \in list : Owners(x) \ {u} # {}

(* user.save() after one list was assigned writes that list and no other.  *)
SaveList(u, l, list) == user' = [user EXCEPT ![u] = (@ \ l) \cup list]

Init ==
    /\ user \in {d \in [Accounts -> (SUBSET Items) \cup {None}] :
                   \A u, v \in Accounts :
                     u = v \/ d[u] = None \/ d[v] = None
                       \/ d[u] \cap d[v] = {}}
    /\ cookies = {}
    /\ register \in BOOLEAN
    /\ restarts = 0
    /\ pc = [r \in Requests |-> "idle"]
    /\ flow = [r \in Requests |-> NoFlow]
    /\ copy = [r \in Requests |-> None]

-----------------------------------------------------------------------------
(* Signing in, where no document is written.                               *)

KeySignIn ==
    /\ ~register
    /\ \E k \in Keys \ cookies :
        /\ Owners(k) # {}
        /\ cookies' = cookies \cup {k}
    /\ UNCHANGED <<user, register, restarts, pc, flow, copy>>

(* By a code sent to the account's address.                                *)
CodeSignIn ==
    /\ ~register
    /\ \E u \in Accounts \ cookies :
        /\ Exists(u)
        /\ cookies' = cookies \cup {u}
    /\ UNCHANGED <<user, register, restarts, pc, flow, copy>>

-----------------------------------------------------------------------------
(* Linking.                                                                *)

(* The signed state remembers who began.  The page offers the registration *)
(* of a key only in a session.                                             *)
LinkBegin(r) ==
    /\ pc[r] = "idle"
    /\ ~register
    /\ \E x \in Items, s \in SessionUsers :
        /\ x \in Keys => s # None
        /\ flow' = [flow EXCEPT ![r] = [item |-> x, user |-> s,
                                        secret |-> restarts]]
    /\ Goto(r, "away")
    /\ UNCHANGED <<user, cookies, register, restarts, copy>>

(* Mutant: the state is not compared with the session at the return.       *)
LinkReturnAnyUser(r) ==
    LET x == flow[r].item IN
    /\ pc[r] = "away"
    /\ flow[r].secret = restarts
    /\ \E s \in SessionUsers \ {None} :
        /\ Load(r, s)
        /\ Goto(r, IF x \in Keys THEN "taken" ELSE "save")
    /\ UNCHANGED <<user, cookies, register, restarts, flow>>

(* The state still bears the signature of the running process.             *)
LinkReturn(r) ==
    LET x == flow[r].item IN
    /\ pc[r] = "away"
    /\ flow[r].secret = restarts
    /\ \E s \in SessionUsers :
        \/ /\ s = None \/ s # flow[r].user
           /\ x \in Keys
           /\ Answer(r, "forbidden")
        \/ /\ s = None \/ s # flow[r].user
           /\ x \notin Keys
           /\ Goto(r, "lookup")
           /\ UNCHANGED <<flow, copy>>
        \/ /\ s # None /\ s = flow[r].user
           /\ x \notin Keys /\ x \in user[s]
           /\ Answer(r, "conflict")
        \/ /\ s # None /\ s = flow[r].user
           /\ x \notin Keys => x \notin user[s]
           /\ Load(r, s)
           /\ Goto(r, IF x \in Keys THEN "taken" ELSE "save")
           /\ UNCHANGED flow
    /\ UNCHANGED <<user, cookies, register, restarts>>

(* The state is missing, too old or signed by an earlier process, or the   *)
(* authenticator's or the other site's answer is not accepted.             *)
LinkRefused(r) ==
    /\ pc[r] = "away"
    /\ Answer(r, "forbidden")
    /\ UNCHANGED <<user, cookies, register, restarts>>

(* A second read looks for the key in all documents.                       *)
LinkTaken(r) ==
    /\ pc[r] = "taken"
    /\ \/ Owners(flow[r].item) # {} /\ Answer(r, "conflict")
       \/ /\ Owners(flow[r].item) = {}
          /\ Goto(r, "save")
          /\ UNCHANGED <<flow, copy>>
    /\ UNCHANGED <<user, cookies, register, restarts>>

(* Mutant: the session names the address of the other site.                *)
LinkLookupAddress(r) ==
    /\ pc[r] = "lookup"
    /\ Owners(flow[r].item) # {}
    /\ cookies' = cookies \cup {flow[r].item}
    /\ Answer(r, "signed_in")
    /\ UNCHANGED <<user, register, restarts>>

(* Without the session it began in, the answer of the other site is taken  *)
(* as a sign-in.                                                           *)
LinkLookup(r) ==
    /\ pc[r] = "lookup"
    /\ \/ /\ Owners(flow[r].item) = {}
          /\ Answer(r, "forbidden")
          /\ UNCHANGED cookies
       \/ /\ \E u \in Owners(flow[r].item) : cookies' = cookies \cup {u}
          /\ Answer(r, "signed_in")
    /\ UNCHANGED <<user, register, restarts>>

(* The list a request that is about to save writes.                        *)
NewList(r) ==
    LET x == flow[r].item
        old == copy[r].doc \cap ListOf(x)
    IN  IF r \in Removes THEN old \ {x} ELSE old \cup {x}

(* Mutant: all lists of the copy are written back.                         *)
LinkSaveWhole(r) ==
    LET u == copy[r].id IN
    /\ pc[r] = "save"
    /\ r \in Links
    /\ \/ /\ Refused(u, NewList(r))
          /\ Answer(r, "error")
          /\ UNCHANGED <<user, cookies>>
       \/ /\ ~Refused(u, NewList(r))
          /\ user' = [user EXCEPT ![u] = copy[r].doc \cup NewList(r)]
          /\ cookies' = cookies \cup
               (IF flow[r].item \in Keys THEN {} ELSE {u})
          /\ Answer(r, "added")
    /\ UNCHANGED <<register, restarts>>

LinkSave(r) ==
    LET u == copy[r].id IN
    /\ pc[r] = "save"
    /\ r \in Links
    /\ \/ /\ Refused(u, NewList(r))
          /\ Answer(r, "error")
          /\ UNCHANGED <<user, cookies>>
       \/ /\ ~Refused(u, NewList(r))
          /\ SaveList(u, ListOf(flow[r].item), NewList(r))
          /\ cookies' = cookies \cup
               (IF flow[r].item \in Keys THEN {} ELSE {u})
          /\ Answer(r, "added")
    /\ UNCHANGED <<register, restarts>>

-----------------------------------------------------------------------------
(* Removing.                                                               *)

RemoveBegin(r) ==
    /\ pc[r] = "idle"
    /\ ~register
    /\ \E x \in Items, s \in SessionUsers :
        \/ /\ s = None
           /\ Answer(r, "forbidden")
        \/ /\ s # None /\ x \notin user[s]
           /\ Answer(r, "not_found")
        \/ /\ s # None /\ x \in user[s]
           /\ flow' = [flow EXCEPT ![r].item = x]
           /\ Load(r, s)
           /\ Goto(r, "save")
    /\ UNCHANGED <<user, cookies, register, restarts>>

(* An administrator removes it from any account; a list that does not      *)
(* change is not written.                                                  *)
AdminRemoveBegin(r) ==
    /\ pc[r] = "idle"
    /\ ~register
    /\ \E x \in Items, u \in {v \in Accounts : Exists(v)} :
        \/ /\ x \notin user[u]
           /\ Answer(r, "removed")
        \/ /\ x \in user[u]
           /\ flow' = [flow EXCEPT ![r].item = x]
           /\ Load(r, u)
           /\ Goto(r, "save")
    /\ UNCHANGED <<user, cookies, register, restarts>>

(* Mutant: all lists of the copy are written back.                         *)
RemoveSaveWhole(r) ==
    LET u == copy[r].id IN
    /\ pc[r] = "save"
    /\ r \in Removes
    /\ user' = [user EXCEPT ![u] = copy[r].doc \ {flow[r].item}]
    /\ Answer(r, "removed")
    /\ UNCHANGED <<cookies, register, restarts>>

RemoveSave(r) ==
    LET u == copy[r].id IN
    /\ pc[r] = "save"
    /\ r \in Removes
    /\ \/ /\ Refused(u, NewList(r))
          /\ Answer(r, "error")
          /\ UNCHANGED user
       \/ /\ ~Refused(u, NewList(r))
          /\ SaveList(u, ListOf(flow[r].item), NewList(r))
          /\ Answer(r, "removed")
    /\ UNCHANGED <<cookies, register, restarts>>

-----------------------------------------------------------------------------
(* New accounts.                                                           *)

(* With a Google or a Microsoft address, or with an e-mail address only.   *)
Create(r) ==
    /\ pc[r] = "idle"
    /\ ~register
    /\ \E x \in Googles \cup Microsofts \cup {None} :
        LET list == {x} \ {None} IN
        \/ /\ Refused(None, list)
           /\ Answer(r, "conflict")
           /\ UNCHANGED user
        \/ /\ ~Refused(None, list)
           /\ \E u \in {v \in Accounts : ~Exists(v)} :
                 user' = [user EXCEPT ![u] = list]
           /\ Answer(r, "created")
    /\ UNCHANGED <<cookies, register, restarts>>

(* The key is looked for in all documents, then the document is read.      *)
RegisterBegin(r) ==
    /\ pc[r] = "idle"
    /\ register
    /\ \E k \in Keys, u \in Accounts :
        \/ Owners(k) # {} /\ Answer(r, "conflict")
        \/ /\ Owners(k) = {}
           /\ flow' = [flow EXCEPT ![r] = [item |-> k, user |-> u,
                                           secret |-> restarts]]
           /\ Goto(r, "read")
           /\ UNCHANGED copy
    /\ UNCHANGED <<user, cookies, register, restarts>>

RegisterRead(r) ==
    /\ pc[r] = "read"
    /\ \/ /\ Load(r, flow[r].user)
          /\ Goto(r, IF Exists(flow[r].user) THEN "save" ELSE "replace")
          /\ UNCHANGED flow
       \/ /\ Exists(flow[r].user)     \* with another e-mail address
          /\ Answer(r, "bad_request")
    /\ UNCHANGED <<user, cookies, register, restarts>>

RegisterSave(r) ==
    /\ pc[r] = "save"
    /\ r \in Registers
    /\ \/ /\ Refused(copy[r].id, NewList(r))
          /\ Answer(r, "error")
          /\ UNCHANGED user
       \/ /\ ~Refused(copy[r].id, NewList(r))
          /\ SaveList(copy[r].id, Keys, NewList(r))
          /\ Answer(r, "added")
    /\ UNCHANGED <<cookies, register, restarts>>

(* A document with an id of its own is saved by find_one_and_replace: one  *)
(* that another registration has stored in the meantime is replaced whole. *)
RegisterReplace(r) ==
    LET u == flow[r].user IN
    /\ pc[r] = "replace"
    /\ \/ /\ ~Exists(u)
          /\ Goto(r, "insert")
          /\ UNCHANGED <<user, flow, copy>>
       \/ /\ Exists(u)
          /\ Refused(u, {flow[r].item})
          /\ Answer(r, "error")
          /\ UNCHANGED user
       \/ /\ Exists(u)
          /\ ~Refused(u, {flow[r].item})
          /\ user' = [user EXCEPT ![u] = {flow[r].item}]
          /\ Answer(r, "added")
    /\ UNCHANGED <<cookies, register, restarts>>

(* Otherwise it is inserted, unless one with that id or that key exists.   *)
RegisterInsert(r) ==
    LET u == flow[r].user IN
    /\ pc[r] = "insert"
    /\ \/ /\ Exists(u) \/ Refused(u, {flow[r].item})
          /\ Answer(r, "error")
          /\ UNCHANGED user
       \/ /\ ~Exists(u) /\ ~Refused(u, {flow[r].item})
          /\ user' = [user EXCEPT ![u] = {flow[r].item}]
          /\ Answer(r, "added")
    /\ UNCHANGED <<cookies, register, restarts>>

-----------------------------------------------------------------------------
Working == {"taken", "lookup", "save", "read", "replace", "insert"}
Ended == {"forbidden", "conflict", "not_found", "added", "removed",
          "created", "signed_in", "bad_request", "error"}

(* The database raises before the operation is applied.  (When it raises   *)
(* afterwards only the answer differs from that of the success.)           *)
Fail(r) ==
    /\ pc[r] \in Working
    /\ Answer(r, "error")
    /\ UNCHANGED <<user, cookies, register, restarts>>

(* The configuration is read once, and the secret that signs the cookies   *)
(* is drawn, when the process starts: a restart ends the requests under    *)
(* way, and no session is recognised after it.  A browser that is away     *)
(* comes back to the new process with the state the old one signed.        *)
Restart ==
    /\ restarts < MaxRestarts
    /\ restarts' = restarts + 1
    /\ register' \in BOOLEAN
    /\ cookies' = {}
    /\ pc' = [r \in Requests |->
                IF pc[r] \in Working THEN "error" ELSE pc[r]]
    /\ flow' = [r \in Requests |->
                  IF pc[r] \in Working THEN NoFlow ELSE flow[r]]
    /\ copy' = [r \in Requests |-> None]
    /\ UNCHANGED user

LinkStep(r) ==
    LinkReturn(r) \/ LinkRefused(r) \/ LinkTaken(r) \/ LinkLookup(r)
        \/ LinkSave(r)
RegisterStep(r) ==
    RegisterRead(r) \/ RegisterSave(r) \/ RegisterReplace(r)
        \/ RegisterInsert(r)

Next ==
    \/ KeySignIn \/ CodeSignIn \/ Restart
    \/ \E r \in Links : LinkBegin(r) \/ LinkStep(r) \/ Fail(r)
    \/ \E r \in Removes : RemoveBegin(r) \/ AdminRemoveBegin(r)
                            \/ RemoveSave(r) \/ Fail(r)
    \/ \E r \in Creates : Create(r)
    \/ \E r \in Registers : RegisterBegin(r) \/ RegisterStep(r) \/ Fail(r)

Spec == Init /\ [][Next]_vars

-----------------------------------------------------------------------------
(* Properties.                                                             *)

TypeOK ==
    /\ user \in [Accounts -> (SUBSET Items) \cup {None}]
    /\ cookies \subseteq Cookies
    /\ register \in BOOLEAN
    /\ restarts \in 0..MaxRestarts
    /\ pc \in [Requests -> {"idle", "away"} \cup Working \cup Ended]
    /\ flow \in [Requests -> Flow]
    /\ copy \in [Requests -> Copies \cup {None}]

(* The requests that have read document u and may yet write the list of x, *)
(* and those that may yet replace the document.                            *)
Writers(u, x) ==
    {r \in Requests : pc[r] \in {"taken", "save"} /\ copy[r].id = u
                        /\ x \in ListOf(flow[r].item)}
Replacers(u) ==
    {r \in Requests : pc[r] \in {"replace", "insert"} /\ flow[r].user = u}

(* Account u has the credential x, and no request is about to write its    *)
(* list without it.                                                        *)
Held(u, x) ==
    /\ u \in Owners(x)
    /\ \A r \in Writers(u, x) : x \in NewList(r)
    /\ \A r \in Replacers(u) : x = flow[r].item

(* Account u lacks the credential x, and no request is about to write it.  *)
Gone(u, x) ==
    /\ u \notin Owners(x)
    /\ \A r \in Writers(u, x) : x \notin NewList(r)
    /\ \A r \in Replacers(u) : x # flow[r].item

(* Some request asks, in this step, for x to be changed in account u.      *)
Asks(u, x, asked) ==
    \E r \in asked :
        /\ pc'[r] # pc[r]
        /\ \/ /\ pc'[r] \in {"taken", "save", "replace"}
              /\ flow'[r].item = x
              /\ copy'[r].id = u
           \/ pc'[r] = "created"

(* A credential is lost only to somebody asking for its removal: the other *)
(* lists of the document, and saves of documents read before, cannot take  *)
(* it away once no save is pending that was computed without it            *)
(* (_fido2.py:125-133, google.py:175-176, admin_users.py:182-196).  The    *)
(* exception is a registration that found no such account.                 *)
HeldIsKept ==
    [][\A u \in Accounts, x \in Items :
          Held(u, x) => Held(u, x)' \/ Asks(u, x, Removes)]_vars

(* A removed credential does not come back but by being added again: once  *)
(* no save is pending that was computed with it, the account stays without *)
(* it (_fido2.py:155-158, google.py:203-206, microsoft.py:230-233).        *)
GoneStaysGone ==
    [][\A u \in Accounts, x \in Items :
          Gone(u, x) =>
              Gone(u, x)' \/ Asks(u, x, Links \cup Creates \cup Registers)]_vars

(* Request r, which acts in this step, may give the credential x to the    *)
(* account u: a link that was begun in a session of u of this very process,*)
(* a save computed from a copy of u's document that had x, a registration  *)
(* for u in registration mode, or an administrator's new account.          *)
MayGive(r, u, x) ==
    /\ pc'[r] # pc[r]
    /\ \/ /\ r \in Links
          /\ x = flow[r].item
          /\ flow[r].user = u
          /\ flow[r].secret = restarts
       \/ pc[r] = "save" /\ copy[r].id = u /\ x \in copy[r].doc
       \/ r \in Registers /\ register /\ flow[r].user = u
       \/ r \in Creates /\ ~Exists(u)

(* No document gets a credential in any other way: a link adds it to the   *)
(* account in whose session it was begun, whoever the browser was signed   *)
(* in as when it came back and whichever document had been read by then,   *)
(* and a link begun before a restart adds nothing after it                 *)
(* (google.py:171-176, microsoft.py:204-210, _fido2.py:101-133,            *)
(* config.py:18).                                                          *)
LinkedToBeginner ==
    [][\A u \in Accounts, x \in Items :
          u \notin Owners(x) /\ u \in Owners(x)'
              => \E r \in Requests : MayGive(r, u, x)]_vars
=============================================================================
