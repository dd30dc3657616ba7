------------------------------ MODULE StartUp ------------------------------
(***************************************************************************)
(* How a process of the service gets its database connection.  The first   *)
(* request registers it, under a lock and behind a flag (_ensure_storage). *)
(* But the application looks up the user of the session cookie before      *)
(* that, to build the context of the page: only because every process      *)
(* draws a secret of its own to sign cookies with does no process query    *)
(* the database for a cookie before it is connected.                       *)
(***************************************************************************)
EXTENDS Naturals

CONSTANTS
    Threads,        \* the threads of the server, serving many requests each
    MaxStarts,      \* a bound on the starts of the process
    None

ASSUME ThreadsAssumption == None \notin Threads
ASSUME StartsAssumption == MaxStarts \in Nat \ {0} /\ None \notin 1..MaxStarts

(* A process is its number, and so is the secret it draws.                 *)
Secrets == 1..MaxStarts

VARIABLES
    secret,         \* the secret of the running process
    configured,     \* its configuration file has a mongodb_uri
    connected,      \* _storage_connected
    lock,           \* the thread that holds _storage_lock
    registered,     \* how often the connection was registered
    cookies,        \* the secrets that signed the cookies browsers hold
    pc,             \* where each thread is in the request it serves
    cookie          \* the secret that signed the cookie of that request

process == <<secret, configured>>
vars == <<process, connected, lock, registered, cookies, pc, cookie>>

Goto(t, where) == pc' = [pc EXCEPT ![t] = where]

Init ==
    /\ secret = 1
    /\ configured \in BOOLEAN
    /\ connected = FALSE
    /\ lock = None
    /\ registered = 0
    /\ cookies = {}
    /\ pc = [t \in Threads |-> "idle"]
    /\ cookie = [t \in Threads |-> None]

-----------------------------------------------------------------------------
(* A request arrives, with whatever session cookie the browser has.        *)
Arrive(t) ==
    /\ pc[t] = "idle"
    /\ \E c \in cookies \cup {None} : cookie' = [cookie EXCEPT ![t] = c]
    /\ Goto(t, "context")
    /\ UNCHANGED <<process, connected, lock, registered, cookies>>

(* A cookie that the process has signed is looked up in the database; any  *)
(* other one is ignored.  An exception here is not caught.                 *)
LooksUp(t) == cookie[t] = secret

BuildContext(t) ==
    /\ pc[t] = "context"
    /\ \/ Goto(t, "check")
       \/ LooksUp(t) /\ Goto(t, "idle")
    /\ UNCHANGED <<process, connected, lock, registered, cookies, cookie>>

(* The flag is read without the lock.                                      *)
Check(t) ==
    /\ pc[t] = "check"
    /\ Goto(t, IF connected THEN "serve" ELSE "wait")
    /\ UNCHANGED <<process, connected, lock, registered, cookies, cookie>>

Acquire(t) ==
    /\ pc[t] = "wait"
    /\ lock = None
    /\ lock' = t
    /\ Goto(t, "recheck")
    /\ UNCHANGED <<process, connected, registered, cookies, cookie>>

(* Mutant: the flag is not read again.                                     *)
RecheckNothing(t) ==
    /\ pc[t] = "recheck"
    /\ Goto(t, "register")
    /\ UNCHANGED <<process, connected, lock, registered, cookies, cookie>>

(* Mutant: the early exit does not go through the release.                 *)
RecheckKeepsLock(t) ==
    /\ pc[t] = "recheck"
    /\ Goto(t, IF connected THEN "serve" ELSE "register")
    /\ UNCHANGED <<process, connected, lock, registered, cookies, cookie>>

(* It is read again under the lock.                                        *)
Recheck(t) ==
    /\ pc[t] = "recheck"
    /\ Goto(t, IF connected THEN "release" ELSE "register")
    /\ UNCHANGED <<process, connected, lock, registered, cookies, cookie>>

(* Without a mongodb_uri a KeyError leaves the block, and the lock with    *)
(* it, and is answered as an error.                                        *)
Register(t) ==
    /\ pc[t] = "register"
    /\ \/ /\ configured
          /\ registered' = registered + 1
          /\ Goto(t, "flag")
          /\ UNCHANGED lock
       \/ /\ ~configured
          /\ lock' = None
          /\ Goto(t, "idle")
          /\ UNCHANGED registered
    /\ UNCHANGED <<process, connected, cookies, cookie>>

SetFlag(t) ==
    /\ pc[t] = "flag"
    /\ connected' = TRUE
    /\ Goto(t, "release")
    /\ UNCHANGED <<process, lock, registered, cookies, cookie>>

Release(t) ==
    /\ pc[t] = "release"
    /\ lock' = None
    /\ Goto(t, "serve")
    /\ UNCHANGED <<process, connected, registered, cookies, cookie>>

(* Mutant: an answer renews the cookie of the request as it came.          *)
ServeRenews(t) ==
    /\ pc[t] = "serve"
    /\ cookies' \in {cookies, cookies \cup {cookie[t]}}
    /\ Goto(t, "idle")
    /\ UNCHANGED <<process, connected, lock, registered, cookie>>

(* The handler runs: it queries the database, and the answer of a sign-in  *)
(* has a cookie signed with the secret of the process.                     *)
Serve(t) ==
    /\ pc[t] = "serve"
    /\ cookies' \in {cookies, cookies \cup {secret}}
    /\ Goto(t, "idle")
    /\ UNCHANGED <<process, connected, lock, registered, cookie>>

(* Mutant: the secret is kept from one process to the next.                *)
RestartSameSecret ==
    /\ secret < MaxStarts
    /\ configured' \in BOOLEAN
    /\ connected' = FALSE
    /\ lock' = None
    /\ registered' = 0
    /\ pc' = [t \in Threads |-> "idle"]
    /\ cookie' = [t \in Threads |-> None]
    /\ UNCHANGED <<secret, cookies>>

(* The process ends, with its requests, and another one is started.        *)
Restart ==
    /\ secret < MaxStarts
    /\ secret' = secret + 1
    /\ configured' \in BOOLEAN
    /\ connected' = FALSE
    /\ lock' = None
    /\ registered' = 0
    /\ pc' = [t \in Threads |-> "idle"]
    /\ cookie' = [t \in Threads |-> None]
    /\ UNCHANGED cookies

Work(t) ==
    \/ BuildContext(t) \/ Check(t) \/ Acquire(t) \/ Recheck(t)
    \/ Register(t) \/ SetFlag(t) \/ Release(t) \/ Serve(t)

Next == Restart \/ \E t \in Threads : Arrive(t) \/ Work(t)

Spec == Init /\ [][Next]_vars

(* A thread that can go on does go on.  Nothing is assumed of the order in *)
(* which the lock is given to those that wait for it, nor of arrivals.     *)
FairSpec == Spec /\ \A t \in Threads : WF_vars(Work(t))

-----------------------------------------------------------------------------
(* Properties.                                                             *)

Places == {"idle", "context", "check", "wait", "recheck", "register", "flag",
           "release", "serve"}

TypeOK ==
    /\ secret \in Secrets
    /\ configured \in BOOLEAN
    /\ connected \in BOOLEAN
    /\ lock \in Threads \cup {None}
    /\ registered \in Nat
    /\ cookies \subseteq Secrets
    /\ pc \in [Threads -> Places]
    /\ cookie \in [Threads -> Secrets \cup {None}]

(* No request queries the database before the connection is registered,    *)
(* although the session is looked up before _ensure_storage is called and  *)
(* outside the try of the application (service/__init__.py:194-202).       *)
QueriesAreConnected ==
    \A t \in Threads :
        \/ pc[t] = "context" /\ LooksUp(t)
        \/ pc[t] = "serve"
        => registered > 0

(* However many first requests meet, the connection is registered once,    *)
(* and the flag is never set without it (service/__init__.py:62-73).       *)
RegisteredOnce ==
    /\ registered <= 1
    /\ connected => registered = 1

(* A request is never left waiting for the lock: in a configured process   *)
(* every request ends.                                                     *)
EveryRequestEnds ==
    \A t \in Threads : configured /\ pc[t] # "idle" ~> pc[t] = "idle"
=============================================================================
