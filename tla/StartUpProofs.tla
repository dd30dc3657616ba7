---------------------------- MODULE StartUpProofs ----------------------------
(***************************************************************************)
(* Proofs about StartUp, for every number of threads and of restarts: the  *)
(* connection is registered once per process, and no request queries the   *)
(* database before it is.                                                  *)
(***************************************************************************)
EXTENDS StartUp, TLAPS

(* The places where a thread is inside the with block.                     *)
Inside == {"recheck", "register", "flag", "release"}

(* The lock excludes.                                                      *)
LockExcludes == \A t \in Threads : (lock = t) <=> (pc[t] \in Inside)

(* How far the registration is.  Between the registration and the flag the *)
(* registering thread holds the lock.                                      *)
Registration ==
    /\ registered \in {0, 1}
    /\ connected => registered = 1
    /\ registered = 1 /\ ~connected => lock \in Threads /\ pc[lock] = "flag"
    /\ \A t \in Threads :
        /\ pc[t] = "register" => registered = 0
        /\ pc[t] = "flag" => registered = 1
        /\ pc[t] \in {"release", "serve"} => connected

(* No cookie is signed with a secret to come, and one that is signed with  *)
(* the present secret was signed by a request of this process.             *)
CookiesAreOurs ==
    /\ \A c \in cookies : c <= secret
    /\ secret \in cookies => connected
    /\ \A t \in Threads :
        cookie[t] # None => cookie[t] \in cookies

IInv == TypeOK /\ LockExcludes /\ Registration /\ CookiesAreOurs

(* The invariant holds before the process starts.                          *)
LEMMA InitIInv == Init => IInv
  <1> SUFFICES ASSUME Init
               PROVE  IInv
    OBVIOUS
  <1>1. 1 \in Secrets
    BY StartsAssumption DEF Secrets
  <1>2. configured \in BOOLEAN /\ connected \in BOOLEAN
    BY Zenon DEF Init
  <1>3. TypeOK
    BY <1>1, <1>2 DEF Init, TypeOK, Places
  <1>4. LockExcludes
    BY ThreadsAssumption DEF Init, LockExcludes, Inside
  <1>5. Registration /\ CookiesAreOurs
    BY DEF Init, Registration, CookiesAreOurs
  <1> QED
    BY <1>3, <1>4, <1>5 DEF IInv

(* Every step of every thread, and every restart, keeps it.                *)
LEMMA NextIInv == IInv /\ [Next]_vars => IInv'
  <1> SUFFICES ASSUME IInv, [Next]_vars
               PROVE  IInv'
    OBVIOUS
  <1> USE DEF IInv, Goto, process
  <1>1. CASE UNCHANGED vars
    BY <1>1 DEF vars, TypeOK, LockExcludes, Registration, CookiesAreOurs
  <1>2. CASE Restart
    <2>1. TypeOK'
      <3>1. secret' \in Secrets
        BY <1>2, StartsAssumption DEF Restart, TypeOK, Secrets
      <3>2. configured' \in BOOLEAN /\ connected' \in BOOLEAN
        BY <1>2, Zenon DEF Restart
      <3>3. /\ lock' \in Threads \cup {None} /\ registered' \in Nat
            /\ cookies' \subseteq Secrets
        BY <1>2 DEF Restart, TypeOK
      <3>4. /\ pc' \in [Threads -> Places]
            /\ cookie' \in [Threads -> Secrets \cup {None}]
        BY <1>2 DEF Restart, Places
      <3> QED
        BY <3>1, <3>2, <3>3, <3>4 DEF TypeOK
    <2>2. LockExcludes'
      BY <1>2, ThreadsAssumption DEF Restart, LockExcludes, Inside
    <2>3. Registration'
      BY <1>2 DEF Restart, Registration
    <2>4. CookiesAreOurs'
      BY <1>2, StartsAssumption DEF Restart, CookiesAreOurs, TypeOK, Secrets
    <2> QED
      BY <2>1, <2>2, <2>3, <2>4
  <1>3. ASSUME NEW t \in Threads, Arrive(t)
        PROVE  IInv'
    <2>1. TypeOK'
      BY <1>3 DEF Arrive, TypeOK, Places
    <2>2. LockExcludes'
      BY <1>3 DEF Arrive, LockExcludes, TypeOK, Inside
    <2>3. Registration'
      BY <1>3 DEF Arrive, Registration, TypeOK
    <2>4. CookiesAreOurs'
      BY <1>3 DEF Arrive, CookiesAreOurs, TypeOK
    <2> QED
      BY <2>1, <2>2, <2>3, <2>4
  <1>4. ASSUME NEW t \in Threads, BuildContext(t)
        PROVE  IInv'
    <2>1. TypeOK'
      BY <1>4 DEF BuildContext, TypeOK, Places
    <2>2. LockExcludes'
      BY <1>4 DEF BuildContext, LockExcludes, TypeOK, Inside
    <2>3. Registration'
      BY <1>4 DEF BuildContext, Registration, TypeOK
    <2>4. CookiesAreOurs'
      BY <1>4 DEF BuildContext, CookiesAreOurs
    <2> QED
      BY <2>1, <2>2, <2>3, <2>4
  <1>5. ASSUME NEW t \in Threads, Check(t)
        PROVE  IInv'
    <2>1. TypeOK'
      BY <1>5 DEF Check, TypeOK, Places
    <2>2. LockExcludes'
      BY <1>5 DEF Check, LockExcludes, TypeOK, Inside
    <2>3. Registration'
      BY <1>5 DEF Check, Registration, TypeOK
    <2>4. CookiesAreOurs'
      BY <1>5 DEF Check, CookiesAreOurs
    <2> QED
      BY <2>1, <2>2, <2>3, <2>4
  <1>6. ASSUME NEW t \in Threads, Acquire(t)
        PROVE  IInv'
    <2>1. TypeOK'
      BY <1>6 DEF Acquire, TypeOK, Places
    <2>2. LockExcludes'
      BY <1>6, ThreadsAssumption DEF Acquire, LockExcludes, TypeOK, Inside
    <2>3. Registration'
      BY <1>6, ThreadsAssumption DEF Acquire, Registration, TypeOK
    <2>4. CookiesAreOurs'
      BY <1>6 DEF Acquire, CookiesAreOurs
    <2> QED
      BY <2>1, <2>2, <2>3, <2>4
  <1>7. ASSUME NEW t \in Threads, Recheck(t)
        PROVE  IInv'
    <2>1. TypeOK'
      BY <1>7 DEF Recheck, TypeOK, Places
    <2>2. LockExcludes'
      BY <1>7 DEF Recheck, LockExcludes, TypeOK, Inside
    <2>3. lock = t /\ (~connected => registered = 0)
      BY <1>7, <2>2 DEF Recheck, LockExcludes, Registration, Inside, TypeOK
    <2>4. Registration'
      BY <1>7, <2>3 DEF Recheck, Registration, TypeOK
    <2>5. CookiesAreOurs'
      BY <1>7 DEF Recheck, CookiesAreOurs
    <2> QED
      BY <2>1, <2>2, <2>4, <2>5
  <1>8. ASSUME NEW t \in Threads, Register(t)
        PROVE  IInv'
    <2>1. TypeOK'
      BY <1>8 DEF Register, TypeOK, Places
    <2>2. LockExcludes'
      BY <1>8, ThreadsAssumption DEF Register, LockExcludes, TypeOK, Inside
    <2>3. /\ lock = t /\ registered = 0 /\ ~connected
          /\ \A s \in Threads \ {t} : pc[s] \notin Inside
      BY <1>8 DEF Register, LockExcludes, Registration, Inside
    <2>4. Registration'
      BY <1>8, <2>3 DEF Register, Registration, TypeOK, Inside
    <2>5. CookiesAreOurs'
      BY <1>8 DEF Register, CookiesAreOurs
    <2> QED
      BY <2>1, <2>2, <2>4, <2>5
  <1>9. ASSUME NEW t \in Threads, SetFlag(t)
        PROVE  IInv'
    <2>1. TypeOK'
      BY <1>9 DEF SetFlag, TypeOK, Places
    <2>2. LockExcludes'
      BY <1>9 DEF SetFlag, LockExcludes, TypeOK, Inside
    <2>3. Registration'
      BY <1>9 DEF SetFlag, Registration, TypeOK
    <2>4. CookiesAreOurs'
      BY <1>9 DEF SetFlag, CookiesAreOurs
    <2> QED
      BY <2>1, <2>2, <2>3, <2>4
  <1>10. ASSUME NEW t \in Threads, Release(t)
         PROVE  IInv'
    <2>1. TypeOK'
      BY <1>10 DEF Release, TypeOK, Places
    <2>2. LockExcludes'
      BY <1>10, ThreadsAssumption DEF Release, LockExcludes, TypeOK, Inside
    <2>3. connected
      BY <1>10 DEF Release, Registration
    <2>4. Registration'
      BY <1>10, <2>3 DEF Release, Registration, TypeOK
    <2>5. CookiesAreOurs'
      BY <1>10 DEF Release, CookiesAreOurs
    <2> QED
      BY <2>1, <2>2, <2>4, <2>5
  <1>11. ASSUME NEW t \in Threads, Serve(t)
         PROVE  IInv'
    <2>1. TypeOK'
      BY <1>11 DEF Serve, TypeOK, Places
    <2>2. LockExcludes'
      BY <1>11 DEF Serve, LockExcludes, TypeOK, Inside
    <2>3. connected
      BY <1>11 DEF Serve, Registration
    <2>4. Registration'
      BY <1>11, <2>3 DEF Serve, Registration, TypeOK
    <2>5. CookiesAreOurs'
      BY <1>11, <2>3 DEF Serve, CookiesAreOurs, TypeOK, Secrets
    <2> QED
      BY <2>1, <2>2, <2>4, <2>5
  <1> QED
    BY <1>1, <1>2, <1>3, <1>4, <1>5, <1>6, <1>7, <1>8, <1>9, <1>10, <1>11
    DEF Next, Work

(* The inductive invariant of the start-up.                                *)
LEMMA Invariance == Spec => []IInv
  BY InitIInv, NextIInv, PTL DEF Spec

(* Every state of the start-up has its type.                               *)
THEOREM TypeCorrect == Spec => []TypeOK
  BY Invariance, PTL DEF IInv

(* The first requests of a process, however many, register the connection  *)
(* once, and no thread finds the flag set without it.                      *)
THEOREM OneRegistration == Spec => []RegisteredOnce
  <1>1. IInv => RegisteredOnce
    BY DEF IInv, Registration, RegisteredOnce
  <1> QED
    BY <1>1, Invariance, PTL

(* No request queries the database before the connection is registered,    *)
(* whatever cookies browsers keep from earlier processes.                  *)
THEOREM NoQueryUnconnected == Spec => []QueriesAreConnected
  <1>1. ASSUME IInv, NEW t \in Threads, pc[t] = "context", LooksUp(t)
        PROVE  registered > 0
    <2>1. secret # None
      BY <1>1, StartsAssumption DEF IInv, TypeOK, Secrets
    <2>2. secret \in cookies
      BY <1>1, <2>1 DEF IInv, CookiesAreOurs, LooksUp
    <2> QED
      BY <1>1, <2>2 DEF IInv, CookiesAreOurs, Registration
  <1>2. ASSUME IInv, NEW t \in Threads, pc[t] = "serve"
        PROVE  registered > 0
    BY <1>2 DEF IInv, Registration
  <1>3. IInv => QueriesAreConnected
    BY <1>1, <1>2 DEF QueriesAreConnected
  <1> QED
    BY <1>3, Invariance, PTL
=============================================================================
