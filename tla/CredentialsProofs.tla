-------------------------- MODULE CredentialsProofs --------------------------
(***************************************************************************)
(* Proofs about Credentials, for any number of requests, accounts,         *)
(* credentials of each kind, and restarts.  The invariant CredsInv adds to *)
(* TypeOK what a request of each kind knows where it is: the document that *)
(* it is about to save exists and was a list of credentials when read, and *)
(* a link that the running process began has read the document of the      *)
(* account it was begun for.                                               *)
(***************************************************************************)
EXTENDS Credentials, TLAPS

(* The request has read a document, which has not been deleted since.      *)
Loaded(r) ==
    /\ copy[r].id \in Accounts
    /\ Exists(copy[r].id)
    /\ copy[r].doc \in SUBSET Items
    /\ flow[r].item \in Items

(* Where a request of each kind can be, and what it knows there.           *)
LinkAt(r) ==
    /\ pc[r] \in {"idle", "away", "taken", "lookup", "save"} \cup Ended
    /\ pc[r] \in {"away", "lookup"} => flow[r].item \in Items
    /\ pc[r] \in {"taken", "save"} =>
          /\ Loaded(r)
          /\ copy[r].id = flow[r].user
          /\ flow[r].secret = restarts

RemoveAt(r) ==
    /\ pc[r] \in {"idle", "save"} \cup Ended
    /\ pc[r] = "save" => Loaded(r)

CreateAt(r) == pc[r] \in {"idle"} \cup Ended

RegisterAt(r) ==
    /\ pc[r] \in {"idle", "read", "save", "replace", "insert"} \cup Ended
    /\ pc[r] \in {"read", "save", "replace", "insert"} =>
          register /\ flow[r].item \in Keys /\ flow[r].user \in Accounts
    /\ pc[r] = "save" => Loaded(r) /\ copy[r].id = flow[r].user

CredsInv ==
    /\ TypeOK
    /\ \A r \in Links : LinkAt(r)
    /\ \A r \in Removes : RemoveAt(r)
    /\ \A r \in Creates : CreateAt(r)
    /\ \A r \in Registers : RegisterAt(r)
-----------------------------------------------------------------------------
(* Lists.                                                                  *)

(* The list of an item, and the item in it.                                *)
LEMMA ListOfItem ==
    ASSUME NEW x \in Items
    PROVE  /\ ListOf(x) \in {Keys, Googles, Microsofts}
           /\ x \in ListOf(x)
           /\ ListOf(x) \subseteq Items
  <1>1. \E l \in {Keys, Googles, Microsofts} : x \in l
    BY DEF Items
  <1>2. ListOf(x) \in {Keys, Googles, Microsofts} /\ x \in ListOf(x)
    BY <1>1 DEF ListOf
  <1> QED
    BY <1>2 DEF Items

(* The list of a key is the list of keys.                                  *)
LEMMA ListOfKey ==
    ASSUME NEW k \in Keys
    PROVE  k \in Items /\ ListOf(k) = Keys
  <1>1. k \in Items
    BY DEF Items
  <1> QED
    BY <1>1, ListOfItem, CredentialKindsAssumption

(* What a request that has read a document is about to write.              *)
LEMMA NewListIs ==
    ASSUME NEW r, Loaded(r)
    PROVE  /\ NewList(r) \subseteq ListOf(flow[r].item)
           /\ NewList(r) \subseteq Items
           /\ \A x \in Items :
                 x \in NewList(r) <=>
                    /\ x \in ListOf(flow[r].item)
                    /\ IF r \in Removes
                         THEN x \in copy[r].doc /\ x # flow[r].item
                         ELSE x \in copy[r].doc \/ x = flow[r].item
  <1>1. PICK x : x = flow[r].item
    OBVIOUS
  <1>2. x \in Items /\ x \in ListOf(x) /\ ListOf(x) \subseteq Items
    BY <1>1, ListOfItem DEF Loaded
  <1> QED
    BY <1>1, <1>2 DEF NewList, Loaded

(* The document of an account that exists is a list of credentials.        *)
LEMMA DocType ==
    ASSUME TypeOK, NEW u \in Accounts, Exists(u)
    PROVE  user[u] \in SUBSET Items
  BY DEF TypeOK, Exists

(* A session is of an account that exists.                                 *)
LEMMA SessionExists ==
    ASSUME TypeOK, NEW s \in SessionUsers, s # None
    PROVE  s \in Accounts /\ Exists(s) /\ user[s] \in SUBSET Items
  <1>1. s \in Accounts /\ Exists(s)
    BY DEF SessionUsers, Owners
  <1> QED
    BY <1>1, DocType

-----------------------------------------------------------------------------
(* Who moves.                                                              *)

Local(r) == <<pc[r], flow[r], copy[r]>>

LinkMoves(r) == LinkBegin(r) \/ LinkStep(r) \/ Fail(r)
RemoveMoves(r) ==
    RemoveBegin(r) \/ AdminRemoveBegin(r) \/ RemoveSave(r) \/ Fail(r)
RegisterMoves(r) == RegisterBegin(r) \/ RegisterStep(r) \/ Fail(r)

Moves(r) ==
    \/ r \in Links /\ LinkMoves(r)
    \/ r \in Removes /\ RemoveMoves(r)
    \/ r \in Creates /\ Create(r)
    \/ r \in Registers /\ RegisterMoves(r)

SignIns == KeySignIn \/ CodeSignIn

(* Whose step it is, or none's.                                            *)
LEMMA StepKinds ==
    ASSUME [Next]_vars
    PROVE  \/ UNCHANGED vars
           \/ SignIns
           \/ Restart
           \/ \E r \in Requests : Moves(r)
  BY DEF Next, SignIns, Moves, LinkMoves, RemoveMoves, RegisterMoves, Requests

(* A request is of one kind.                                               *)
LEMMA OneKind ==
    ASSUME NEW r \in Requests
    PROVE  /\ r \in Links => r \notin Removes /\ r \notin Creates
                               /\ r \notin Registers
           /\ r \in Removes => r \notin Creates /\ r \notin Registers
           /\ r \in Creates => r \notin Registers
  BY CredentialKindsAssumption

(* A step of one request leaves what the others know alone.                *)
LEMMA OthersStay ==
    ASSUME TypeOK, NEW r \in Requests, Moves(r), NEW q \in Requests, q # r
    PROVE  UNCHANGED Local(q)
  <1> USE DEF TypeOK, Local, Goto, Load, Answer
  <1>1. CASE LinkMoves(r)
    BY <1>1 DEF LinkMoves, LinkBegin, LinkStep, LinkReturn, LinkRefused,
                LinkTaken, LinkLookup, LinkSave, Fail
  <1>2. CASE RemoveMoves(r)
    BY <1>2 DEF RemoveMoves, RemoveBegin, AdminRemoveBegin, RemoveSave, Fail
  <1>3. CASE Create(r)
    BY <1>3 DEF Create
  <1>4. CASE RegisterMoves(r)
    BY <1>4 DEF RegisterMoves, RegisterBegin, RegisterStep, RegisterRead,
                RegisterSave, RegisterReplace, RegisterInsert, Fail
  <1> QED
    BY <1>1, <1>2, <1>3, <1>4 DEF Moves

(* Nothing that a request does restarts the process.                       *)
LEMMA MovesInProcess ==
    ASSUME NEW r \in Requests, Moves(r)
    PROVE  UNCHANGED <<register, restarts>>
  BY DEF Moves, LinkMoves, LinkBegin, LinkStep, LinkReturn, LinkRefused,
         LinkTaken, LinkLookup, LinkSave, RemoveMoves, RemoveBegin,
         AdminRemoveBegin, RemoveSave, Create, RegisterMoves, RegisterBegin,
         RegisterStep, RegisterRead, RegisterSave, RegisterReplace,
         RegisterInsert, Fail

Positions == {"idle", "away"} \cup Working \cup Ended

(* A request that is answered is left with nothing.                        *)
LEMMA AnswerType ==
    ASSUME TypeOK, NEW r \in Requests, NEW how \in Ended, Answer(r, how)
    PROVE  /\ pc' \in [Requests -> Positions]
           /\ flow' \in [Requests -> Flow]
           /\ copy' \in [Requests -> Copies \cup {None}]
           /\ pc'[r] = how
  BY RestartsAssumption
     DEF TypeOK, Answer, Goto, NoFlow, Flow, Positions

(* What a request that reads a document has then.                          *)
LEMMA LoadType ==
    ASSUME TypeOK, NEW r \in Requests, NEW u \in Accounts, Load(r, u)
    PROVE  /\ copy' \in [Requests -> Copies \cup {None}]
           /\ copy'[r].id = u
           /\ copy'[r].doc = user[u]
  <1>1. [id |-> u, doc |-> user[u]] \in Copies
    BY DEF TypeOK, Copies
  <1> QED
    BY <1>1 DEF TypeOK, Load

(* Where a request goes on.                                                *)
LEMMA GotoType ==
    ASSUME TypeOK, NEW r \in Requests, NEW where \in Positions, Goto(r, where)
    PROVE  pc' \in [Requests -> Positions] /\ pc'[r] = where
  BY DEF TypeOK, Goto, Positions

-----------------------------------------------------------------------------
(* What is written.                                                        *)

(* The save of a list: the rest of the document stays.                     *)
Saves(r) ==
    /\ pc[r] = "save"
    /\ Loaded(r)
    /\ SaveList(copy[r].id, ListOf(flow[r].item), NewList(r))
    /\ pc'[r] \in Ended

(* A new document with at most one credential.                             *)
StoresNew(r) ==
    /\ r \in Creates
    /\ pc[r] = "idle" /\ pc'[r] = "created"
    /\ \E u \in Accounts, list \in SUBSET Items :
          ~Exists(u) /\ user' = [user EXCEPT ![u] = list]

(* A document that holds the registered key alone.                         *)
Replaces(r) ==
    /\ r \in Registers
    /\ pc[r] \in {"replace", "insert"}
    /\ pc'[r] \in Ended
    /\ register /\ flow[r].item \in Keys /\ flow[r].user \in Accounts
    /\ user' = [user EXCEPT ![flow[r].user] = {flow[r].item}]

(* The user collection changes in these three ways only.                   *)
LEMMA WriteKinds ==
    ASSUME CredsInv, NEW r \in Requests, Moves(r)
    PROVE  UNCHANGED user \/ Saves(r) \/ StoresNew(r) \/ Replaces(r)
  <1>1. CASE r \in Links /\ LinkMoves(r)
    <2>1. CASE LinkSave(r) /\ ~UNCHANGED user
      <3>1. /\ pc[r] = "save"
            /\ SaveList(copy[r].id, ListOf(flow[r].item), NewList(r))
            /\ Answer(r, "added")
        BY <2>1 DEF LinkSave
      <3>2. Loaded(r)
        BY <1>1, <3>1 DEF CredsInv, LinkAt
      <3> QED
        BY <3>1, <3>2, AnswerType DEF Saves, CredsInv, Ended
    <2> QED
      BY <1>1, <2>1 DEF LinkMoves, LinkBegin, LinkStep, LinkReturn,
                        LinkRefused, LinkTaken, LinkLookup, Fail
  <1>2. CASE r \in Removes /\ RemoveMoves(r)
    <2>1. CASE RemoveSave(r) /\ ~UNCHANGED user
      <3>1. /\ pc[r] = "save"
            /\ SaveList(copy[r].id, ListOf(flow[r].item), NewList(r))
            /\ Answer(r, "removed")
        BY <2>1 DEF RemoveSave
      <3>2. Loaded(r)
        BY <1>2, <3>1 DEF CredsInv, RemoveAt
      <3> QED
        BY <3>1, <3>2, AnswerType DEF Saves, CredsInv, Ended
    <2> QED
      BY <1>2, <2>1 DEF RemoveMoves, RemoveBegin, AdminRemoveBegin, Fail
  <1>3. CASE r \in Creates /\ Create(r)
    <2>1. CASE ~UNCHANGED user
      <3>1. PICK x \in Googles \cup Microsofts \cup {None} :
                /\ \E u \in {v \in Accounts : ~Exists(v)} :
                      user' = [user EXCEPT ![u] = {x} \ {None}]
                /\ Answer(r, "created")
        BY <1>3, <2>1 DEF Create
      <3>2. {x} \ {None} \in SUBSET Items
        BY DEF Items
      <3>3. pc'[r] = "created"
        BY <3>1, AnswerType DEF CredsInv, Ended
      <3> QED
        BY <1>3, <3>1, <3>2, <3>3 DEF Create, StoresNew
    <2> QED
      BY <2>1
  <1>4. CASE r \in Registers /\ RegisterMoves(r)
    <2>1. CASE RegisterSave(r) /\ ~UNCHANGED user
      <3>1. /\ pc[r] = "save"
            /\ SaveList(copy[r].id, Keys, NewList(r))
            /\ Answer(r, "added")
        BY <2>1 DEF RegisterSave
      <3>2. Loaded(r) /\ ListOf(flow[r].item) = Keys
        BY <1>4, <3>1, ListOfKey DEF CredsInv, RegisterAt
      <3> QED
        BY <3>1, <3>2, AnswerType DEF Saves, CredsInv, Ended
    <2>2. CASE (RegisterReplace(r) \/ RegisterInsert(r)) /\ ~UNCHANGED user
      <3>1. Answer(r, "added")
        BY <2>2 DEF RegisterReplace, RegisterInsert
      <3>2. pc'[r] \in Ended
        BY <3>1, AnswerType DEF CredsInv, Ended
      <3> QED
        BY <1>4, <2>2, <3>2 DEF RegisterReplace, RegisterInsert, Replaces,
                                CredsInv, RegisterAt
    <2> QED
      BY <1>4, <2>1, <2>2 DEF RegisterMoves, RegisterBegin, RegisterStep,
                              RegisterRead, Fail
  <1> QED
    BY <1>1, <1>2, <1>3, <1>4 DEF Moves

(* Documents stay what they are, and are never deleted.                    *)
LEMMA UserStep ==
    ASSUME CredsInv, [Next]_vars
    PROVE  /\ user' \in [Accounts -> (SUBSET Items) \cup {None}]
           /\ \A u \in Accounts : Exists(u) => Exists(u)'
  <1>1. CASE UNCHANGED user
    BY <1>1 DEF CredsInv, TypeOK, Exists
  <1>2. ASSUME NEW r \in Requests, Moves(r), ~UNCHANGED user
        PROVE  /\ user' \in [Accounts -> (SUBSET Items) \cup {None}]
               /\ \A u \in Accounts : Exists(u) => Exists(u)'
    <2>1. PICK u \in Accounts, list \in SUBSET Items :
              user' = [user EXCEPT ![u] = list]
      <3>1. CASE Saves(r)
        <4>1. PICK u \in Accounts : u = copy[r].id
          BY <3>1 DEF Saves, Loaded
        <4>2. user[u] \in SUBSET Items /\ NewList(r) \subseteq Items
          BY <3>1, <4>1, DocType, NewListIs DEF Saves, Loaded, CredsInv
        <4>3. (user[u] \ ListOf(flow[r].item)) \cup NewList(r)
                  \in SUBSET Items
          BY <4>2
        <4> QED
          BY <3>1, <4>1, <4>3 DEF Saves, SaveList, CredsInv, TypeOK
      <3>2. CASE StoresNew(r)
        BY <3>2 DEF StoresNew
      <3>3. CASE Replaces(r)
        BY <3>3 DEF Replaces, Items
      <3> QED
        BY <1>2, <3>1, <3>2, <3>3, WriteKinds
    <2>2. list # None
      BY CredentialKindsAssumption
    <2> QED
      BY <2>1, <2>2 DEF CredsInv, TypeOK, Exists
  <1> QED
    BY <1>1, <1>2, StepKinds DEF vars, SignIns, KeySignIn, CodeSignIn, Restart
-----------------------------------------------------------------------------
(* The invariant.                                                          *)

(* The parts of the state that a step of a request has to keep in type.    *)
TypedRest ==
    /\ cookies \subseteq Cookies
    /\ register \in BOOLEAN
    /\ restarts \in 0..MaxRestarts
    /\ pc \in [Requests -> Positions]
    /\ flow \in [Requests -> Flow]
    /\ copy \in [Requests -> Copies \cup {None}]

(* A request that has read a document of an account that exists.           *)
LEMMA LoadedNow ==
    ASSUME CredsInv, [Next]_vars, NEW r \in Requests,
           NEW u \in Accounts, Exists(u), Load(r, u), flow'[r].item \in Items
    PROVE  Loaded(r)' /\ copy'[r].id = u
  <1>1. copy'[r].id = u /\ copy'[r].doc = user[u] /\ Exists(u)'
    BY LoadType, UserStep DEF CredsInv
  <1>2. user[u] \in SUBSET Items
    BY DocType DEF CredsInv
  <1> QED
    BY <1>1, <1>2 DEF Loaded, Exists

(* What a request has read stays read.                                     *)
LEMMA LoadedStays ==
    ASSUME CredsInv, [Next]_vars, NEW r,
           Loaded(r), copy'[r] = copy[r], flow'[r] = flow[r]
    PROVE  Loaded(r)'
  BY UserStep DEF Loaded, Exists

(* A step of a Link.                                                       *)
LEMMA LinkTyped ==
    ASSUME CredsInv, [Next]_vars, NEW r \in Links, LinkMoves(r)
    PROVE  TypedRest' /\ LinkAt(r)'
  <1>1. r \in Requests /\ TypeOK /\ LinkAt(r)
    BY DEF CredsInv, Requests
  <1>2. ASSUME NEW how \in Ended, Answer(r, how)
        PROVE  LinkAt(r)' /\ how \in Positions
    BY <1>1, <1>2, AnswerType DEF LinkAt, Ended, Positions
  <1>3. CASE LinkBegin(r)
    <2>1. PICK x \in Items, s \in SessionUsers :
              flow' = [flow EXCEPT ![r] = [item |-> x, user |-> s,
                                           secret |-> restarts]]
      BY <1>3 DEF LinkBegin
    <2>2. [item |-> x, user |-> s, secret |-> restarts] \in Flow
      BY <1>1 DEF Flow, SessionUsers, TypeOK
    <2>3. flow' \in [Requests -> Flow] /\ flow'[r].item = x
      BY <1>1, <2>1, <2>2 DEF TypeOK
    <2> QED
      BY <1>1, <1>3, <2>3, GotoType
         DEF LinkBegin, TypedRest, TypeOK, LinkAt, Positions, Ended
  <1>4. CASE LinkReturn(r)
    <2>1. PICK s \in SessionUsers :
        \/ Answer(r, "forbidden")
        \/ Goto(r, "lookup") /\ UNCHANGED <<flow, copy>>
        \/ Answer(r, "conflict")
        \/ /\ s # None /\ s = flow[r].user
           /\ Load(r, s)
           /\ Goto(r, "taken") \/ Goto(r, "save")
           /\ UNCHANGED flow
      BY <1>4 DEF LinkReturn
    <2>2. /\ UNCHANGED <<user, cookies, register, restarts>>
          /\ flow[r].item \in Items
          /\ flow[r].secret = restarts
      BY <1>1, <1>4 DEF LinkReturn, LinkAt
    <2>3. CASE Answer(r, "forbidden") \/ Answer(r, "conflict")
      BY <1>1, <1>2, <2>2, <2>3, AnswerType DEF TypedRest, TypeOK, Ended
    <2>4. CASE Goto(r, "lookup") /\ UNCHANGED <<flow, copy>>
      BY <1>1, <2>2, <2>4, GotoType
         DEF TypedRest, TypeOK, LinkAt, Positions, Working, Ended
    <2>5. CASE /\ s # None /\ s = flow[r].user
               /\ Load(r, s)
               /\ Goto(r, "taken") \/ Goto(r, "save")
               /\ UNCHANGED flow
      <3>1. s \in Accounts /\ Exists(s)
        BY <1>1, <2>5, SessionExists
      <3>2. Loaded(r)' /\ copy'[r].id = s
        BY <1>1, <2>2, <2>5, <3>1, LoadedNow
      <3>3. /\ pc' \in [Requests -> Positions]
            /\ pc'[r] = "taken" \/ pc'[r] = "save"
        BY <1>1, <2>5, GotoType DEF Positions, Working
      <3>4. LinkAt(r)'
        BY <2>2, <2>5, <3>2, <3>3 DEF LinkAt
      <3>5. copy' \in [Requests -> Copies \cup {None}]
        BY <1>1, <2>5, <3>1, LoadType
      <3> QED
        BY <1>1, <2>2, <2>5, <3>3, <3>4, <3>5 DEF TypedRest, TypeOK
    <2> QED
      BY <2>1, <2>3, <2>4, <2>5
  <1>5. CASE LinkRefused(r)
    BY <1>1, <1>2, <1>5, AnswerType DEF LinkRefused, TypedRest, TypeOK, Ended
  <1>6. CASE LinkTaken(r)
    <2>1. CASE Answer(r, "conflict")
      BY <1>1, <1>2, <1>6, <2>1, AnswerType
         DEF LinkTaken, TypedRest, TypeOK, Ended
    <2>2. CASE Goto(r, "save") /\ UNCHANGED <<flow, copy>>
      <3>1. Loaded(r)'
        BY <1>1, <1>6, <2>2, LoadedStays DEF LinkTaken, LinkAt
      <3>2. pc' \in [Requests -> Positions] /\ pc'[r] = "save"
        BY <1>1, <2>2, GotoType DEF Positions, Working
      <3>3. LinkAt(r)'
        BY <1>1, <1>6, <2>2, <3>1, <3>2 DEF LinkTaken, LinkAt
      <3> QED
        BY <1>1, <1>6, <2>2, <3>2, <3>3 DEF LinkTaken, TypedRest, TypeOK
    <2> QED
      BY <1>6, <2>1, <2>2 DEF LinkTaken
  <1>7. CASE LinkLookup(r)
    <2>1. cookies' \subseteq Cookies
      BY <1>1, <1>7 DEF LinkLookup, TypeOK, Cookies, Owners
    <2>2. Answer(r, "forbidden") \/ Answer(r, "signed_in")
      BY <1>7 DEF LinkLookup
    <2> QED
      BY <1>1, <1>2, <1>7, <2>1, <2>2, AnswerType
         DEF LinkLookup, TypedRest, TypeOK, Ended
  <1>8. CASE LinkSave(r)
    <2>1. cookies' \subseteq Cookies
      BY <1>1, <1>8 DEF LinkSave, TypeOK, Cookies, LinkAt, Loaded
    <2>2. Answer(r, "error") \/ Answer(r, "added")
      BY <1>8 DEF LinkSave
    <2> QED
      BY <1>1, <1>2, <1>8, <2>1, <2>2, AnswerType
         DEF LinkSave, TypedRest, TypeOK, Ended
  <1>9. CASE Fail(r)
    BY <1>1, <1>2, <1>9, AnswerType DEF Fail, TypedRest, TypeOK, Ended
  <1> QED
    BY <1>3, <1>4, <1>5, <1>6, <1>7, <1>8, <1>9 DEF LinkMoves, LinkStep

(* A step of a Remove.                                                     *)
LEMMA RemoveTyped ==
    ASSUME CredsInv, [Next]_vars, NEW r \in Removes, RemoveMoves(r)
    PROVE  TypedRest' /\ RemoveAt(r)'
  <1>1. r \in Requests /\ TypeOK /\ RemoveAt(r)
    BY DEF CredsInv, Requests
  <1>2. ASSUME NEW how \in Ended, Answer(r, how),
               UNCHANGED <<cookies, register, restarts>>
        PROVE  TypedRest' /\ RemoveAt(r)'
    <2>1. RemoveAt(r)'
      BY <1>1, <1>2, AnswerType DEF RemoveAt, Ended
    <2> QED
      BY <1>1, <1>2, <2>1, AnswerType DEF TypedRest, TypeOK
  <1>3. ASSUME NEW x \in Items, NEW u \in Accounts, Exists(u),
               flow' = [flow EXCEPT ![r].item = x],
               Load(r, u), Goto(r, "save"),
               UNCHANGED <<cookies, register, restarts>>
        PROVE  TypedRest' /\ RemoveAt(r)'
    <2>1. [flow[r] EXCEPT !.item = x] \in Flow
      BY <1>1 DEF TypeOK, Flow
    <2>2. flow' \in [Requests -> Flow] /\ flow'[r].item = x
      BY <1>1, <1>3, <2>1 DEF TypeOK, Flow
    <2>3. Loaded(r)'
      BY <1>1, <1>3, <2>2, LoadedNow
    <2>4. pc' \in [Requests -> Positions] /\ pc'[r] = "save"
      BY <1>1, <1>3, GotoType DEF Positions, Working
    <2>5. copy' \in [Requests -> Copies \cup {None}]
      BY <1>1, <1>3, LoadType
    <2> QED
      BY <1>1, <1>3, <2>2, <2>3, <2>4, <2>5 DEF TypedRest, TypeOK, RemoveAt
  <1>4. CASE RemoveBegin(r)
    <2>1. PICK x \in Items, s \in SessionUsers :
        \/ Answer(r, "forbidden")
        \/ Answer(r, "not_found")
        \/ /\ s # None
           /\ flow' = [flow EXCEPT ![r].item = x]
           /\ Load(r, s)
           /\ Goto(r, "save")
      BY <1>4 DEF RemoveBegin
    <2> QED
      BY <1>1, <1>2, <1>3, <1>4, <2>1, SessionExists DEF RemoveBegin, Ended
  <1>5. CASE AdminRemoveBegin(r)
    BY <1>2, <1>3, <1>5 DEF AdminRemoveBegin, Ended
  <1>6. CASE RemoveSave(r)
    BY <1>2, <1>6 DEF RemoveSave, Ended
  <1>7. CASE Fail(r)
    BY <1>2, <1>7 DEF Fail, Ended
  <1> QED
    BY <1>4, <1>5, <1>6, <1>7 DEF RemoveMoves

(* A step of a Create.                                                     *)
LEMMA CreateTyped ==
    ASSUME CredsInv, NEW r \in Creates, Create(r)
    PROVE  TypedRest' /\ CreateAt(r)'
  <1>1. r \in Requests /\ TypeOK
    BY DEF CredsInv, Requests
  <1>2. Answer(r, "conflict") \/ Answer(r, "created")
    BY DEF Create
  <1> QED
    BY <1>1, <1>2, AnswerType DEF Create, TypedRest, TypeOK, CreateAt, Ended

(* A step of a Register.                                                   *)
LEMMA RegisterTyped ==
    ASSUME CredsInv, [Next]_vars, NEW r \in Registers, RegisterMoves(r)
    PROVE  TypedRest' /\ RegisterAt(r)'
  <1>1. r \in Requests /\ TypeOK /\ RegisterAt(r)
    BY DEF CredsInv, Requests
  <1>2. ASSUME NEW how \in Ended, Answer(r, how),
               UNCHANGED <<cookies, register, restarts>>
        PROVE  TypedRest' /\ RegisterAt(r)'
    <2>1. RegisterAt(r)'
      BY <1>1, <1>2, AnswerType DEF RegisterAt, Ended
    <2> QED
      BY <1>1, <1>2, <2>1, AnswerType DEF TypedRest, TypeOK
  <1>3. CASE RegisterBegin(r)
    <2>1. PICK k \in Keys, u \in Accounts :
        \/ Answer(r, "conflict")
        \/ /\ flow' = [flow EXCEPT ![r] = [item |-> k, user |-> u,
                                           secret |-> restarts]]
           /\ Goto(r, "read")
           /\ UNCHANGED copy
      BY <1>3 DEF RegisterBegin
    <2>2. [item |-> k, user |-> u, secret |-> restarts] \in Flow
      BY <1>1 DEF Flow, Items, TypeOK
    <2>3. CASE /\ flow' = [flow EXCEPT ![r] = [item |-> k, user |-> u,
                                               secret |-> restarts]]
               /\ Goto(r, "read")
               /\ UNCHANGED copy
      <3>1. /\ flow' \in [Requests -> Flow]
            /\ flow'[r].item = k /\ flow'[r].user = u
        BY <1>1, <2>2, <2>3 DEF TypeOK
      <3>2. pc' \in [Requests -> Positions] /\ pc'[r] = "read"
        BY <1>1, <2>3, GotoType DEF Positions, Working
      <3>3. RegisterAt(r)'
        BY <1>3, <3>1, <3>2 DEF RegisterBegin, RegisterAt
      <3> QED
        BY <1>1, <1>3, <2>3, <3>1, <3>2, <3>3
           DEF RegisterBegin, TypedRest, TypeOK
    <2> QED
      BY <1>2, <1>3, <2>1, <2>3 DEF RegisterBegin, Ended
  <1>4. CASE RegisterRead(r) /\ ~Answer(r, "bad_request")
    <2>1. /\ Load(r, flow[r].user)
          /\ Goto(r, IF Exists(flow[r].user) THEN "save" ELSE "replace")
          /\ UNCHANGED <<flow, user, cookies, register, restarts>>
      BY <1>4 DEF RegisterRead
    <2>2. register /\ flow[r].item \in Keys /\ flow[r].user \in Accounts
      BY <1>1, <1>4 DEF RegisterRead, RegisterAt
    <2>3. copy' \in [Requests -> Copies \cup {None}]
      BY <1>1, <2>1, <2>2, LoadType
    <2>4. CASE Exists(flow[r].user)
      <3>1. Loaded(r)' /\ copy'[r].id = flow[r].user
        BY <1>1, <2>1, <2>2, <2>4, LoadedNow DEF Items
      <3>2. pc' \in [Requests -> Positions] /\ pc'[r] = "save"
        BY <1>1, <2>1, <2>4, GotoType DEF Positions, Working
      <3>3. RegisterAt(r)'
        BY <2>1, <2>2, <3>1, <3>2 DEF RegisterAt
      <3> QED
        BY <1>1, <2>1, <2>3, <3>2, <3>3 DEF TypedRest, TypeOK
    <2>5. CASE ~Exists(flow[r].user)
      <3>1. pc' \in [Requests -> Positions] /\ pc'[r] = "replace"
        BY <1>1, <2>1, <2>5, GotoType DEF Positions, Working
      <3>2. RegisterAt(r)'
        BY <2>1, <2>2, <3>1 DEF RegisterAt
      <3> QED
        BY <1>1, <2>1, <2>3, <3>1, <3>2 DEF TypedRest, TypeOK
    <2> QED
      BY <2>4, <2>5
  <1>5. CASE RegisterRead(r) /\ Answer(r, "bad_request")
    BY <1>2, <1>5 DEF RegisterRead, Ended
  <1>6. CASE RegisterSave(r)
    BY <1>2, <1>6 DEF RegisterSave, Ended
  <1>7. CASE RegisterReplace(r)
    <2>1. CASE Goto(r, "insert") /\ UNCHANGED <<user, flow, copy>>
      <3>1. pc' \in [Requests -> Positions] /\ pc'[r] = "insert"
        BY <1>1, <2>1, GotoType DEF Positions, Working
      <3>2. RegisterAt(r)'
        BY <1>1, <1>7, <2>1, <3>1 DEF RegisterReplace, RegisterAt
      <3> QED
        BY <1>1, <1>7, <2>1, <3>1, <3>2 DEF RegisterReplace, TypedRest, TypeOK
    <2> QED
      BY <1>2, <1>7, <2>1 DEF RegisterReplace, Ended
  <1>8. CASE RegisterInsert(r)
    BY <1>2, <1>8 DEF RegisterInsert, Ended
  <1>9. CASE Fail(r)
    BY <1>2, <1>9 DEF Fail, Ended
  <1> QED
    BY <1>3, <1>4, <1>5, <1>6, <1>7, <1>8, <1>9 DEF RegisterMoves, RegisterStep
(* What a request knows it knows for as long as it does not move.          *)
LEMMA AtStays ==
    ASSUME CredsInv, [Next]_vars, NEW q \in Requests, UNCHANGED Local(q),
           UNCHANGED <<register, restarts>>
    PROVE  /\ q \in Links => LinkAt(q)'
           /\ q \in Removes => RemoveAt(q)'
           /\ q \in Creates => CreateAt(q)'
           /\ q \in Registers => RegisterAt(q)'
  <1>1. Loaded(q) => Loaded(q)'
    BY LoadedStays DEF Local
  <1> QED
    BY <1>1 DEF CredsInv, Local, LinkAt, RemoveAt, CreateAt, RegisterAt

(* A restart ends the requests under way; begun links are left away.       *)
LEMMA RestartStep ==
    ASSUME CredsInv, Restart
    PROVE  /\ TypedRest'
           /\ \A r \in Requests :
                 \/ pc'[r] \in {"idle"} \cup Ended
                 \/ pc[r] = "away" /\ UNCHANGED <<pc[r], flow[r]>>
  <1>1. TypeOK
    BY DEF CredsInv
  <1>2. restarts' \in 0..MaxRestarts
    BY <1>1, RestartsAssumption DEF Restart, TypeOK
  <1>3. NoFlow \in Flow
    BY RestartsAssumption DEF NoFlow, Flow
  <1>4. \A r \in Requests :
           \/ pc'[r] \in {"idle"} \cup Ended
           \/ pc[r] = "away" /\ UNCHANGED <<pc[r], flow[r]>>
    BY <1>1 DEF Restart, TypeOK, Working, Ended
  <1>5. pc' \in [Requests -> Positions]
    BY <1>4 DEF Restart, Positions
  <1>6. flow' \in [Requests -> Flow]
    BY <1>1, <1>3 DEF Restart, TypeOK
  <1> QED
    BY <1>2, <1>4, <1>5, <1>6 DEF Restart, TypedRest, Cookies

(* The invariant is inductive.                                             *)
LEMMA InvStep ==
    ASSUME CredsInv, [Next]_vars
    PROVE  CredsInv'
  <1>1. TypeOK
    BY DEF CredsInv
  <1>2. ASSUME TypedRest', \A r \in Links : LinkAt(r)',
               \A r \in Removes : RemoveAt(r)',
               \A r \in Creates : CreateAt(r)',
               \A r \in Registers : RegisterAt(r)'
        PROVE  CredsInv'
    BY <1>2, UserStep DEF CredsInv, TypeOK, TypedRest, Positions
  <1>3. ASSUME UNCHANGED <<pc, flow, copy, register, restarts>>, TypedRest'
        PROVE  CredsInv'
    BY <1>2, <1>3, AtStays DEF Local, Requests
  <1>4. CASE UNCHANGED vars
    BY <1>1, <1>3, <1>4 DEF vars, TypedRest, TypeOK, Positions
  <1>5. CASE SignIns
    BY <1>1, <1>3, <1>5
       DEF SignIns, KeySignIn, CodeSignIn, TypedRest, TypeOK, Positions,
           Cookies
  <1>6. CASE Restart
    <2>1. TypedRest'
      BY <1>6, RestartStep
    <2>2. \A r \in Links : LinkAt(r)'
      BY <1>6, RestartStep DEF CredsInv, LinkAt, Requests, Ended
    <2>3. /\ \A r \in Removes : RemoveAt(r)'
          /\ \A r \in Creates : CreateAt(r)'
          /\ \A r \in Registers : RegisterAt(r)'
      BY <1>6, RestartStep
         DEF CredsInv, RemoveAt, CreateAt, RegisterAt, Requests, Ended
    <2> QED
      BY <1>2, <2>1, <2>2, <2>3
  <1>7. ASSUME NEW r \in Requests, Moves(r)
        PROVE  CredsInv'
    <2>1. \A q \in Requests : q # r => UNCHANGED Local(q)
      BY <1>1, <1>7, OthersStay
    <2>2. /\ TypedRest'
          /\ r \in Links => LinkAt(r)'
          /\ r \in Removes => RemoveAt(r)'
          /\ r \in Creates => CreateAt(r)'
          /\ r \in Registers => RegisterAt(r)'
      BY <1>7, OneKind, LinkTyped, RemoveTyped, CreateTyped, RegisterTyped
         DEF Moves
    <2>3. UNCHANGED <<register, restarts>>
      BY <1>7, MovesInProcess
    <2>4. \A q \in Requests : /\ q \in Links => LinkAt(q)'
                              /\ q \in Removes => RemoveAt(q)'
                              /\ q \in Creates => CreateAt(q)'
                              /\ q \in Registers => RegisterAt(q)'
      BY <2>1, <2>2, <2>3, AtStays
    <2> QED
      BY <1>2, <2>2, <2>4 DEF Requests
  <1> QED
    BY <1>4, <1>5, <1>6, <1>7, StepKinds

(* At the start no request is under way.                                   *)
LEMMA InitInv ==
    ASSUME Init
    PROVE  CredsInv
  <1>1. NoFlow \in Flow
    BY RestartsAssumption DEF NoFlow, Flow
  <1>2. TypeOK
    BY <1>1, RestartsAssumption DEF Init, TypeOK, Cookies
  <1>3. \A r \in Requests : pc[r] = "idle"
    BY DEF Init
  <1> QED
    BY <1>2, <1>3 DEF CredsInv, LinkAt, RemoveAt, CreateAt, RegisterAt,
                      Requests, Ended

(* In every state a request is where one of its kind can be, and the       *)
(* document it is to save exists and is as it has read it.                 *)
THEOREM Invariance == Spec => []CredsInv
  BY InitInv, InvStep, PTL DEF Spec

(* Every variable has its type, though documents are written from copies.  *)
THEOREM TypeCorrect == Spec => []TypeOK
  <1>1. CredsInv => TypeOK
    BY DEF CredsInv
  <1> QED
    BY <1>1, Invariance, PTL

(* Whoever writes a credential into a document may give it.                *)
LEMMA GiveStep ==
    ASSUME CredsInv, [Next]_vars, NEW u \in Accounts, NEW x \in Items,
           u \notin Owners(x), u \in Owners(x)'
    PROVE  \E r \in Requests : MayGive(r, u, x)
  <1>1. TypeOK
    BY DEF CredsInv
  <1>2. /\ Exists(u) => x \notin user[u]
        /\ Exists(u)' /\ x \in user'[u]
    BY DEF Owners
  <1>3. user'[u] # user[u]
    BY <1>2 DEF Exists
  <1>4. ASSUME NEW r \in Requests, Saves(r)
        PROVE  MayGive(r, u, x)
    <2>1. copy[r].id = u /\ Exists(u) /\ pc[r] = "save" /\ pc'[r] # pc[r]
      BY <1>1, <1>3, <1>4 DEF Saves, SaveList, Loaded, TypeOK, Ended
    <2>2. user'[u] = (user[u] \ ListOf(flow[r].item)) \cup NewList(r)
      BY <1>1, <1>4, <2>1 DEF Saves, SaveList, TypeOK
    <2>3. x \in NewList(r)
      BY <1>2, <2>1, <2>2
    <2>4. x \in copy[r].doc \/ (r \notin Removes /\ x = flow[r].item)
      BY <1>4, <2>3, NewListIs DEF Saves
    <2>5. CASE x \in copy[r].doc
      BY <2>1, <2>5 DEF MayGive
    <2>6. CASE r \notin Removes /\ x = flow[r].item
      <3>1. CASE r \in Links
        BY <2>1, <2>6, <3>1 DEF CredsInv, LinkAt, MayGive
      <3>2. CASE r \in Registers
        BY <2>1, <2>6, <3>2 DEF CredsInv, RegisterAt, MayGive
      <3>3. r \notin Creates
        BY <2>1 DEF CredsInv, CreateAt, Ended
      <3> QED
        BY <2>6, <3>1, <3>2, <3>3 DEF Requests
    <2> QED
      BY <2>4, <2>5, <2>6
  <1>5. ASSUME NEW r \in Requests, StoresNew(r)
        PROVE  MayGive(r, u, x)
    <2>1. PICK v \in Accounts, list \in SUBSET Items :
              ~Exists(v) /\ user' = [user EXCEPT ![v] = list]
      BY <1>5 DEF StoresNew
    <2>2. v = u
      BY <1>1, <1>3, <2>1 DEF TypeOK
    <2> QED
      BY <1>5, <2>1, <2>2 DEF StoresNew, MayGive
  <1>6. ASSUME NEW r \in Requests, Replaces(r)
        PROVE  MayGive(r, u, x)
    <2>1. flow[r].user = u
      BY <1>1, <1>3, <1>6 DEF Replaces, TypeOK
    <2> QED
      BY <1>6, <2>1 DEF Replaces, MayGive, Ended
  <1> QED
    BY <1>3, <1>4, <1>5, <1>6, StepKinds, WriteKinds
       DEF vars, SignIns, KeySignIn, CodeSignIn, Restart

(* No document gets a credential but by a link that was begun in a session *)
(* of its account and of the running process, a save computed from a copy  *)
(* that had it, a registration for it, or as a new account.                *)
THEOREM LinksGoToBeginners == Spec => LinkedToBeginner
  <1>1. CredsInv /\ [Next]_vars =>
          [\A u \in Accounts, x \in Items :
             u \notin Owners(x) /\ u \in Owners(x)'
                 => \E r \in Requests : MayGive(r, u, x)]_vars
    BY GiveStep
  <1> QED
    BY <1>1, Invariance, PTL DEF Spec, LinkedToBeginner

-----------------------------------------------------------------------------
(* Who is about to write.                                                  *)

(* A request that is about to write a list after a step was so before, or  *)
(* has just read the document.                                             *)
JustRead(r, u) ==
    /\ pc[r] \notin {"taken", "save"}
    /\ Exists(u) /\ user' = user
    /\ copy'[r].doc = user[u]
    /\ flow'[r].item \in Items
    /\ Loaded(r)'

(* Who is about to write a list after its own step.                        *)
LEMMA WriterMoves ==
    ASSUME CredsInv, [Next]_vars, NEW r \in Requests, Moves(r),
           NEW u \in Accounts,
           pc'[r] \in {"taken", "save"}, copy'[r].id = u
    PROVE  \/ UNCHANGED <<flow[r], copy[r]>> /\ pc[r] \in {"taken", "save"}
           \/ JustRead(r, u)
  <1>1. TypeOK
    BY DEF CredsInv
  <1>2. Loaded(r)'
    BY InvStep DEF CredsInv, LinkAt, RemoveAt, CreateAt, RegisterAt, Requests,
                   Ended
  <1>3. ASSUME NEW v \in Accounts, Load(r, v), user' = user,
               pc[r] \notin {"taken", "save"}
        PROVE  JustRead(r, u)
    <2>1. v = u /\ copy'[r].doc = user[u]
      BY <1>1, <1>3, LoadType
    <2> QED
      BY <1>2, <1>3, <2>1 DEF JustRead, Loaded, Exists
  <1>4. ~(\E how \in Ended : Answer(r, how))
    BY <1>1, AnswerType DEF Ended
  <1>5. CASE r \in Links /\ LinkMoves(r)
    <2>1. CASE LinkReturn(r)
      <3>1. PICK s \in SessionUsers :
          \/ Answer(r, "forbidden")
          \/ Goto(r, "lookup") /\ UNCHANGED <<flow, copy>>
          \/ Answer(r, "conflict")
          \/ s # None /\ Load(r, s)
        BY <2>1 DEF LinkReturn
      <3>2. ~Goto(r, "lookup")
        BY <1>1, GotoType DEF Positions, Working
      <3>3. s # None /\ Load(r, s)
        BY <1>4, <3>1, <3>2 DEF Ended
      <3> QED
        BY <1>1, <1>3, <2>1, <3>3, SessionExists DEF LinkReturn
    <2>2. CASE LinkTaken(r)
      BY <1>4, <2>2 DEF LinkTaken, Ended
    <2>3. CASE LinkBegin(r)
      BY <1>1, <2>3, GotoType DEF LinkBegin, Positions
    <2> QED
      BY <1>4, <1>5, <2>1, <2>2, <2>3
         DEF LinkMoves, LinkStep, LinkRefused, LinkLookup, LinkSave, Fail,
             Ended
  <1>6. CASE r \in Removes /\ RemoveMoves(r)
    <2>1. CASE RemoveBegin(r)
      <3>1. PICK x \in Items, s \in SessionUsers :
          \/ Answer(r, "forbidden")
          \/ Answer(r, "not_found")
          \/ s # None /\ Load(r, s)
        BY <2>1 DEF RemoveBegin
      <3>2. s # None /\ Load(r, s)
        BY <1>4, <3>1 DEF Ended
      <3> QED
        BY <1>1, <1>3, <2>1, <3>2, SessionExists DEF RemoveBegin
    <2>2. CASE AdminRemoveBegin(r)
      BY <1>3, <1>4, <2>2 DEF AdminRemoveBegin, Ended
    <2> QED
      BY <1>4, <1>6, <2>1, <2>2 DEF RemoveMoves, RemoveSave, Fail, Ended
  <1>7. CASE r \in Creates /\ Create(r)
    BY <1>4, <1>7 DEF Create, Ended
  <1>8. CASE r \in Registers /\ RegisterMoves(r)
    <2>1. CASE RegisterBegin(r)
      BY <1>1, <1>4, <2>1, GotoType
         DEF RegisterBegin, Positions, Working, Ended
    <2>2. CASE RegisterRead(r)
      <3>1. flow[r].user \in Accounts
        BY <1>8, <2>2 DEF RegisterRead, CredsInv, RegisterAt
      <3>2. Load(r, flow[r].user)
        BY <1>4, <2>2 DEF RegisterRead, Ended
      <3> QED
        BY <1>3, <2>2, <3>1, <3>2 DEF RegisterRead
    <2>3. CASE RegisterReplace(r)
      BY <1>1, <1>4, <2>3, GotoType
         DEF RegisterReplace, Positions, Working, Ended
    <2> QED
      BY <1>4, <1>8, <2>1, <2>2, <2>3
         DEF RegisterMoves, RegisterStep, RegisterSave, RegisterInsert, Fail,
             Ended
  <1> QED
    BY <1>5, <1>6, <1>7, <1>8 DEF Moves

(* Who is about to write a list after anybody's step.                      *)
LEMMA WritersAfter ==
    ASSUME CredsInv, [Next]_vars, NEW r \in Requests, NEW u \in Accounts,
           pc'[r] \in {"taken", "save"}, copy'[r].id = u
    PROVE  \/ UNCHANGED <<flow[r], copy[r]>> /\ pc[r] \in {"taken", "save"}
           \/ JustRead(r, u)
  <1>1. CASE UNCHANGED vars \/ SignIns
    BY <1>1 DEF vars, SignIns, KeySignIn, CodeSignIn
  <1>2. CASE Restart
    BY <1>2, RestartStep DEF Ended
  <1>3. ASSUME NEW q \in Requests, Moves(q), q # r
        PROVE  UNCHANGED Local(r)
    BY <1>3, OthersStay DEF CredsInv
  <1> QED
    BY <1>1, <1>2, <1>3, StepKinds, WriterMoves DEF Local

(* Who is about to replace a document after a step.                        *)
LEMMA ReplacersAfter ==
    ASSUME CredsInv, [Next]_vars, NEW r \in Requests,
           pc'[r] \in {"replace", "insert"}
    PROVE  \/ flow'[r] = flow[r] /\ pc[r] \in {"replace", "insert"}
           \/ /\ r \in Registers
              /\ pc[r] = "read" /\ pc'[r] = "replace"
              /\ flow'[r] = flow[r]
              /\ copy'[r].id = flow[r].user
              /\ flow[r].user \in Accounts /\ ~Exists(flow[r].user)
              /\ user' = user
  <1>1. TypeOK
    BY DEF CredsInv
  <1>2. CASE UNCHANGED vars \/ SignIns
    BY <1>2 DEF vars, SignIns, KeySignIn, CodeSignIn
  <1>3. CASE Restart
    BY <1>3, RestartStep DEF Ended
  <1>4. ASSUME NEW q \in Requests, Moves(q), q # r
        PROVE  UNCHANGED Local(r)
    BY <1>4, OthersStay DEF CredsInv
  <1>5. CASE Moves(r)
    <2>1. r \in Registers
      BY InvStep DEF CredsInv, LinkAt, RemoveAt, CreateAt, Requests, Ended
    <2>2. RegisterMoves(r)
      BY <1>5, <2>1, OneKind DEF Moves
    <2>3. ~(\E how \in Ended : Answer(r, how))
      BY <1>1, AnswerType DEF Ended
    <2>4. CASE RegisterBegin(r)
      BY <1>1, <2>3, <2>4, GotoType DEF RegisterBegin, Positions, Working,
                                        Ended
    <2>5. CASE RegisterRead(r)
      <3>1. /\ Load(r, flow[r].user)
            /\ Goto(r, IF Exists(flow[r].user) THEN "save" ELSE "replace")
            /\ UNCHANGED <<flow, user>>
            /\ pc[r] = "read"
        BY <2>3, <2>5 DEF RegisterRead, Ended
      <3>2. flow[r].user \in Accounts
        BY <2>1, <3>1 DEF CredsInv, RegisterAt
      <3>3. copy'[r].id = flow[r].user
        BY <1>1, <3>1, <3>2, LoadType
      <3>4. ~Exists(flow[r].user) /\ pc'[r] = "replace"
        BY <1>1, <3>1, GotoType DEF Positions, Working
      <3> QED
        BY <2>1, <3>1, <3>2, <3>3, <3>4
    <2>6. CASE RegisterReplace(r)
      BY <2>3, <2>6 DEF RegisterReplace, Ended
    <2> QED
      BY <2>2, <2>3, <2>4, <2>5, <2>6
         DEF RegisterMoves, RegisterStep, RegisterSave, RegisterInsert, Fail,
             Ended
  <1> QED
    BY <1>2, <1>3, <1>4, <1>5, StepKinds DEF Local
-----------------------------------------------------------------------------
(* Credentials stay, and stay away.                                        *)

(* A list read from a document and changed in one credential.              *)
LEMMA ListEdit ==
    ASSUME NEW r, NEW y \in Items, NEW doc \in SUBSET Items, NEW list,
           list = IF r \in Removes THEN (doc \cap ListOf(y)) \ {y}
                                   ELSE (doc \cap ListOf(y)) \cup {y}
    PROVE  \A x \in Items :
              x \in list <=> /\ x \in ListOf(y)
                             /\ IF r \in Removes THEN x \in doc /\ x # y
                                                 ELSE x \in doc \/ x = y
  BY ListOfItem

(* What a request that has just read the document of u is to write.        *)
LEMMA JustReadList ==
    ASSUME NEW r, NEW u, JustRead(r, u), NEW x \in Items
    PROVE  x \in NewList(r)' <=>
              /\ x \in ListOf(flow'[r].item)
              /\ IF r \in Removes THEN x \in user[u] /\ x # flow'[r].item
                                  ELSE x \in user[u] \/ x = flow'[r].item
  <1>1. PICK list : list = NewList(r)'
    OBVIOUS
  <1>2. PICK y : y = flow'[r].item
    OBVIOUS
  <1>3. PICK doc : doc = copy'[r].doc
    OBVIOUS
  <1>4. y \in Items /\ doc \in SUBSET Items /\ doc = user[u]
    BY <1>2, <1>3 DEF JustRead, Loaded
  <1>5. list = IF r \in Removes THEN (doc \cap ListOf(y)) \ {y}
                                ELSE (doc \cap ListOf(y)) \cup {y}
    BY <1>1, <1>2, <1>3 DEF NewList
  <1>6. x \in list <=> /\ x \in ListOf(y)
                       /\ IF r \in Removes THEN x \in doc /\ x # y
                                           ELSE x \in doc \/ x = y
    BY <1>4, <1>5, ListEdit
  <1> QED
    BY <1>1, <1>2, <1>3, <1>4, <1>6

(* The save of a list takes nothing that it does not know about.           *)
LEMMA HeldOwner ==
    ASSUME CredsInv, [Next]_vars, NEW u \in Accounts, NEW x \in Items,
           Held(u, x)
    PROVE  u \in Owners(x)'
  <1>1. u \in Accounts /\ Exists(u) /\ x \in user[u]
    BY DEF Held, Owners
  <1>2. Exists(u)'
    BY <1>1, UserStep
  <1>3. SUFFICES x \in user'[u]
    BY <1>2, <1>3 DEF Owners
  <1>4. TypeOK
    BY DEF CredsInv
  <1>5. ASSUME NEW r \in Requests, Saves(r)
        PROVE  x \in user'[u]
    <2>1. CASE copy[r].id = u
      <3>1. user'[u] = (user[u] \ ListOf(flow[r].item)) \cup NewList(r)
        BY <1>4, <1>5, <2>1 DEF Saves, SaveList, TypeOK
      <3>2. x \in ListOf(flow[r].item) => x \in NewList(r)
        BY <1>5, <2>1 DEF Held, Writers, Saves
      <3> QED
        BY <1>1, <3>1, <3>2
    <2>2. CASE copy[r].id # u
      BY <1>1, <1>4, <1>5, <2>2 DEF Saves, SaveList, TypeOK
    <2> QED
      BY <2>1, <2>2
  <1>6. ASSUME NEW r \in Requests, StoresNew(r)
        PROVE  x \in user'[u]
    BY <1>1, <1>4, <1>6 DEF StoresNew, TypeOK
  <1>7. ASSUME NEW r \in Requests, Replaces(r)
        PROVE  x \in user'[u]
    BY <1>1, <1>4, <1>7 DEF Replaces, TypeOK, Held, Replacers
  <1>8. CASE user' = user
    BY <1>1, <1>8
  <1> QED
    BY <1>5, <1>6, <1>7, <1>8, StepKinds, WriteKinds
       DEF vars, SignIns, KeySignIn, CodeSignIn, Restart

(* A credential that is held is held until its removal is asked for.       *)
LEMMA HeldStep ==
    ASSUME CredsInv, [Next]_vars, NEW u \in Accounts, NEW x \in Items,
           Held(u, x), ~Asks(u, x, Removes)
    PROVE  Held(u, x)'
  <1>1. Exists(u) /\ x \in user[u]
    BY DEF Held, Owners
  <1>2. ASSUME NEW r \in Requests,
               pc'[r] \in {"taken", "save"}, copy'[r].id = u,
               x \in ListOf(flow'[r].item)
        PROVE  x \in NewList(r)'
    <2>1. CASE UNCHANGED <<flow[r], copy[r]>> /\ pc[r] \in {"taken", "save"}
      <3>1. r \in Writers(u, x)
        BY <1>2, <2>1 DEF Writers
      <3>2. NewList(r)' = NewList(r)
        BY <2>1 DEF NewList
      <3> QED
        BY <3>1, <3>2 DEF Held
    <2>2. CASE JustRead(r, u)
      <3>1. ~(r \in Removes /\ x = flow'[r].item)
        <4>1. pc'[r] # pc[r] /\ pc'[r] \in {"taken", "save"}
          BY <1>2, <2>2 DEF JustRead
        <4> QED
          BY <1>2, <4>1 DEF Asks
      <3> QED
        BY <1>1, <1>2, <2>2, <3>1, JustReadList
    <2> QED
      BY <1>2, <2>1, <2>2, WritersAfter
  <1>3. ASSUME NEW r \in Requests,
               pc'[r] \in {"replace", "insert"}, flow'[r].user = u
        PROVE  x = flow'[r].item
    BY <1>1, <1>3, ReplacersAfter DEF Held, Replacers
  <1> QED
    BY <1>2, <1>3, HeldOwner DEF Held, Writers, Replacers

(* A credential is lost only to somebody asking for its removal: the other *)
(* lists of the document, and saves of documents read before, cannot take  *)
(* it away once no save is pending that was computed without it.           *)
THEOREM HeldAreKept == Spec => HeldIsKept
  <1>1. CredsInv /\ [Next]_vars =>
          [\A u \in Accounts, x \in Items :
             Held(u, x) => Held(u, x)' \/ Asks(u, x, Removes)]_vars
    BY HeldStep
  <1> QED
    BY <1>1, Invariance, PTL DEF Spec, HeldIsKept

(* The save of a list adds nothing that it does not know about.            *)
LEMMA GoneOwner ==
    ASSUME CredsInv, [Next]_vars, NEW u \in Accounts, NEW x \in Items,
           Gone(u, x), ~Asks(u, x, Links \cup Creates \cup Registers)
    PROVE  u \notin Owners(x)'
  <1>1. Exists(u) => x \notin user[u]
    BY DEF Gone, Owners
  <1>2. TypeOK
    BY DEF CredsInv
  <1>3. SUFFICES ASSUME Exists(u)', x \in user'[u]
                 PROVE  FALSE
    BY DEF Owners
  <1>4. ASSUME NEW r \in Requests, Saves(r)
        PROVE  FALSE
    <2>1. CASE copy[r].id = u
      <3>1. user'[u] = (user[u] \ ListOf(flow[r].item)) \cup NewList(r)
        BY <1>2, <1>4, <2>1 DEF Saves, SaveList, TypeOK
      <3>2. x \in ListOf(flow[r].item) => x \notin NewList(r)
        BY <1>4, <2>1 DEF Gone, Writers, Saves
      <3>3. NewList(r) \subseteq ListOf(flow[r].item)
        BY <1>4, NewListIs DEF Saves
      <3>4. Exists(u)
        BY <1>4, <2>1 DEF Saves, Loaded
      <3> QED
        BY <1>1, <1>3, <3>1, <3>2, <3>3, <3>4
    <2>2. CASE copy[r].id # u
      BY <1>1, <1>2, <1>3, <1>4, <2>2 DEF Saves, SaveList, TypeOK, Exists
    <2> QED
      BY <2>1, <2>2
  <1>5. ASSUME NEW r \in Requests, StoresNew(r)
        PROVE  FALSE
    <2>1. PICK v \in Accounts, list \in SUBSET Items :
              user' = [user EXCEPT ![v] = list]
      BY <1>5 DEF StoresNew
    <2>2. v # u
      BY <1>5 DEF StoresNew, Asks
    <2> QED
      BY <1>1, <1>2, <1>3, <2>1, <2>2 DEF TypeOK, Exists
  <1>6. ASSUME NEW r \in Requests, Replaces(r)
        PROVE  FALSE
    BY <1>1, <1>2, <1>3, <1>6 DEF Replaces, TypeOK, Gone, Replacers, Exists
  <1>7. CASE user' = user
    BY <1>1, <1>3, <1>7 DEF Exists
  <1> QED
    BY <1>4, <1>5, <1>6, <1>7, StepKinds, WriteKinds
       DEF vars, SignIns, KeySignIn, CodeSignIn, Restart

(* A credential that is gone is gone until it is asked for.                *)
LEMMA GoneStep ==
    ASSUME CredsInv, [Next]_vars, NEW u \in Accounts, NEW x \in Items,
           Gone(u, x), ~Asks(u, x, Links \cup Creates \cup Registers)
    PROVE  Gone(u, x)'
  <1>1. Exists(u) => x \notin user[u]
    BY DEF Gone, Owners
  <1>2. ASSUME NEW r \in Requests,
               pc'[r] \in {"taken", "save"}, copy'[r].id = u,
               x \in ListOf(flow'[r].item)
        PROVE  x \notin NewList(r)'
    <2>1. CASE UNCHANGED <<flow[r], copy[r]>> /\ pc[r] \in {"taken", "save"}
      <3>1. r \in Writers(u, x)
        BY <1>2, <2>1 DEF Writers
      <3>2. NewList(r)' = NewList(r)
        BY <2>1 DEF NewList
      <3> QED
        BY <3>1, <3>2 DEF Gone
    <2>2. CASE JustRead(r, u)
      <3>1. r \notin Removes => x # flow'[r].item
        <4>1. pc'[r] # pc[r] /\ pc'[r] \in {"taken", "save"}
          BY <1>2, <2>2 DEF JustRead
        <4> QED
          BY <1>2, <4>1 DEF Asks, Requests
      <3>2. x \notin user[u]
        BY <1>1, <2>2 DEF JustRead
      <3> QED
        BY <2>2, <3>1, <3>2, JustReadList
    <2> QED
      BY <1>2, <2>1, <2>2, WritersAfter
  <1>3. ASSUME NEW r \in Requests,
               pc'[r] \in {"replace", "insert"}, flow'[r].user = u
        PROVE  x # flow'[r].item
    <2>1. CASE flow'[r] = flow[r] /\ pc[r] \in {"replace", "insert"}
      BY <1>3, <2>1 DEF Gone, Replacers
    <2>2. CASE /\ r \in Registers
               /\ pc[r] = "read" /\ pc'[r] = "replace"
               /\ flow'[r] = flow[r]
               /\ copy'[r].id = flow[r].user
      BY <1>3, <2>2 DEF Asks
    <2> QED
      BY <1>3, <2>1, <2>2, ReplacersAfter
  <1> QED
    BY <1>2, <1>3, GoneOwner DEF Gone, Writers, Replacers

(* A removed credential does not come back but by being added again: once  *)
(* no save is pending that was computed with it, the account stays without *)
(* it.                                                                     *)
THEOREM GoneStayGone == Spec => GoneStaysGone
  <1>1. CredsInv /\ [Next]_vars =>
          [\A u \in Accounts, x \in Items :
             Gone(u, x) => Gone(u, x)' \/
                 Asks(u, x, Links \cup Creates \cup Registers)]_vars
    BY GoneStep
  <1> QED
    BY <1>1, Invariance, PTL DEF Spec, GoneStaysGone
=============================================================================
