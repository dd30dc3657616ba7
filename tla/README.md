# Verification of the dropzone ticketing service

TLA+ modules, TLC configurations and TLAPS proofs kept beside the service in
`src/`: a WSGI application over MongoDB that issues, redeems and prints tickets,
signs users in (passkeys, e-mail codes, Google, Microsoft), and offers an API to
partners.

## 1. The system

Every WSGI thread runs one request at a time. A request is a sequence of
separate MongoDB round trips; the code uses no transactions, no locks across
round trips (the one `threading.Lock` only guards the connection's
registration), and no background jobs. `mongoengine` gives each round trip these
semantics, on which all the modules rely:

* a read returns a private copy of the document;
* `save()` of a loaded document is one atomic `update_one` by `_id` that sets
  (or unsets) only the fields assigned since it was loaded, whatever the stored
  document holds by then; a list is set as a whole;
* `save()` of a new document is one insert that the unique indexes can refuse;
* `modify(...)` and `update_one(...)` on a query test and set in one step;
* any round trip can raise, and a write that raised may have been applied.

| component | state | operations | what makes it hard |
|---|---|---|---|
| ticket desk (`actions/redeem.py`, `api/ticket.py`, `actions/issue.py`) | ticket collection | redeem by form, redeem by API, issue | read-then-save race, partial lists, code collisions |
| ticket views (`actions/view_*.py`, `print_tickets.py`) | none | owner list, owner tickets, single ticket, printing | two reads per page; owners with and without an account |
| e-mail codes (`auth.py`) | one pending code per user | send, verify, expiry | one slot shared by two purposes, mail before save, throttle |
| sessions (`auth.py`, `config.py`) | cookies signed with a per-process secret | sign in, check, log out, restart | a session outlives what it was granted for |
| credentials (`_fido2.py`, `google.py`, `microsoft.py`, `admin_users.py`) | credential lists in the user document | add, remove | whole-list saves from stale copies |
| registration (`register.py`) | first user document | begin, complete | two administrators register at once |
| partners and their keys (`actions/partner.py`, `api/_shared.py`) | partner documents | create, update, verify a JWT | revoked keys, time window |
| reports (`api/report.py`, `view_redeemed_tickets.py`) | none | day windows | local midnight and daylight saving time |
| start-up (`service/__init__.py`, `config.py`) | connection flag, lock, secret | first request, restart | several threads connect, sessions are looked up before the connection |
| routing (`routes.py`, guards of `auth.py`) | none | dispatch | the guard and the handler look the session up one after the other |
| accounts (`admin_users.py`, `update_display_name`, `search_users.py`) | role and name in the user document | edit, rename, search | documents saved from stale copies; a list made by two queries |

Also in the repository and without state of their own: PDF layout (`pdf.py`), templates and forms (`http.py`), SMTP (`email.py`), the configuration
file, time formatting (`time_utils.py`), an example client (`example/`).

The components meet in three places. The **ticket collection** is written by the
desk, the API and the issue page, and read by the views, the printing and the
reports. The **user document** is written by the e-mail codes, the credentials,
the registration, the administrators' pages and the partner API, each setting
fields of its own. The **session** is made by the sign-ins and looked up by every
request, before the guard, in the guard and again in the handler.

What makes each of them correct:

* tickets: codes are unique; issue data never changes; a redemption is never
  taken back; what an answer said stays true; only an administrator or the owner
  redeems at the desk; an answered form lists all it redeemed; an issue request is
  complete or failed, and only a failed one leaves tickets that nobody is told of;
  the API grants once;
* views: a ticket is behind exactly one entry of the owner list; the PDF is what
  the page showed, up to what happened since;
* e-mail codes: a code lets in only whom it was mailed to, at an address that was
  the account's; an address is confirmed from a session of the account; a used
  code never works again;
* credentials: none is lost or regained but by a request for it, or by a save
  that was already under way; a link ends in the account it began in,
  and not after a restart;
* partners: a revoked key stays revoked and a kept one is not lost to the edit of
  another; a redemption is recorded for an account the partner's identifier stood for;
* reports: the windows are local days, and a redemption is in exactly one;
* access: what a request does, it does for an account its cookie stood for, with
  rights that account had; rights that were taken away do not come back by
  themselves;
* accounts: a role or name changes only because somebody entitled asked for that
  change, not because a copy was old when it was saved; a search lists
  nobody twice and forgets nobody while there is room;
* start-up: one registration, no query before it, nobody left waiting.

## 2. Modules

| module | models | composed with |
|---|---|---|
| `TicketLedger` | the abstract promise of the ticket collection | |
| `TicketDesk` | the three requests that write tickets | implements `TicketLedger` (`Ledger == INSTANCE TicketLedger WITH ...`) |
| `TicketViews` | owner list, owner page, PDF | `TicketLedger` as its environment |
| `Access` | sessions, guards, roles, names, user search | `TicketDesk` as the handlers of issuing and redeeming (`TheDesk == INSTANCE TicketDesk WITH ...`) |
| `EmailCodes` | the pending-code slot and the clock | |
| `Credentials` | credential lists, sessions, links, registration, restarts | |
| `PartnerApi` | key lists, signed calls, name maps, whom a redemption is for | |
| `DayBoundaries` | the day windows of reports and page in local time | |
| `StartUp` | connection, lock, secret, restarts | |
| `TicketDeskProofs`, `AccessProofs`, `EmailCodesProofs`, `CredentialsProofs`, `PartnerApiProofs`, `TicketViewsProofs`, `DayBoundariesProofs`, `StartUpProofs` | theorems about the module each is named for (section 4) | extend that module |
| `MC...` | small instances for TLC | extend the module they are named for |

### Conventions

* A request is a member of a constant set (`Desk`, `Links`, `Calls`, ...) and is
  used once; `pc[r]` is the place in the handler where it is, or how it was
  answered. In `StartUp` the members are threads and serve request after request.
* One action is the code between two round trips, ending with the round trip.
  What the thread remembers between two actions (`loaded`, `copy`, `form`) is the
  copy of the document it read, however old.
* A save writes the fields the handler assigned; lists are written whole.
* `...Fail` is a round trip that raises. Where applying the write or not makes a
  difference to a property (`TicketDesk`), both happen.
* A refusal that depends on what is not modelled (a signature, the answer of
  Google, a form field, the minute in which a token is valid) can always happen.
* Definitions with a comment "Mutant:" are plausible bugs that are used to see
  that a property can fail; no action refers to them.

### TicketDesk

`ticket` is the collection (`TicketIds` to documents or `None`); `form`, `loaded`,
`results`, `bearer`, `issued` are the local variables of the three functions.

| action | code |
|---|---|
| `DeskBegin`, `DeskFind`, `DeskSave`, `DeskFail` | `redeem.py:9-13`, `:17-29`, `:29-38`, any round trip |
| `PartnerBegin`, `PartnerFind`, `PartnerUser`, `PartnerModify`, `PartnerFail` | `api/ticket.py:11-21`, `:23-25`, `:27-31`, `:33-51` |
| `ClerkBegin`, `ClerkInsert`, `ClerkCollision`, `ClerkFail` | `issue.py:24-103`, `:110-136`, `:112-127` |

The user collection is not a variable here: which account a session or a
partner's identifier stands for is any answer the read can give; `Access` and
`PartnerApi` say which answers there are. The time and the reason in a redemption
are the identity of the request that recorded it.

### Access

`user` (role and name), `holder` (the account a key is registered in) and `live`
(cookies younger than twelve hours) are what the look-ups of a session read;
`step`, `cookie` and `held` are the request on its way to its handler.

| action | code |
|---|---|
| `Begin` | the request reaches `dispatch`, with the cookie of some browser |
| `require_auth`, `require_role` | `auth.py:547-564`, one look-up of the session each |
| `Handle` | `routes.py:173-191`: the viewer is looked up and given to `issue` or `redeem`, which is `ClerkBegin` or `DeskBegin` of `TicketDesk` with this account in the form |
| `DeskWork` | the remaining round trips of `TicketDesk` |
| `ViewerRead`, `Page` | `routes.py:193-211`, `view_ticket.py`, `view_owner_tickets.py` |
| `EditRead`, `ProfileRead`, `Save`, `SaveFail` | `admin_users.py:160-201`, `auth.py:534-544` |
| `SearchPrefix`, `SearchOn` | the two queries of `search_users.py` |
| `Expire`, `KeyChange` | time, and what `Credentials` does to keys |

`_session_user`, `_is_authenticated` and `current_user_ref` have the names of the
functions they stand for. The order of the three reads is that of the code: a
request of an administrator is looked up by `require_auth`, by `require_role` and
once more for the viewer, and each can see another state. `seen` is a history
variable: the accounts, with their role, for which the cookie stood whenever a
look-up succeeded.

A consequence that the properties state and do not hide: the account recorded as
the issuer of a ticket need not be the one that the guard let in as an
administrator, if its key was registered in another account between the two
reads. `ActsForItsSession` therefore asks for an administrator and for the issuer
among the accounts that the cookie stood for, not for both in one.

### The other modules

* `TicketViews`: `OwnersBegin`, `OwnersSample`, `OwnersNames` are the queries of
  `view_owners.py` (accounts, one label each, names); `Open` is
  `view_owner_tickets.py` for the entry clicked, `PrintOwner` the query of
  `print_tickets.py` behind the page's link. Between any two of them
  `Ledger!Next` may happen. `before` is a history variable.
* `EmailCodes`: `SendBegin`, `SendTaken`, `SendMail`, `SendSave` are `send_email_code`;
  `VerifyBegin`, `Erase`, `SignIn`, `ChangeAddress` are `verify_email_code`;
  `VisitBegin` is the erasing in `begin_authn`; `EditBegin`, `EditSave` are
  `admin_users.update_user`; `Tick` is time. `Visits` are both kinds of request that
  erase a code. The code of a request is the request itself, so two codes are
  never equal by chance.
* `Credentials`: `LinkBegin`, `LinkReturn`, `LinkTaken`, `LinkLookup`, `LinkSave`
  are the add and sign-in halves of `_fido2.py`, `google.py`, `microsoft.py`;
  `RemoveBegin`, `AdminRemoveBegin`, `RemoveSave` the removals; `Create` and the
  `Register...` actions the new accounts; `KeySignIn`, `CodeSignIn`, `Restart`
  change who is signed in. A link keeps the account and the secret it was begun
  with (`flow[r].user`, `flow[r].secret`), which is what the signed state of the
  exchange carries. Microsoft behaves as Google, so the run has none.
* `PartnerApi`: `Create`, `EditBegin`, `EditSave` are `actions/partner.py`;
  `Verify` is `_verify`; `UserRead`, `Patch` are `api/user.py`; `TicketFind`,
  `FindUser`, `Modify` are `api/ticket.py`, about the account it records.
* `DayBoundaries`: `day_boundaries` is the function of that name over hours, with
  `Utc` and `Fold` standing for `zoneinfo`; `ReportOf` is the query of the API's
  reports, `PageOf` the way in which `view_redeemed_tickets.py` tells the days apart.
  `ChangeAssumption` says which zones are meant: the clock is put forward or back by a
  day at most, and midnight is not strictly inside the time that is skipped or
  repeated (it may be its first instant, as in Havana or Beirut). Changes at
  one minute past midnight, which some zones had until a few years ago, are
  therefore outside; there a report can miss the first minutes of a day.
* `StartUp`: `BuildContext` is the look-up of the session in `application`,
  `Check` ... `Release` are `_ensure_storage`, `Serve` is the handler.

## 3. Model checking

| run | instance | shows |
|---|---|---|
| `desk_race` | 2 forms with one code twice, 2 API calls, 1 issue, 1 ticket | `ApiRedeemedOnce`, `AnswersStayTrue`, `OncePerRequest`, `SettledForever`, and that the collection implements the ledger |
| `desk_issue` | 2 issue requests for up to 2 tickets, 2 codes, 2 attempts; 1 form of up to 2 codes; 1 account, 1 name | types, `OwnTicketsOnly`, `RecordedIsReported`, `CodesUnique`, `IssuedInFull`; every request ends |
| `redeemed_twice` | 2 forms, 1 call, 1 ticket | violation, see Findings |
| `views` | 3 tickets, 2 accounts, 2 names | `FoundOnce`, `LabelIsTheirs`, `PrintFollowsPage` |
| `access` | 1 form, 1 issue, 1 page or edit; 2 accounts, 1 session by key and 1 by account, 1 key, 1 ticket | `ActsForItsSession`, `BarredStaysOut` |
| `roles` | 2 pages, each an edit, a rename or a search; 3 accounts; no name, 1 name that begins with what is searched for and 1 that has it elsewhere; 1 key, lists of 2 | `OnlyAsAsked`, `ListedOnce` |
| `codes` | 2 sends, 2 visits that verify or clean up, 1 edit; 2 accounts, 2 addresses, 2 ticks | `GrantedByMail`, `UsedCodesAreGone`, `ConfirmedAddress`, `SpentForever`, `FreshErasedOnlyByStale`, `ResendDelayed` |
| `credentials` | 1 link, 1 removal, 1 creation, 2 registrations, 2 accounts, 2 keys, 1 address, 1 restart | `LinkedToBeginner`, `HeldIsKept`, `GoneStaysGone` |
| `partner` | 2 edits, 2 calls of either kind, 2 partners, 2 key ids, 2 accounts, 1 identifier, 1 ticket | `RevokedStaysRevoked`, `KeptIsKept`, `AttributedToNamed` |
| `days` | every change of offset by 0 or 1 hour at 41 hours, in two pairs of offsets | `PlainDays`, `ReportedOnce` |
| `repeated_midnight` | the same | violation, see Findings |
| `start_up` | 3 threads, 2 processes | `QueriesAreConnected`, `RegisteredOnce`, every request ends |

Bounds. Every bound is a constant of a configuration. Two requests of a kind are
what the races need: one that reads before and one that writes in between; a
third kind of request is in each run for the cases with two different writers.
One ticket is enough where tickets do not influence each other (`desk_race`), two
where the list of codes or the unique index matters (`desk_issue`), and the
code space is so small that collisions and the attempt limit are reached. The
clock in `codes` goes on until a code sent at its start has expired, and past
the resend delay, so another code can have been sent meanwhile.
In `access` every pair of look-ups can be separated by an edit of a role, by the key
leaving one account and entering another, or by the end of a cookie; two sessions
let an administrator work under one while the other loses its rights. `roles` has
no desk, so that two edits, a rename and an edit, or a search and a rename can
overlap in every way. An account has no name, a name that begins with what is
searched for, or one that has it elsewhere, so it can be renamed into the match,
out of it and from one query's part to the other's between the two queries; with
three accounts and lists of two there are lists too short for those that match,
full ones, and lists with room left, from which nobody may be missing. `Searches` is empty in `access`, where a search would add states
and nothing that the properties speak of. Two accounts under one identifier, which
the API does not prevent, are in `partner`.
In `days` an hour is the unit, since the changes are whole hours; the change
falls on every hour around two midnights. `MaxRestarts` and `MaxStarts` allow one
restart at any moment, `start_up` adds cookies that survive it. Symmetry is used
for requests, accounts, tickets and credentials that no definition tells apart,
never in a run with a liveness property.

Deadlock is checked wherever all requests can only end (`AllEnded` is the final
stutter); it is switched off where a counter stops at its bound (`days`,
`repeated_midnight`) or where some requests need a mode the process may never
enter (`credentials`).

Fairness. `TicketDesk` and `StartUp` assume weak fairness of each thread's steps: a
thread that runs on is scheduled, and a MongoDB round trip returns or raises. No
request is assumed to arrive, no failure to happen or to stay away, and no order
in which a lock is given to its waiters. In `TicketDesk` no handler waits for
another. In `StartUp` weak fairness suffices only because in a configured process
the lock is taken a bounded number of times: once the flag is set nobody new
queues for it. In a process without `mongodb_uri` every request takes the lock
and fails, and an unfair lock may starve one; the property is therefore about
configured processes.

### What the properties say that the code does not

The code has no transactions, so the strongest statement is often "unless
somebody was already under way". `SettledForever`, `HeldIsKept`, `GoneStaysGone`,
`RevokedStaysRevoked`, `KeptIsKept`, `SpentForever`, `ResendDelayed` and `BarredStaysOut` have that
form: a state that excludes every pending writer, or every request that has
already passed the test, is never left, except by a request for exactly that
change.
They fail for any save that writes more than it should, and they say precisely
how long a race can matter. `ActsForItsSession` and `AttributedToNamed` have another
form, for the same reason: a value read in several steps is compared with the
values there were during the request, not with the one at its end.

Where the code does less than one might wish, the property says how much less:

* `RecordedIsReported`: a form that fails with 500 lists nothing, also of the tickets
  it had redeemed before (`redeem.py:40` is not reached). The property gives the
  complete list for an answered form, and for a failed one that it redeemed only
  codes it had come to. `Told` is what an answer lists, `Noted` what the handler had
  noted.
* `IssuedInFull`: an issue request that fails answers with an error
  (`issue.py:121`, `:127`) and names none of the tickets it has stored. `Untold` are
  all the tickets that no answer names; they are at most as many as the failed
  requests were asked for (`AskedInVain`).
* `HeldIsKept`: two first registrations of one account are its one exception: the
  later one replaces the document, with the credential of the earlier one.
* `OnlyAsAsked`: the edit form of an administrator sets name and role together, to
  what the page showed when it was opened unless they were changed in it. If
  another administrator saves in between, the form asks for the old value and takes
  that change back. The property excludes this for what is saved between the read
  and the save of one request, and for the display name an account sets itself; the
  form has no version by which the code could notice more.
* `LinkedToBeginner`: a credential may also enter a document by a save computed from a
  copy that still had it, so a removal can be undone by a save that was under way
  (`GoneStaysGone` says until when).

Types are an invariant of a run only where a proof rests on them (`TicketDesk`,
`StartUp`) or where they are hardest to see (`Credentials`).

### Findings

* **A ticket can be reported redeemed twice** (`redeemed_twice`). `redeem.py:27` looks
  at the copy read at `:18`, and `:37` saves unconditionally. Two web requests, or a
  web and an API request, that overlap are both told they redeemed the ticket, and
  the later save replaces who redeemed it and when. The tests expect "already
  redeemed" of the second. `SettledForever` and `ImplementsLedger` bound the damage:
  the window closes with the saves then pending, nothing but the record is
  replaced, and the API on its own (`api/ticket.py:33`) redeems once.
* **Reports on a day with two midnights** (`repeated_midnight`). Where clocks are put
  back over midnight (America/Havana), `report.py:15` takes the second midnight for
  the start of today when asked during the repeated hour; the first hour of the day
  is reported as yesterday. `PlainDays` shows that this is the only exception and
  `ReportedOnce` that no redemption is lost or reported twice even then.

## 4. Proofs

Every safety and action property that a passing run checks is a theorem, for any
sets of requests, accounts, tickets, keys, codes, partners or threads and any
value of the bounds. Each proof module has the same shape: an invariant that says
where a request of each kind can be and what it knows there; a lemma that a step
of one request leaves the local state of the others alone; a lemma that a waiting
request keeps its part of the invariant whatever the others do to the shared
documents; one lemma for each kind of step; and the theorem `Invariance`. The
property then follows from the invariant, or, for an action property, from the
invariant and a case for each action. Each invariant was model-checked on the
component's runs before it was proved.

| module | theorems | state the properties |
|---|---|---|
| `TicketDeskProofs` | `TypeCorrect`, `CodesAreUnique`, `ApiOnce`, `ImplementsLedger`, `SettledIsFinal`, `OwnTickets`, `AnswersAreTrue`, `RecordsAreReported`, `RedeemedOncePerRequest`, `IssuesInFull` | `TypeOK`, `CodesUnique`, `ApiRedeemedOnce`, `LedgerSpec`, `SettledForever`, `OwnTicketsOnly`, `AnswersStayTrue`, `RecordedIsReported`, `OncePerRequest`, `IssuedInFull` |
| `AccessProofs` | `RunsTheDesk`, `SessionsAreActedFor`, `BarredAreOut`, `ChangesAreAskedFor`, `SearchesListOnce` | (refinement of `TicketDesk`), `ActsForItsSession`, `BarredStaysOut`, `OnlyAsAsked`, `ListedOnce` |
| `EmailCodesProofs` | `GrantsAreMailed`, `UsedCodesStayGone`, `AddressesAreConfirmed`, `SpentCodesStaySpent`, `FreshCodesAreUsed`, `ResendsAreDelayed` | `GrantedByMail`, `UsedCodesAreGone`, `ConfirmedAddress`, `SpentForever`, `FreshErasedOnlyByStale`, `ResendDelayed` |
| `CredentialsProofs` | `TypeCorrect`, `LinksGoToBeginners`, `HeldAreKept`, `GoneStayGone` | `TypeOK`, `LinkedToBeginner`, `HeldIsKept`, `GoneStaysGone` |
| `PartnerApiProofs` | `RevokedKeysStayRevoked`, `KeptKeysAreKept`, `RedemptionsAreAttributed` | `RevokedStaysRevoked`, `KeptIsKept`, `AttributedToNamed` |
| `TicketViewsProofs` | `FoundExactlyOnce`, `LabelsAreTheirs`, `PrintsFollowPages` | `FoundOnce`, `LabelIsTheirs`, `PrintFollowsPage` |
| `DayBoundariesProofs` | `ReportedExactlyOnce`, `PlainReportsAreDays` | `ReportedOnce`, `PlainDays` |
| `StartUpProofs` | `TypeCorrect`, `OneRegistration`, `NoQueryUnconnected` | `TypeOK`, `RegisteredOnce`, `QueriesAreConnected` |

### TicketDeskProofs

* `IInv`: the positions of each handler (`DeskAt`, `PartnerAt`, `ClerkAt`), above all
  that a ticket a request has loaded is stored and has the code it asked for, and
  that codes are unique. `TypeOK` alone is not inductive: `DeskSave` keeps the type
  of the collection only because the loaded ticket exists, and that the code of a
  ticket found stays its code needs that documents are neither deleted nor given
  another code.
* `ApiOnce`: a call answered 201 recorded its redemption in a ticket that had none,
  and a redeemed ticket stays redeemed, so a second call for it is refused. A desk
  save may replace the record meanwhile, so the argument cannot rest on whose
  redemption is in the document.
* `ImplementsLedger`: initial states map to initial states, and each action to
  `Issue`, `Redeem`, `Rerecord` or a stutter. With no web forms `Rerecorders` is empty
  and this is the strict ledger: one redemption per ticket.
* `OwnTickets`: the permission tested on the copy holds of the document saved,
  because the owner of a stored ticket never changes (`TicketMoves`).
* `AnswersAreTrue`, `RecordsAreReported`, `RedeemedOncePerRequest`: a report grows one
  reasoned entry at a time (`AnswerMoves`, `Because`), and what the reason was
  stays true of the collection.
* `IssuesInFull`: each step of an issue request adds one ticket to the collection and
  to its own list, or fails. A failing request turns what it has stored, and the
  ticket whose insert raised, into tickets that no answer names (`UntoldMoves`): at
  most as many as it was asked for, since it fails before its last ticket. Two
  sets grow side by side, `Untold` and `AskedInVain`, and the cardinality lemmas of
  `FiniteSetTheorems` compare them (`UntoldStep`).

### AccessProofs

`AccessInv` types the composition, and says of a request of each kind (`DeskAt`,
`ClerkAt`, `PageAt`) what it has seen by the time it is there: past the role's guard
an administrator, in the handler the viewer that is in its form, before a save the
account it will write. To it belong `IssuedWell` and `RedeemedWell`: who issued and
who redeemed each ticket is a request that reached its handler, and stays a
witness because what a request has seen no longer changes there. The one lemma
about sessions is `SessionUser`: a look-up returns an account for which the cookie
stands at that moment, and there is no other.

`RunsTheDesk` shows that every step of `Access` is a step of `TicketDesk` or leaves
its variables alone, and `DeskConstants` that its assumptions hold: what
`TicketDeskProofs` shows of the tickets holds behind the guards too. (This last
inference is not a theorem of its own: the prover does not instantiate the
theorems of another module.)

`BarredAreOut` takes a case for each action in which a request that carries the
cookie could begin to use the role; `SearchesListOnce` counts: the first list, the
second, and their disjointness, which is what `id__nin` is for. `ChangesAreAskedFor`
rests on `PageAt`, which says what a request about to save has read and asked for,
and for whom, and on `SaveEffect`: a field is written only where the two differ.

### The other modules

* `EmailCodesProofs`: `CodesInv` ties the slots to the requests that filled them
  (`SlotsSaved`): a code in a slot is the one its request has mailed and saved
  there, so that a request which works on an old copy holds a code that was there,
  for that account. `GrantedByMail` speaks of mail and copies only, and is inductive
  only with this.
* `CredentialsProofs`: `CredsInv` adds to `TypeOK` that a document about to be saved
  exists, and that a link about to save has been begun under the running process's
  secret and has read the document of the account it was begun for.
* `PartnerApiProofs`: `CallsInv` has, besides the types, that a redeem call's history
  `named` contains the account it is about to redeem for (`NameAt`).
* `TicketViewsProofs`: `ViewInv` says at each query what the entries found so far and
  the accounts still left account for. `Ledger!Next` may happen at any time and
  enters by one lemma: an issued ticket keeps its owner, a redeemed one stays so.
* `DayBoundariesProofs`: there is no state to speak of (`ClockInv`); the work is in
  the lemmas on `Utc`, `Wall` and `Midnight`: `FromMidnight` says that a wall clock
  shows midnight or later exactly from the instant `Utc` gives for that midnight,
  whichever way the clock is changed, which holds under `ChangeAssumption` and fails
  without it. Offsets, the length of a day and the hour of the change are
  arbitrary integers.
* `StartUpProofs`: `LockExcludes` (who holds the lock is inside the block),
  `Registration` (between the registration and the flag the registering thread
  holds the lock), and `CookiesAreOurs` (no cookie is signed with a secret to come;
  one signed with the present secret comes from a request of this process, which
  was connected). The last is what the order in `application` depends on: with a
  secret that outlives the process it is false, and so is the property.

### Assumptions

They are named in the modules that declare the constants, and every run evaluates
those of its module: requests of different kinds are different, `None` is none of
the values it stands beside, accounts are neither names nor credentials, limits
and times are natural numbers, the attempt limit and the length of a search list
are positive. `Access` assumes finitely many accounts, for the counting of a
search, and repeats what `TicketDesk` assumes of the constants it is given
(`DeskAssumption`). `DayBoundaries` has `ChangeAssumption`, described above. Nothing
is assumed of the scheduling or of the database beyond section 1.

### Only model-checked

* `EveryRequestEnds` of `TicketDesk` and of `StartUp`: liveness under fairness.
* The two violations of Findings, which are counterexamples.
* Whether the histories of `Access` and `PartnerApi` are ever populated, or a
  guarded case is reached: the coverage of the runs shows it, no theorem does.

## 5. Not modelled

* The table of paths in `routes.py` and the guards in front of the pages whose
  handlers are in other modules: they are the two guards of `Access` again.
* `logout`: it only tells the browser to forget its cookie.
* The list of the last issued tickets, printing by ticket id, the user list of
  the API: single reads. The grouping of the API's
  reports (`report.py:35-57`) and of the redeemed-tickets page is a function of the
  documents that one query returns.
* How many search hits there are (10) and how names match: `LIMIT`, `Prefixed` and
  `Matching` stand for them; the database's order of results is any order.
* Cryptography (FIDO2, JWT, cookie signatures), SMTP, the exchange with Google and
  Microsoft: a result that can go either way.
* PDF layout, templates, form decoding, time formatting, configuration parsing,
  the example client: no state and no property beyond their tests.

## 6. Plan

Done, in this order: the ledger and the desk with their proofs, the e-mail codes,
the credentials with registration, the partners, the views, the report days, the
start-up with its proofs; the access guards composed with the desk, roles
and names, the user search, the resend delay, the attribution of the API's
redemptions and the day page; then the proofs of all the
safety and action properties above.

Next:

1. The safety half of `EveryRequestEnds`: a measure of what is left of a request that
   each of its steps in `TicketDesk` decreases (codes still to report, tickets and
   attempts still to go), so that only the scheduling is left to fairness.
2. `StartUp`: that a thread waiting for the lock waits for one that is inside the
   block, as an invariant.
3. The views as users of the desk: `TicketViews` over the ledger that `TicketDesk`
   implements is composed on paper only; a theorem that its environment's steps are
   those of `Ledger!Next` under the same mapping.
