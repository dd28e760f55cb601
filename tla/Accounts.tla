------------------------------ MODULE Accounts ------------------------------
(***************************************************************************)
(* Team accounts: worker/routes/users.ts.  An administrator creates,       *)
(* edits, activates and deactivates accounts, and each request keeps two   *)
(* drop-down lists in step with the accounts: handled_by offers the active *)
(* event owners, program_officer the active accounts that are officers.    *)
(* A request is a chain of statements; requests overlap and may die        *)
(* between two of them.                                                    *)
(*                                                                         *)
(* Names are equal when they are equal in lower case.  Mail addresses,     *)
(* passwords, sessions and contact numbers are left out (an officer has a  *)
(* contact or the request is refused).  The lists may hold names that are  *)
(* nobody's account; editing them by hand (routes/lookups.ts) is not       *)
(* modelled.                                                               *)
(***************************************************************************)
EXTENDS Integers, FiniteSets

CONSTANTS Users,      \* identifiers of accounts
          Founders,   \* accounts from before per-user permissions, role admin
          Names, Slots, \* names of people; requests that may be in progress
          MaxRequests,    \* bound: requests in a behaviour
          MaxOverlapping, \* bound: only this many of the first may overlap
          MaxDeaths       \* bound: requests that die

\* The account of a list's row that is linked to none.
Nobody == "nobody"

ASSUME AccountsAssumption ==
  /\ Founders \subseteq Users /\ Founders # {} /\ Nobody \notin Users
  /\ \E n, m \in Names : n # m
  /\ MaxRequests \in Nat /\ MaxOverlapping \in Nat /\ MaxDeaths \in Nat

\* What the permissions column says of user.manage; "none" is the list [].
Grants == {"manage", "other", "none"}

\* What a behaviour is about: which fields its requests change.
Concerns == {"rights", "owners", "officers"}

VARIABLES
  concern,
  account,    \* the users table
  handledBy,  \* handled_by options: "absent", "active" or "inactive"
  officers,   \* program_officer options, with the account a row is linked to
  request,    \* each slot's request
  served, deaths,
  disturbed,  \* history: requests overlapped or died
  nameTaken   \* history: an account was given the name of another one, or a
              \* request ended on a name that another row of a list had

accountsVars ==
  <<concern, account, handledBy, officers, request, served, deaths, disturbed,
    nameTaken>>

Absent == [there |-> FALSE]
NoOption == [state |-> "absent", user |-> Nobody]
IdleRequest == [step |-> "idle"]

present(u) == account[u].there

\* permissionsFromRow: an empty list falls back to the role.
holdsManage(u) ==
  account[u].grants = "manage" \/ (account[u].grants = "none" /\ u \in Founders)

\* The SQL of the guard looks at the stored list only.
otherGatekeepers(u) ==
  {v \in Users \ {u} : present(v) /\ account[v].active /\ account[v].grants = "manage"}

Row(name, grants, owner, officer) ==
  [there |-> TRUE, active |-> TRUE, name |-> name, grants |-> grants,
   owner |-> owner, officer |-> officer]

-----------------------------------------------------------------------------
(* The two list synchronisers.  Each yields the set of the list's possible *)
(* new contents, none when a statement breaks UNIQUE(list_key, value).     *)

syncHandledByOption(name, previous, enabled) ==
  IF ~enabled
  THEN {[n \in Names |-> IF n \in {name, previous} /\ handledBy[n] # "absent"
                         THEN "inactive" ELSE handledBy[n]]}
  ELSE IF previous # name /\ "absent" \notin {handledBy[previous], handledBy[name]}
       THEN {}
       ELSE {[[handledBy EXCEPT ![previous] = "absent"] EXCEPT ![name] = "active"]}

linkedTo(u) == {n \in Names : officers[n].user = u}

\* Slip: a row is looked up by name before the row that is linked.
officerRowsByName(u, name, previous) ==
  IF officers[previous].state # "absent" THEN {previous} ELSE {name}

\* The row a synchronisation writes: the linked one, else one of the old
\* name, else one of the new name, else a new one.
officerRows(u, name, previous) ==
  IF linkedTo(u) # {} THEN linkedTo(u)
  ELSE IF officers[previous].state # "absent" THEN {previous} ELSE {name}

syncProgrammeOfficerOption(u, name, previous, enabled) ==
  IF ~enabled
  THEN IF linkedTo(u) = {} THEN {officers}
       ELSE {[officers EXCEPT ![n].state = "inactive"] : n \in linkedTo(u)}
  ELSE {[[officers EXCEPT ![n] = NoOption] EXCEPT ![name] = [state |-> "active", user |-> u]] :
          n \in {m \in officerRows(u, name, previous) :
                   m = name \/ officers[name].state = "absent"}}

-----------------------------------------------------------------------------
(* Requests.                                                               *)

busy(s) == request[s].step # "idle"

\* Fields an edit may carry: a partial record.
Edits ==
  {<<>>} \cup
  CASE concern = "rights"   -> [{"grants"} -> Grants]
    [] concern = "owners"   -> [{"owner"} -> BOOLEAN] \cup [{"name"} -> Names]
                               \cup {[owner |-> TRUE, name |-> n] : n \in Names}
    [] concern = "officers" -> [{"officer"} -> BOOLEAN] \cup [{"name"} -> Names]

Merge(row, change) ==
  [f \in DOMAIN row |-> IF f \in DOMAIN change THEN change[f] ELSE row[f]]

\* A request has been let in: other requests are no longer alone.
Admit(s, r) ==
  /\ served < MaxRequests /\ ~busy(s)
  /\ s = CHOOSE q \in Slots : ~busy(q)
  /\ \E admin \in Users : /\ present(admin) /\ account[admin].active /\ holdsManage(admin)
                          /\ r.kind = "off" => admin # r.target
  /\ LET shared == \E q \in Slots \ {s} : busy(q)
     IN  /\ request' = [q \in Slots |->
                          IF q = s THEN [r EXCEPT !.alone = ~shared]
                          ELSE IF busy(q) THEN [request[q] EXCEPT !.alone = FALSE]
                          ELSE request[q]]
         /\ shared => served < MaxOverlapping
         /\ disturbed' = (disturbed \/ shared)
         /\ nameTaken' = \/ nameTaken
                         \/ \E u \in Users \ {r.target} :
                              present(u) /\ account[u].name = r.next.name
  /\ served' = served + 1
  /\ UNCHANGED <<concern, account, handledBy, officers, deaths>>

Request(kind, u, change, next) ==
  [step |-> "write", kind |-> kind, target |-> u, change |-> change,
   read |-> account[u], next |-> next, alone |-> TRUE]

\* POST /users, up to its first INSERT.
StartCreate(s, u, next) ==
  /\ ~present(u)
  /\ next.owner => handledBy[next.name] = "absent"
  /\ Admit(s, Request("create", u, <<>>, next))

\* Slip: the guard counts the account itself among those that remain.
keepsGatekeeperCountingItself(u, drops) ==
  drops /\ holdsManage(u) =>
    \E v \in Users : present(v) /\ account[v].active /\ account[v].grants = "manage"

\* The lock-out guard shared by the edit and the deactivation.
keepsGatekeeper(u, drops) == drops /\ holdsManage(u) => otherGatekeepers(u) # {}

\* PUT /users/:id, up to its UPDATE.
StartEdit(s, u, change) ==
  /\ present(u)
  /\ LET row == account[u] next == Merge(row, change)
     IN  /\ keepsGatekeeper(u, "grants" \in DOMAIN change /\ next.grants # "manage" /\ row.active)
         /\ next.owner /\ next.name # row.name => handledBy[next.name] = "absent"
         /\ Admit(s, Request("edit", u, change, next))

\* POST /users/:id/activate and /deactivate, up to the UPDATE.
StartToggle(s, u, active) ==
  /\ present(u)
  /\ keepsGatekeeper(u, ~active)
  /\ Admit(s, Request(IF active THEN "on" ELSE "off", u, <<>>,
                      [account[u] EXCEPT !.active = active]))

\* The UPDATE (or INSERT) of the account.  An edit writes name, owner and
\* officer from what it read, permissions only when they were sent.
Write(s) ==
  LET r == request[s] u == r.target
  IN  /\ r.step = "write"
      /\ account' = [account EXCEPT ![u] =
           CASE r.kind = "create" -> [r.next EXCEPT !.owner = FALSE, !.officer = FALSE]
             [] r.kind = "edit"   ->
                  [@ EXCEPT !.name = r.next.name, !.owner = r.next.owner,
                            !.officer = r.next.officer,
                            !.grants = IF "grants" \in DOMAIN r.change
                                       THEN r.next.grants ELSE account[u].grants]
             [] r.kind \in {"on", "off"} -> [@ EXCEPT !.active = r.next.active]]
      /\ request' = [request EXCEPT ![s].step = IF r.kind = "create" THEN "flags" ELSE "owners"]
      /\ UNCHANGED <<concern, handledBy, officers, served, deaths, disturbed, nameTaken>>

\* Creation's second statement: contact and designations.
WriteFlags(s) ==
  LET r == request[s]
  IN  /\ r.step = "flags"
      /\ account' = [account EXCEPT ![r.target] =
                      [@ EXCEPT !.owner = r.next.owner, !.officer = r.next.officer]]
      /\ request' = [request EXCEPT ![s].step = "owners"]
      /\ UNCHANGED <<concern, handledBy, officers, served, deaths, disturbed, nameTaken>>

renamed(r) == r.kind = "edit" /\ r.next.name # r.read.name

\* Slip: only a change of the designation or of the name reaches the list.
touchesOwnersOnChange(r) ==
  CASE r.kind = "create"       -> r.next.owner
    [] r.kind = "edit"         -> r.next.owner # r.read.owner \/ renamed(r)
    [] r.kind \in {"on", "off"} -> r.read.owner

touchesOwners(r) ==
  CASE r.kind = "create"       -> r.next.owner
    [] r.kind = "edit"         -> r.next.owner # r.read.owner \/ renamed(r) \/ r.next.owner
    [] r.kind \in {"on", "off"} -> r.read.owner

touchesOfficers(r) ==
  CASE r.kind = "create"       -> r.next.officer
    [] r.kind = "edit"         -> "officer" \in DOMAIN r.change \/ renamed(r) \/ r.next.officer
    [] r.kind \in {"on", "off"} -> r.read.officer

\* The name a list's row is looked up by.
previousName(r) == IF r.kind = "edit" THEN r.read.name ELSE r.next.name

\* Slip: reactivating an account leaves its options as they are.
enabledUnlessOn(r, flag) ==
  flag /\ (IF r.kind \in {"edit", "on"} THEN r.read.active ELSE r.next.active)

enabled(r, flag) == flag /\ (IF r.kind = "edit" THEN r.read.active ELSE r.next.active)

\* A statement breaks UNIQUE(list_key, value); the account stays as written.
Fail(s) == /\ request' = [request EXCEPT ![s] = IdleRequest]
           /\ nameTaken' = TRUE
           /\ UNCHANGED <<concern, account, handledBy, officers, served, deaths, disturbed>>

SyncOwners(s) ==
  LET r == request[s]
      lists == IF touchesOwners(r)
               THEN syncHandledByOption(r.next.name, previousName(r), enabled(r, r.next.owner))
               ELSE {handledBy}
  IN  /\ r.step = "owners"
      /\ \/ /\ handledBy' \in lists
            /\ request' = [request EXCEPT ![s].step = "officers"]
            /\ UNCHANGED <<concern, account, officers, served, deaths, disturbed, nameTaken>>
         \/ lists = {} /\ Fail(s)

SyncOfficers(s) ==
  LET r == request[s]
      lists == IF touchesOfficers(r)
               THEN syncProgrammeOfficerOption(r.target, r.next.name, previousName(r),
                                               enabled(r, r.next.officer))
               ELSE {officers}
  IN  /\ r.step = "officers"
      /\ \/ /\ officers' \in lists
            /\ request' = [request EXCEPT ![s] = IdleRequest]
            /\ UNCHANGED <<concern, account, handledBy, served, deaths, disturbed, nameTaken>>
         \/ lists = {} /\ Fail(s)

\* The worker is stopped between two statements.
Die(s) == /\ busy(s) /\ deaths < MaxDeaths
          /\ request' = [request EXCEPT ![s] = IdleRequest]
          /\ deaths' = deaths + 1 /\ disturbed' = TRUE
          /\ UNCHANGED <<concern, account, handledBy, officers, served, nameTaken>>

-----------------------------------------------------------------------------
\* Two accounts, one of them a founder and gatekeeper, and others yet to be
\* created; the lists hold the designated accounts and perhaps other names.
\* Which identifiers and names the two have makes no difference.
AccountsInit ==
  /\ concern \in Concerns
  /\ \E g \in {"manage", "other"} :
     LET first == CHOOSE u \in Founders : TRUE
         second == CHOOSE u \in Users : u # first
         n == CHOOSE x \in Names : TRUE
         m == CHOOSE x \in Names : x # n
     IN
       /\ account = [u \in Users |->
            IF u = first THEN Row(n, "manage", concern = "owners", concern = "officers")
            ELSE IF u = second THEN Row(m, g, FALSE, FALSE) ELSE Absent]
       /\ \E extra \in SUBSET (Names \ {n}) :
            /\ handledBy = [x \in Names |->
                 IF concern = "owners" /\ x \in {n} \cup extra THEN "active" ELSE "absent"]
            /\ officers = [x \in Names |->
                 IF concern # "officers" \/ x \notin {n} \cup extra THEN NoOption
                 ELSE [state |-> "active", user |-> IF x = n THEN first ELSE Nobody]]
            /\ concern = "rights" => extra = {}
  /\ request = [s \in Slots |-> IdleRequest]
  /\ served = 0 /\ deaths = 0 /\ disturbed = FALSE /\ nameTaken = FALSE

AccountsNext ==
  \E s \in Slots :
    \/ \E u \in Users :
         \/ \E name \in Names : StartCreate(s, u, Row(name, "other", concern = "owners",
                                                      concern = "officers"))
         \/ \E change \in Edits : StartEdit(s, u, change)
         \/ \E active \in BOOLEAN : StartToggle(s, u, active)
    \/ Write(s) \/ WriteFlags(s) \/ SyncOwners(s) \/ SyncOfficers(s) \/ Die(s)

-----------------------------------------------------------------------------
idle == \A s \in Slots : ~busy(s)

\* Somebody can always manage the team's accounts, as long as no two requests
\* of the users routes overlap (two that do can each spare the other's
\* account and then take the last gatekeeper away).
GatekeeperRemains ==
  ~disturbed => \E u \in Users : present(u) /\ account[u].active /\ holdsManage(u)

\* The option of every event owner follows the account: offered exactly while
\* the account is active.
OwnersFollow ==
  \A u \in Users : present(u) /\ account[u].owner =>
    (handledBy[account[u].name] = "active" <=> account[u].active)

\* An active officer has one row of the programme officers' list, under the
\* account's name and offered; an inactive one is not offered.
OfficersFollow ==
  \A u \in Users : present(u) /\ account[u].officer =>
    IF account[u].active
    THEN linkedTo(u) = {account[u].name} /\ officers[account[u].name].state = "active"
    ELSE \A n \in linkedTo(u) : officers[n].state = "inactive"

\* The owners' drop-down follows the accounts through edits, renamings and
\* toggles, provided no two requests overlapped, none died, and no account was
\* ever given the name that another account has.  The last proviso excludes
\* what an administrator can do one request after the other, and there the
\* claim is false: renaming or deactivating the one takes away the other's option.
OwnersAreOffered == ~disturbed /\ ~nameTaken /\ idle => OwnersFollow

\* The officers' list follows the accounts under the same provisos, and if no
\* renaming ended on a name that another row of the list has.  There, too, the
\* claim is false of requests that follow each other: the account is renamed, the
\* UPDATE of its row breaks the unique name, and the list keeps the old one.
OfficersAreOffered == ~disturbed /\ ~nameTaken /\ idle => OfficersFollow

\* Whatever overlaps and deaths left behind, an owner's account that is saved
\* by an edit running alone has the list's entry it should have.
EditRepairsOwner ==
  [][\A s \in Slots :
       busy(s) /\ ~busy(s)' /\ request[s].kind = "edit" /\ request[s].alone
         /\ request[s].step = "officers" /\ request[s].next.owner =>
       LET row == account[request[s].target]
       IN  handledBy[row.name] = "active" <=> row.active]_accountsVars
=============================================================================
