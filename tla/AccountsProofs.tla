---------------------------- MODULE AccountsProofs ----------------------------
(***************************************************************************)
(* A gatekeeper remains and the drop-down lists follow the accounts, for   *)
(* any number of users, names, slots and requests.                         *)
(*                                                                         *)
(* What makes it inductive: a request that has run alone so far still has  *)
(* before it the account it read, or the account it means to leave; and    *)
(* as long as no name is taken twice no two accounts share one, so what a  *)
(* request does to its own rows of the lists touches nobody else's.        *)
(***************************************************************************)
EXTENDS Accounts, TLAPS

AccountsSpec == AccountsInit /\ [][AccountsNext]_accountsVars

Fields == {"step", "kind", "target", "change", "read", "next", "alone"}
Steps == {"write", "flags", "owners", "officers"}
Kinds == {"create", "edit", "on", "off"}
Toggles == {"on", "off"}

Rows == [there : {TRUE}, active : BOOLEAN, name : Names, grants : Grants,
         owner : BOOLEAN, officer : BOOLEAN]
OptionStates == {"absent", "active", "inactive"}
Entries == [state : OptionStates, user : Users \cup {Nobody}]

\* Two rows that differ in nothing but the permissions.
alike(row, other) ==
  /\ row.active = other.active /\ row.name = other.name
  /\ row.owner = other.owner /\ row.officer = other.officer

\* A request in progress, and what it means to write as far as it follows from
\* what it read.
IsRequest(r) ==
  /\ DOMAIN r = Fields /\ r.step \in Steps /\ r.kind \in Kinds
  /\ r.target \in Users /\ r.next \in Rows /\ r.alone \in BOOLEAN
  /\ r.kind # "create" => r.read \in Rows
  /\ r.kind = "edit" => r.next.active = r.read.active
  /\ r.kind \in Toggles => r.next.name = r.read.name /\ r.next.owner = r.read.owner
                           /\ r.next.officer = r.read.officer
  /\ r.kind = "on" => r.next.active
  /\ r.kind = "create" => r.next.active /\ r.next.grants = "other"
  /\ r.kind # "create" => r.step # "flags"

AccountsTypeInv ==
  /\ concern \in Concerns
  /\ account \in [Users -> Rows \cup {Absent}]
  /\ handledBy \in [Names -> OptionStates]
  /\ officers \in [Names -> Entries]
  /\ DOMAIN request = Slots
  /\ \A s \in Slots : request[s] = IdleRequest \/ IsRequest(request[s])
  /\ disturbed \in BOOLEAN /\ nameTaken \in BOOLEAN

\* Accounts are not deleted.
TargetsInv ==
  \A s \in Slots :
    busy(s) /\ (request[s].kind # "create" \/ request[s].step # "write") =>
      present(request[s].target)

AloneInv ==
  /\ \A s, q \in Slots : busy(s) /\ busy(q) /\ request[s].alone => q = s
  /\ ~disturbed => \A s \in Slots : busy(s) => request[s].alone

\* Before its first statement a request that runs alone has the account it
\* read before it, afterwards the account it means to leave.
Abreast(r) ==
  LET u == r.target
  IN  /\ r.step = "write" =>
           IF r.kind = "create" THEN ~present(u) ELSE account[u] = r.read
      /\ r.step # "write" => present(u)
      /\ r.step = "flags" => account[u].active /\ account[u].name = r.next.name
                             /\ ~account[u].owner /\ ~account[u].officer
      /\ r.step \in {"owners", "officers"} => alike(account[u], r.next)

\* What the lock-out guard has made sure of still stands.
Spared(r) ==
  /\ r.step = "write" /\ present(r.target)
  /\ account[r.target].active /\ holdsManage(r.target)
  /\ \/ r.kind = "off"
     \/ r.kind = "edit" /\ "grants" \in DOMAIN r.change /\ r.next.grants # "manage"
  => otherGatekeepers(r.target) # {}

AbreastInv ==
  \A s \in Slots : busy(s) /\ request[s].alone => Abreast(request[s]) /\ Spared(request[s])

\* No overlap, no death, and no name given twice so far.
Calm == ~disturbed /\ ~nameTaken

\* Whose row of the lists may be behind the account.
behind(u, steps) == \E s \in Slots : request[s].step \in steps /\ request[s].target = u

NamesInv ==
  Calm =>
    /\ \A u, v \in Users : present(u) /\ present(v) /\ account[u].name = account[v].name => u = v
    /\ \A s \in Slots, v \in Users : busy(s) /\ present(v) /\ v # request[s].target =>
         /\ account[v].name # request[s].next.name
         /\ request[s].kind = "edit" => account[v].name # request[s].read.name

Offered(u) ==
  present(u) /\ account[u].owner =>
    (handledBy[account[u].name] = "active" <=> account[u].active)

OwnersInv == Calm => \A u \in Users : ~behind(u, {"flags", "owners"}) => Offered(u)

Listed(u) ==
  present(u) /\ account[u].officer =>
    IF account[u].active
    THEN linkedTo(u) = {account[u].name} /\ officers[account[u].name].state = "active"
    ELSE \A n \in linkedTo(u) : officers[n].state = "inactive"

LinksInv ==
  \A n, m \in Names : officers[n].user \in Users /\ officers[n].user = officers[m].user => n = m

OfficersInv ==
  Calm => \A u \in Users : ~behind(u, {"flags", "owners", "officers"}) => Listed(u)

RepairedInv ==
  \A s \in Slots :
    /\ busy(s) /\ request[s].alone /\ request[s].kind = "edit"
    /\ request[s].step = "officers" /\ request[s].next.owner
    => LET row == account[request[s].target]
       IN  handledBy[row.name] = "active" <=> row.active

AccountsInv ==
  /\ AccountsTypeInv /\ TargetsInv /\ AloneInv /\ AbreastInv /\ NamesInv /\ GatekeeperRemains
  /\ OwnersInv /\ LinksInv /\ OfficersInv /\ RepairedInv
-----------------------------------------------------------------------------
LEMMA AccountsInitInv == AccountsInit => AccountsInv
<1> SUFFICES ASSUME AccountsInit PROVE AccountsInv
  OBVIOUS
<1> DEFINE first == CHOOSE u \in Founders : TRUE
           second == CHOOSE u \in Users : u # first
           n == CHOOSE x \in Names : TRUE
           m == CHOOSE x \in Names : x # n
<1>1. first \in Users /\ first \in Founders BY AccountsAssumption
<1>2. n \in Names /\ m \in Names /\ m # n
  <2>1. n \in Names BY AccountsAssumption
  <2>2. \E x \in Names : x # n BY AccountsAssumption
  <2> HIDE DEF n
  <2> QED BY <2>1, <2>2
<1>3. /\ request = [s \in Slots |-> IdleRequest] /\ disturbed = FALSE /\ nameTaken = FALSE
      /\ concern \in Concerns
  BY DEF AccountsInit
<1>4. PICK g \in {"manage", "other"}, extra \in SUBSET (Names \ {n}) :
        /\ account = [u \in Users |->
             IF u = first THEN Row(n, "manage", concern = "owners", concern = "officers")
             ELSE IF u = second THEN Row(m, g, FALSE, FALSE) ELSE Absent]
        /\ handledBy = [x \in Names |->
             IF concern = "owners" /\ x \in {n} \cup extra THEN "active" ELSE "absent"]
        /\ officers = [x \in Names |->
             IF concern # "officers" \/ x \notin {n} \cup extra THEN NoOption
             ELSE [state |-> "active", user |-> IF x = n THEN first ELSE Nobody]]
  BY DEF AccountsInit
<1> HIDE DEF first, second, n, m
<1> DEFINE own == concern = "owners"
           off == concern = "officers"
<1>5. own \in BOOLEAN /\ off \in BOOLEAN OBVIOUS
<1>6. /\ account[first] = Row(n, "manage", own, off)
      /\ \A u \in Users \ {first} : account[u] = Row(m, g, FALSE, FALSE) \/ account[u] = Absent
      /\ \A u \in Users \ {first, second} : account[u] = Absent
  BY <1>1, <1>4
<1>7. /\ Row(n, "manage", own, off) \in Rows /\ Row(m, g, FALSE, FALSE) \in Rows
  BY <1>2, <1>5 DEF Row, Rows, Grants
<1>8. \A s \in Slots : ~busy(s) /\ request[s] = IdleRequest
  BY <1>3 DEF busy, IdleRequest
<1>9. AccountsTypeInv
  <2>1. account \in [Users -> Rows \cup {Absent}] BY <1>4, <1>6, <1>7
  <2>2. handledBy \in [Names -> OptionStates] BY <1>4 DEF OptionStates
  <2>3. officers \in [Names -> Entries]
    BY <1>1, <1>4 DEF Entries, OptionStates, NoOption
  <2> QED BY <1>3, <1>8, <2>1, <2>2, <2>3 DEF AccountsTypeInv
<1>10. AloneInv /\ AbreastInv /\ RepairedInv /\ TargetsInv
  BY <1>8 DEF AloneInv, AbreastInv, RepairedInv, TargetsInv
<1>11. /\ present(first) /\ account[first].active /\ account[first].name = n
       /\ account[first].grants = "manage" /\ account[first].owner = own
       /\ account[first].officer = off
  BY <1>6 DEF Row, present
<1>12. \A u \in Users \ {first} : present(u) =>
         u = second /\ account[u].name = m /\ ~account[u].owner /\ ~account[u].officer
  BY <1>6 DEF Row, present, Absent
<1>13. NamesInv BY <1>2, <1>8, <1>11, <1>12 DEF NamesInv
<1>14. GatekeeperRemains BY <1>1, <1>11 DEF GatekeeperRemains, holdsManage
<1>15. OwnersInv BY <1>2, <1>4, <1>11, <1>12 DEF OwnersInv, Offered
<1>16. LinksInv BY <1>1, <1>4, AccountsAssumption DEF LinksInv, NoOption
<1>17. Listed(first)
  <2> SUFFICES ASSUME off PROVE linkedTo(first) = {n} /\ officers[n].state = "active"
    BY <1>11 DEF Listed
  <2>1. officers[n] = [state |-> "active", user |-> first] BY <1>2, <1>4
  <2>2. \A x \in Names \ {n} : officers[x].user = Nobody BY <1>4 DEF NoOption
  <2>3. first # Nobody BY <1>1, AccountsAssumption
  <2> QED BY <1>2, <2>1, <2>2, <2>3 DEF linkedTo
<1>18. OfficersInv BY <1>12, <1>17 DEF OfficersInv, Listed
<1> QED BY <1>9, <1>10, <1>13, <1>14, <1>15, <1>16, <1>18 DEF AccountsInv

-----------------------------------------------------------------------------
(* What all steps of a request have in common.                             *)

\* The invariants that say nothing once something is disturbed, and nothing of
\* a request that is not alone.
Overlookable ==
  /\ AbreastInv /\ NamesInv /\ GatekeeperRemains /\ OwnersInv /\ OfficersInv /\ RepairedInv

\* The request goes on to another statement, the other slots stay.
GoesOn(s, x) ==
  /\ DOMAIN request' = Slots
  /\ \A q \in Slots \ {s} : request'[q] = request[q]
  /\ IsRequest(request'[s]) /\ request'[s].step = x
  /\ request'[s].kind = request[s].kind /\ request'[s].target = request[s].target
  /\ request'[s].change = request[s].change /\ request'[s].read = request[s].read
  /\ request'[s].next = request[s].next /\ request'[s].alone = request[s].alone
  /\ \A q \in Slots : busy(q)' <=> busy(q)

LEMMA RequestGoesOn ==
  ASSUME AccountsTypeInv, NEW s \in Slots, busy(s), NEW x \in Steps,
         request' = [request EXCEPT ![s].step = x],
         request[s].kind # "create" => x # "flags"
  PROVE  GoesOn(s, x)
<1>1. IsRequest(request[s]) BY DEF AccountsTypeInv, busy, IdleRequest
<1>2. request'[s] = [request[s] EXCEPT !.step = x] BY DEF AccountsTypeInv
<1>3. DOMAIN request' = Slots /\ \A q \in Slots \ {s} : request'[q] = request[q]
  BY DEF AccountsTypeInv
<1>4. /\ DOMAIN request'[s] = Fields /\ request'[s].step = x
      /\ request'[s].kind = request[s].kind /\ request'[s].target = request[s].target
      /\ request'[s].change = request[s].change /\ request'[s].read = request[s].read
      /\ request'[s].next = request[s].next /\ request'[s].alone = request[s].alone
  BY <1>1, <1>2 DEF IsRequest, Fields
<1>5. IsRequest(request'[s]) BY <1>1, <1>4 DEF IsRequest
<1>6. \A q \in Slots : busy(q)' <=> busy(q) BY <1>3, <1>4 DEF busy, Steps
<1> QED BY <1>3, <1>4, <1>5, <1>6 DEF GoesOn

\* Of a request that has been overtaken there is nothing to show.
LEMMA OvertakenKeeps ==
  ASSUME AccountsInv, NEW s \in Slots, busy(s), ~request[s].alone, UNCHANGED <<disturbed, nameTaken>>,
         \A q \in Slots \ {s} : request'[q] = request[q],
         busy(s)' => ~request'[s].alone
  PROVE  AloneInv' /\ Overlookable'
<1>1. disturbed /\ disturbed' /\ ~Calm' BY DEF AccountsInv, AloneInv, AccountsTypeInv, Calm
<1>2. \A q \in Slots : ~(busy(q)' /\ request'[q].alone)
  BY DEF AccountsInv, AloneInv, busy
<1> QED BY <1>1, <1>2 DEF Overlookable, AloneInv, AbreastInv, NamesInv, GatekeeperRemains,
                          OwnersInv, OfficersInv, RepairedInv

\* A request that is given up: only lists that nothing has disturbed would notice.
LEMMA GivenUpKeeps ==
  ASSUME AccountsInv, NEW s \in Slots, UNCHANGED <<concern, account, handledBy, officers>>,
         request' = [request EXCEPT ![s] = IdleRequest],
         \/ disturbed' = TRUE /\ UNCHANGED nameTaken
         \/ nameTaken' = TRUE /\ UNCHANGED disturbed
  PROVE  AccountsInv'
<1>1. /\ DOMAIN request' = Slots /\ request'[s] = IdleRequest
      /\ \A q \in Slots \ {s} : request'[q] = request[q]
  BY DEF AccountsInv, AccountsTypeInv
<1>2. ~busy(s)' /\ \A q \in Slots \ {s} : busy(q)' <=> busy(q)
  BY <1>1 DEF busy, IdleRequest
<1>3. AccountsTypeInv' BY <1>1 DEF AccountsInv, AccountsTypeInv
<1>4. AloneInv' BY <1>1, <1>2 DEF AccountsInv, AloneInv
<1>5. AbreastInv'
  <2> SUFFICES ASSUME NEW q \in Slots, busy(q)', request'[q].alone
               PROVE  Abreast(request[q])' /\ Spared(request[q])'
    BY DEF AbreastInv
  <2>3. q # s /\ busy(q) /\ request'[q] = request[q] BY <1>1, <1>2
  <2>4. Abreast(request[q]) /\ Spared(request[q]) BY <2>3 DEF AccountsInv, AbreastInv
  <2>5. Abreast(request[q])' BY <2>3, <2>4 DEF Abreast, present, alike
  <2>6. Spared(request[q])'
    BY <2>3, <2>4 DEF Spared, present, holdsManage, otherGatekeepers
  <2> QED BY <2>5, <2>6
<1>6. RepairedInv' BY <1>1, <1>2 DEF AccountsInv, RepairedInv
<1>7. LinksInv' BY DEF AccountsInv, LinksInv
<1>8. TargetsInv' BY <1>1, <1>2 DEF AccountsInv, TargetsInv, present
<1> QED BY <1>3, <1>4, <1>5, <1>6, <1>7, <1>8
        DEF AccountsInv, NamesInv, GatekeeperRemains, OwnersInv, OfficersInv, Calm,
            present, holdsManage

-----------------------------------------------------------------------------
(* The beginning of a request.                                             *)

LEMMA AdmitKeeps ==
  ASSUME AccountsInv, NEW s \in Slots, NEW r, IsRequest(r), r.step = "write", r.alone,
         r.kind # "create" => present(r.target) /\ r.read = account[r.target],
         Abreast(r), Spared(r), Admit(s, r)
  PROVE  AccountsInv'
<1> DEFINE shared == \E q \in Slots \ {s} : busy(q)
<1>1. /\ ~busy(s)
      /\ request' = [q \in Slots |->
                       IF q = s THEN [r EXCEPT !.alone = ~shared]
                       ELSE IF busy(q) THEN [request[q] EXCEPT !.alone = FALSE]
                       ELSE request[q]]
      /\ disturbed' = (disturbed \/ shared)
      /\ nameTaken' = \/ nameTaken
                      \/ \E u \in Users \ {r.target} : present(u) /\ account[u].name = r.next.name
      /\ UNCHANGED <<concern, account, handledBy, officers>>
  BY DEF Admit
<1>2. shared \in BOOLEAN OBVIOUS
<1> HIDE DEF shared
<1>3. /\ DOMAIN request' = Slots
      /\ request'[s] = [r EXCEPT !.alone = ~shared]
      /\ \A q \in Slots \ {s} : busy(q) => request'[q] = [request[q] EXCEPT !.alone = FALSE]
      /\ \A q \in Slots \ {s} : ~busy(q) => request'[q] = request[q]
  BY <1>1
<1>4. /\ DOMAIN request'[s] = Fields /\ request'[s].step = "write"
      /\ request'[s].kind = r.kind /\ request'[s].target = r.target
      /\ request'[s].change = r.change /\ request'[s].read = r.read
      /\ request'[s].next = r.next /\ request'[s].alone = ~shared
  BY <1>3 DEF IsRequest, Fields
<1>5. IsRequest(request'[s]) BY <1>2, <1>4 DEF IsRequest
<1>6. ASSUME NEW q \in Slots \ {s}, busy(q)
      PROVE  IsRequest(request'[q]) /\ ~request'[q].alone /\ busy(q)'
  <2>1. IsRequest(request[q]) BY <1>6 DEF AccountsInv, AccountsTypeInv, busy, IdleRequest
  <2>2. request'[q] = [request[q] EXCEPT !.alone = FALSE] BY <1>3, <1>6
  <2>3. /\ DOMAIN request'[q] = Fields /\ request'[q].step = request[q].step
        /\ request'[q].kind = request[q].kind /\ request'[q].target = request[q].target
        /\ request'[q].read = request[q].read
        /\ request'[q].next = request[q].next /\ request'[q].alone = FALSE
    BY <2>1, <2>2 DEF IsRequest, Fields
  <2> QED BY <2>1, <2>3 DEF IsRequest, busy, Steps
<1>7. \A q \in Slots \ {s} : ~busy(q) => ~busy(q)' BY <1>3 DEF busy
<1>8. busy(s)' BY <1>4 DEF busy
<1>9. AccountsTypeInv'
  <2>1. \A q \in Slots : request'[q] = IdleRequest \/ IsRequest(request'[q])
    BY <1>3, <1>5, <1>6 DEF AccountsInv, AccountsTypeInv, busy
  <2>2. disturbed' \in BOOLEAN /\ nameTaken' \in BOOLEAN
    BY <1>1, <1>2 DEF AccountsInv, AccountsTypeInv
  <2> QED BY <1>1, <1>3, <2>1, <2>2 DEF AccountsInv, AccountsTypeInv
<1>10. AloneInv'
  <2>1. \A q \in Slots : busy(q)' /\ request'[q].alone => q = s /\ ~shared
    BY <1>4, <1>6, <1>7
  <2>2. ~shared => \A q \in Slots \ {s} : ~busy(q)'
    BY <1>7 DEF shared
  <2>3. ~disturbed' => ~shared BY <1>1
  <2> QED BY <1>4, <2>1, <2>2, <2>3 DEF AloneInv
<1>11. AbreastInv'
  <2> SUFFICES ASSUME NEW q \in Slots, busy(q)', request'[q].alone
               PROVE  Abreast(request[q])' /\ Spared(request[q])'
    BY DEF AbreastInv
  <2>1. q = s BY <1>6, <1>7
  <2>3. Abreast(request[s])' BY <1>1, <1>4 DEF Abreast, present, alike
  <2>4. Spared(request[s])'
    BY <1>1, <1>4 DEF Spared, present, holdsManage, otherGatekeepers
  <2> QED BY <2>1, <2>3, <2>4
<1>12. NamesInv'
  <2> SUFFICES ASSUME Calm' PROVE NamesInv'
    BY DEF NamesInv
  <2>1. Calm /\ ~shared
        /\ \A u \in Users \ {r.target} : present(u) => account[u].name # r.next.name
    BY <1>1 DEF Calm
  <2>2. \A u, v \in Users : present(u) /\ present(v) /\ account[u].name = account[v].name => u = v
    BY <2>1 DEF AccountsInv, NamesInv
  <2>3. \A q \in Slots : busy(q)' => q = s BY <1>7, <2>1 DEF shared
  <2>4. \A v \in Users \ {r.target} : present(v) /\ r.kind = "edit" =>
          account[v].name # r.read.name
    BY <2>2 DEF IsRequest
  <2>5. \A v \in Users : present(v)' <=> present(v) BY <1>1 DEF present
  <2> QED BY <1>1, <1>4, <2>1, <2>2, <2>3, <2>4, <2>5 DEF NamesInv
<1>13. GatekeeperRemains'
  BY <1>1 DEF AccountsInv, GatekeeperRemains, present, holdsManage
<1>14. \A u \in Users, steps \in SUBSET {"flags", "owners", "officers"} :
         Calm' => ~behind(u, steps)
  BY <1>1 DEF behind, busy, shared, Calm
<1>15. OwnersInv'
  <2>1. \A u \in Users : Offered(u)' <=> Offered(u) BY <1>1 DEF Offered, present
  <2>2. Calm' => \A u \in Users : Offered(u)
    BY <1>1, <1>14 DEF Calm, AccountsInv, OwnersInv
  <2> QED BY <2>1, <2>2 DEF OwnersInv
<1>16. OfficersInv'
  <2>1. \A u \in Users : Listed(u)' <=> Listed(u) BY <1>1 DEF Listed, present, linkedTo
  <2>2. Calm' => \A u \in Users : Listed(u)
    BY <1>1, <1>14 DEF Calm, AccountsInv, OfficersInv
  <2> QED BY <2>1, <2>2 DEF OfficersInv
<1>17. RepairedInv' BY <1>4, <1>6, <1>7 DEF RepairedInv
<1>18. LinksInv' BY <1>1 DEF AccountsInv, LinksInv
<1>19. TargetsInv'
  <2>1. \A q \in Slots \ {s} : busy(q) =>
          /\ request'[q].kind = request[q].kind /\ request'[q].step = request[q].step
          /\ request'[q].target = request[q].target
    BY <1>3 DEF AccountsInv, AccountsTypeInv, busy, IdleRequest, IsRequest, Fields
  <2> QED BY <1>1, <1>4, <1>7, <2>1 DEF AccountsInv, TargetsInv, present
<1> QED BY <1>19, <1>9, <1>10, <1>11, <1>12, <1>13, <1>15, <1>16, <1>17, <1>18 DEF AccountsInv

LEMMA CreateStarts ==
  ASSUME AccountsInv, NEW s \in Slots, NEW u \in Users, NEW name \in Names,
         StartCreate(s, u, Row(name, "other", concern = "owners", concern = "officers"))
  PROVE  AccountsInv'
<1> DEFINE owner == concern = "owners"
           officer == concern = "officers"
           next == Row(name, "other", owner, officer)
           r == Request("create", u, <<>>, next)
<1>1. owner \in BOOLEAN /\ officer \in BOOLEAN OBVIOUS
<1> HIDE DEF owner, officer
<1>2. next \in Rows /\ next.active /\ next.grants = "other"
  BY <1>1 DEF Row, Rows, Grants
<1> HIDE DEF next
<1>3. ~present(u) /\ Admit(s, r) BY DEF StartCreate, next, owner, officer
<1>4. /\ DOMAIN r = Fields /\ r.step = "write" /\ r.kind = "create" /\ r.target = u
      /\ r.next = next /\ r.alone = TRUE
  BY DEF Request, Fields
<1> HIDE DEF r
<1>5. IsRequest(r) BY <1>2, <1>4 DEF IsRequest, Steps, Kinds, Toggles
<1>6. Abreast(r) /\ Spared(r) BY <1>3, <1>4 DEF Abreast, Spared
<1> QED BY <1>3, <1>4, <1>5, <1>6, AdmitKeeps

\* What an edit leaves of the row it is merged into.
LEMMA MergeShape ==
  ASSUME concern \in Concerns, NEW row \in Rows, NEW change \in Edits
  PROVE  /\ Merge(row, change) \in Rows
         /\ Merge(row, change).active = row.active
<1>1. /\ "there" \notin DOMAIN change /\ "active" \notin DOMAIN change
      /\ "name" \in DOMAIN change => change["name"] \in Names
      /\ "grants" \in DOMAIN change => change["grants"] \in Grants
      /\ "owner" \in DOMAIN change => change["owner"] \in BOOLEAN
      /\ "officer" \in DOMAIN change => change["officer"] \in BOOLEAN
  <2>1. CASE change = <<>> BY <2>1
  <2>2. CASE change \in [{"grants"} -> Grants] BY <2>2
  <2>3. CASE change \in [{"name"} -> Names] BY <2>3
  <2>4. CASE change \in [{"owner"} -> BOOLEAN] BY <2>4
  <2>5. CASE change \in [{"officer"} -> BOOLEAN] BY <2>5
  <2>6. CASE \E n \in Names : change = [owner |-> TRUE, name |-> n] BY <2>6
  <2> QED BY <2>1, <2>2, <2>3, <2>4, <2>5, <2>6 DEF Edits, Concerns
<1>2. /\ DOMAIN row = {"there", "active", "name", "grants", "owner", "officer"}
      /\ row["there"] = TRUE /\ row["active"] \in BOOLEAN /\ row["name"] \in Names
      /\ row["grants"] \in Grants /\ row["owner"] \in BOOLEAN /\ row["officer"] \in BOOLEAN
  BY DEF Rows
<1> DEFINE new == Merge(row, change)
<1>3. new = [f \in {"there", "active", "name", "grants", "owner", "officer"} |->
               IF f \in DOMAIN change THEN change[f] ELSE row[f]]
  BY <1>2 DEF Merge
<1>4. /\ new["there"] = TRUE /\ new["active"] = row["active"] /\ new["name"] \in Names
      /\ new["grants"] \in Grants /\ new["owner"] \in BOOLEAN /\ new["officer"] \in BOOLEAN
  BY <1>1, <1>2, <1>3
<1>5. new = [there |-> new["there"], active |-> new["active"], name |-> new["name"],
             grants |-> new["grants"], owner |-> new["owner"], officer |-> new["officer"]]
  BY <1>3
<1> QED BY <1>2, <1>4, <1>5 DEF Rows

LEMMA EditStarts ==
  ASSUME AccountsInv, NEW s \in Slots, NEW u \in Users, NEW change \in Edits,
         StartEdit(s, u, change)
  PROVE  AccountsInv'
<1> DEFINE row == account[u]
           next == Merge(row, change)
           r == Request("edit", u, change, next)
<1>1. present(u) /\ Admit(s, r) BY DEF StartEdit
<1>2. keepsGatekeeper(u, "grants" \in DOMAIN change /\ next.grants # "manage" /\ row.active)
  BY DEF StartEdit
<1>3. row \in Rows BY <1>1 DEF AccountsInv, AccountsTypeInv, present, Absent
<1>4. next \in Rows /\ next.active = row.active
  BY <1>3, MergeShape DEF AccountsInv, AccountsTypeInv
<1> HIDE DEF next
<1>5. /\ DOMAIN r = Fields /\ r.step = "write" /\ r.kind = "edit" /\ r.target = u
      /\ r.next = next /\ r.read = row /\ r.alone = TRUE /\ r.change = change
  BY DEF Request, Fields
<1> HIDE DEF r
<1>6. IsRequest(r) BY <1>3, <1>4, <1>5 DEF IsRequest, Steps, Kinds, Toggles
<1>7. Abreast(r) BY <1>5 DEF Abreast
<1>8. Spared(r) BY <1>2, <1>5 DEF Spared, keepsGatekeeper
<1> QED BY <1>1, <1>5, <1>6, <1>7, <1>8, AdmitKeeps

LEMMA ToggleStarts ==
  ASSUME AccountsInv, NEW s \in Slots, NEW u \in Users, NEW active \in BOOLEAN,
         StartToggle(s, u, active)
  PROVE  AccountsInv'
<1> DEFINE row == account[u]
           next == [row EXCEPT !.active = active]
           kind == IF active THEN "on" ELSE "off"
           r == Request(kind, u, <<>>, next)
<1>1. present(u) /\ keepsGatekeeper(u, ~active) /\ Admit(s, r) BY DEF StartToggle
<1>2. row \in Rows BY <1>1 DEF AccountsInv, AccountsTypeInv, present, Absent
<1>3. /\ next \in Rows /\ next.active = active /\ next.name = row.name
      /\ next.owner = row.owner /\ next.officer = row.officer
  BY <1>2 DEF Rows
<1>4. kind \in Toggles /\ kind # "create" /\ kind # "edit" /\ (kind = "on" <=> active)
  BY DEF Toggles
<1> HIDE DEF next, kind
<1>5. /\ DOMAIN r = Fields /\ r.step = "write" /\ r.kind = kind /\ r.target = u
      /\ r.next = next /\ r.read = row /\ r.alone = TRUE
  BY DEF Request, Fields
<1> HIDE DEF r
<1>6. IsRequest(r) BY <1>2, <1>3, <1>4, <1>5 DEF IsRequest, Steps, Kinds, Toggles
<1>7. Abreast(r) BY <1>4, <1>5 DEF Abreast
<1>8. Spared(r) BY <1>1, <1>4, <1>5 DEF Spared, keepsGatekeeper
<1> QED BY <1>1, <1>4, <1>5, <1>6, <1>7, <1>8, AdmitKeeps

-----------------------------------------------------------------------------
(* The statements of a request.                                            *)

\* What the first statement leaves of the account; of its other fields only
\* as much as it read of them still stands.
LEMMA WriteResult ==
  ASSUME AccountsInv, NEW s \in Slots, Write(s)
  PROVE  LET r == request[s] u == r.target
         IN  /\ r.step = "write" /\ IsRequest(r)
             /\ GoesOn(s, IF r.kind = "create" THEN "flags" ELSE "owners")
             /\ UNCHANGED <<concern, handledBy, officers, disturbed, nameTaken>>
             /\ account' \in [Users -> Rows \cup {Absent}]
             /\ \A v \in Users \ {u} : account'[v] = account[v]
             /\ account'[u].there
             /\ r.kind = "create" =>
                  /\ account'[u].active /\ account'[u].name = r.next.name
                  /\ ~account'[u].owner /\ ~account'[u].officer
             /\ r.kind # "create" /\ account[u] = r.read =>
                  /\ alike(account'[u], r.next)
                  /\ account'[u].grants = IF r.kind = "edit" /\ "grants" \in DOMAIN r.change
                                          THEN r.next.grants ELSE account[u].grants
<1> DEFINE r == request[s]
           u == r.target
<1>1. /\ r.step = "write" /\ UNCHANGED <<concern, handledBy, officers, disturbed, nameTaken>>
      /\ request' = [request EXCEPT ![s].step = IF r.kind = "create" THEN "flags" ELSE "owners"]
  BY DEF Write
<1>2. account' = [account EXCEPT ![u] =
           CASE r.kind = "create" -> [r.next EXCEPT !.owner = FALSE, !.officer = FALSE]
             [] r.kind = "edit"   ->
                  [@ EXCEPT !.name = r.next.name, !.owner = r.next.owner,
                            !.officer = r.next.officer,
                            !.grants = IF "grants" \in DOMAIN r.change
                                       THEN r.next.grants ELSE account[u].grants]
             [] r.kind \in {"on", "off"} -> [@ EXCEPT !.active = r.next.active]]
  BY DEF Write
<1>3. busy(s) BY <1>1 DEF busy
<1>4. IsRequest(r) BY <1>3 DEF AccountsInv, AccountsTypeInv, busy, IdleRequest
<1>5. GoesOn(s, IF r.kind = "create" THEN "flags" ELSE "owners")
  BY <1>1, <1>3, RequestGoesOn DEF AccountsInv, Steps
<1>6. account \in [Users -> Rows \cup {Absent}] /\ u \in Users /\ r.next \in Rows
  BY <1>4 DEF AccountsInv, AccountsTypeInv, IsRequest
<1>7. r.kind # "create" => account[u] \in Rows
  BY <1>3, <1>6 DEF AccountsInv, TargetsInv, present, Absent
<1>8. /\ r.kind = "create" => r.next.active
      /\ r.kind = "edit" => r.next.active = r.read.active
      /\ r.kind \in Toggles => r.next.name = r.read.name /\ r.next.owner = r.read.owner
                               /\ r.next.officer = r.read.officer
  BY <1>4 DEF IsRequest
<1>9. r.kind \in {"create", "edit", "on", "off"} BY <1>4 DEF IsRequest, Kinds
<1> HIDE DEF r
<1>10. ASSUME NEW new \in Rows, account' = [account EXCEPT ![u] = new]
       PROVE  /\ account' \in [Users -> Rows \cup {Absent}] /\ account'[u] = new
              /\ \A v \in Users \ {u} : account'[v] = account[v]
              /\ account'[u].there
  BY <1>6, <1>10 DEF Rows
<1>11. CASE r.kind = "create"
  <2> DEFINE new == [r.next EXCEPT !.owner = FALSE, !.officer = FALSE]
  <2>1. account' = [account EXCEPT ![u] = new] BY <1>2, <1>11
  <2>2. new \in Rows /\ new.active = r.next.active /\ new.name = r.next.name
        /\ new.owner = FALSE /\ new.officer = FALSE
    BY <1>6 DEF Rows
  <2> HIDE DEF new
  <2> QED BY <1>1, <1>4, <1>5, <1>8, <1>10, <1>11, <2>1, <2>2 DEF r
<1>12. CASE r.kind = "edit"
  <2> DEFINE g == IF "grants" \in DOMAIN r.change THEN r.next.grants ELSE account[u].grants
             new == [account[u] EXCEPT !.name = r.next.name, !.owner = r.next.owner,
                                       !.officer = r.next.officer, !.grants = g]
  <2>1. account' = [account EXCEPT ![u] = new] BY <1>2, <1>12
  <2>2. g \in Grants BY <1>6, <1>7, <1>12 DEF Rows
  <2> HIDE DEF g
  <2>3. new \in Rows /\ new.active = account[u].active /\ new.name = r.next.name
        /\ new.owner = r.next.owner /\ new.officer = r.next.officer /\ new.grants = g
    BY <1>6, <1>7, <1>12, <2>2 DEF Rows
  <2> HIDE DEF new
  <2>4. account[u] = r.read => alike(account'[u], r.next)
    BY <1>8, <1>10, <1>12, <2>1, <2>3 DEF alike
  <2> QED BY <1>1, <1>4, <1>5, <1>10, <1>12, <2>1, <2>3, <2>4 DEF r, g
<1>13. CASE r.kind \in Toggles
  <2> DEFINE new == [account[u] EXCEPT !.active = r.next.active]
  <2>1. account' = [account EXCEPT ![u] = new] BY <1>2, <1>13 DEF Toggles
  <2>2. r.kind # "create" /\ r.kind # "edit" BY <1>13 DEF Toggles
  <2>3. new \in Rows /\ new.active = r.next.active /\ new.name = account[u].name
        /\ new.owner = account[u].owner /\ new.officer = account[u].officer
        /\ new.grants = account[u].grants
    BY <1>6, <1>7, <2>2 DEF Rows
  <2> HIDE DEF new
  <2>4. account[u] = r.read => alike(account'[u], r.next)
    BY <1>8, <1>10, <1>13, <2>1, <2>3 DEF alike
  <2> QED BY <1>1, <1>4, <1>5, <1>10, <2>1, <2>2, <2>3, <2>4 DEF r
<1> QED BY <1>9, <1>11, <1>12, <1>13 DEF Toggles

\* A request that runs alone is the only one.
LEMMA AloneIsOnly ==
  ASSUME AccountsInv, NEW s \in Slots, busy(s), request[s].alone
  PROVE  /\ \A q \in Slots \ {s} : ~busy(q)
         /\ \A v \in Users \ {request[s].target} :
              ~behind(v, {"flags", "owners"}) /\ ~behind(v, {"flags", "owners", "officers"})
         /\ Abreast(request[s]) /\ Spared(request[s]) /\ IsRequest(request[s])
<1>1. \A q \in Slots \ {s} : ~busy(q) BY DEF AccountsInv, AloneInv
<1>2. IsRequest(request[s]) BY DEF AccountsInv, AccountsTypeInv, busy, IdleRequest
<1>3. Abreast(request[s]) /\ Spared(request[s]) BY DEF AccountsInv, AbreastInv
<1> QED BY <1>1, <1>2, <1>3 DEF behind, busy

\* Where a request goes on the shape of the slots is kept.
LEMMA GoesOnKeeps ==
  ASSUME AccountsInv, NEW s \in Slots, busy(s), NEW x, GoesOn(s, x), UNCHANGED <<disturbed, nameTaken>>
  PROVE  /\ \A q \in Slots : request'[q] = IdleRequest \/ IsRequest(request'[q])
         /\ request[s].alone =>
              /\ AloneInv'
              /\ \A q \in Slots : busy(q)' => q = s
         /\ ~request[s].alone => AloneInv' /\ Overlookable'
<1>1. \A q \in Slots : request'[q] = IdleRequest \/ IsRequest(request'[q])
  BY DEF AccountsInv, AccountsTypeInv, GoesOn
<1>2. ASSUME request[s].alone
      PROVE  AloneInv' /\ \A q \in Slots : busy(q)' => q = s
  <2>1. \A q \in Slots : busy(q)' => q = s BY <1>2, AloneIsOnly DEF GoesOn
  <2>2. request'[s].alone BY <1>2 DEF GoesOn
  <2> QED BY <2>1, <2>2 DEF AloneInv
<1>3. ASSUME ~request[s].alone PROVE AloneInv' /\ Overlookable'
  BY <1>3, OvertakenKeeps DEF GoesOn
<1> QED BY <1>1, <1>2, <1>3

LEMMA WriteKeeps ==
  ASSUME AccountsInv, NEW s \in Slots, Write(s)
  PROVE  AccountsInv'
<1> DEFINE r == request[s]
           u == r.target
           x == IF r.kind = "create" THEN "flags" ELSE "owners"
<1>1. /\ r.step = "write" /\ IsRequest(r) /\ GoesOn(s, x)
      /\ UNCHANGED <<concern, handledBy, officers, disturbed, nameTaken>>
      /\ account' \in [Users -> Rows \cup {Absent}]
      /\ \A v \in Users \ {u} : account'[v] = account[v]
      /\ account'[u].there
      /\ r.kind = "create" => /\ account'[u].active /\ account'[u].name = r.next.name
                              /\ ~account'[u].owner /\ ~account'[u].officer
      /\ r.kind # "create" /\ account[u] = r.read =>
           /\ alike(account'[u], r.next)
           /\ account'[u].grants = IF r.kind = "edit" /\ "grants" \in DOMAIN r.change
                                   THEN r.next.grants ELSE account[u].grants
  BY WriteResult
<1>2. busy(s) BY <1>1 DEF busy
<1>3. u \in Users /\ r.kind \in Kinds BY <1>1 DEF IsRequest
<1>4. \A v \in Users : v # u => (present(v)' <=> present(v)) BY <1>1 DEF present
<1>5. present(u)'
  <2>1. request'[s].target = u BY <1>1 DEF GoesOn
  <2> QED BY <1>1, <2>1 DEF present
<1>6. AccountsTypeInv'
  BY <1>1, <1>2, GoesOnKeeps DEF AccountsInv, AccountsTypeInv, GoesOn
<1>7. TargetsInv'
  <2> SUFFICES ASSUME NEW q \in Slots, busy(q)',
                      request'[q].kind # "create" \/ request'[q].step # "write"
               PROVE  account'[request'[q].target].there
    BY DEF TargetsInv, present
  <2>1. CASE q = s BY <1>1, <2>1 DEF GoesOn
  <2>2. CASE q # s
    <3>1. request'[q] = request[q] /\ busy(q) BY <1>1, <2>2 DEF GoesOn
    <3>2. account[request[q].target].there BY <3>1 DEF AccountsInv, TargetsInv, present
    <3>3. request[q].target \in Users
      BY <3>1 DEF AccountsInv, AccountsTypeInv, busy, IdleRequest, IsRequest
    <3> QED BY <1>1, <3>1, <3>2, <3>3
  <2> QED BY <2>1, <2>2
<1>8. LinksInv' BY <1>1 DEF AccountsInv, LinksInv
<1>9. CASE ~r.alone
  BY <1>1, <1>2, <1>6, <1>7, <1>8, <1>9, GoesOnKeeps DEF AccountsInv, Overlookable
<1>10. CASE r.alone
  <2>1. AloneInv' /\ \A q \in Slots : busy(q)' => q = s
    BY <1>1, <1>2, <1>10, GoesOnKeeps
  <2>2. /\ \A v \in Users \ {u} :
             ~behind(v, {"flags", "owners"}) /\ ~behind(v, {"flags", "owners", "officers"})
        /\ Abreast(r) /\ Spared(r)
    BY <1>2, <1>10, AloneIsOnly
  <2>3. IF r.kind = "create" THEN ~present(u) ELSE account[u] = r.read
    BY <1>1, <2>2 DEF Abreast
  <2>4. /\ request'[s].step = x /\ request'[s].target = u /\ request'[s].next = r.next
        /\ request'[s].kind = r.kind /\ request'[s].read = r.read
    BY <1>1 DEF GoesOn
  <2>5. AbreastInv'
    <3>1. Abreast(request[s])' BY <1>1, <2>3, <2>4 DEF Abreast, present
    <3>2. Spared(request[s])' BY <2>4 DEF Spared
    <3> QED BY <2>1, <3>1, <3>2 DEF AbreastInv
  <2>6. account'[u].name = r.next.name BY <1>1, <2>3 DEF alike
  <2>7. NamesInv'
    <3> SUFFICES ASSUME Calm' PROVE NamesInv'
      BY DEF NamesInv
    <3>1. /\ \A v, w \in Users : present(v) /\ present(w) /\ account[v].name = account[w].name => v = w
          /\ \A v \in Users : present(v) /\ v # u =>
               /\ account[v].name # r.next.name
               /\ r.kind = "edit" => account[v].name # r.read.name
      BY <1>1, <1>2 DEF Calm, AccountsInv, NamesInv
    <3>2. \A v \in Users : v # u => (account'[v].there <=> present(v)) BY <1>1 DEF present
    <3>3. \A v, w \in Users :
            account'[v].there /\ account'[w].there /\ account'[v].name = account'[w].name => v = w
      BY <1>1, <2>6, <3>1, <3>2
    <3>4. \A v \in Users : account'[v].there /\ v # u =>
               /\ account'[v].name # r.next.name
               /\ r.kind = "edit" => account'[v].name # r.read.name
      BY <1>1, <3>1, <3>2
    <3> QED BY <2>1, <2>4, <3>3, <3>4 DEF NamesInv, present
  <2>8. GatekeeperRemains'
    <3> SUFFICES ASSUME ~disturbed
                 PROVE  \E v \in Users : account'[v].there /\ account'[v].active
                          /\ (account'[v].grants = "manage"
                              \/ (account'[v].grants = "none" /\ v \in Founders))
      BY <1>1 DEF GatekeeperRemains, present, holdsManage
    <3>1. PICK v \in Users : present(v) /\ account[v].active /\ holdsManage(v)
      BY DEF AccountsInv, GatekeeperRemains
    <3>2. CASE v # u BY <1>1, <3>1, <3>2 DEF present, holdsManage
    <3>3. CASE v = u /\ otherGatekeepers(u) # {}
      BY <1>1, <3>3 DEF otherGatekeepers, present
    <3>4. CASE v = u /\ otherGatekeepers(u) = {}
      <4>1. r.kind # "create" /\ account[u] = r.read BY <2>3, <3>1, <3>4
      <4>2. /\ r.kind # "off"
            /\ ~(r.kind = "edit" /\ "grants" \in DOMAIN r.change /\ r.next.grants # "manage")
        BY <1>1, <2>2, <3>1, <3>4 DEF Spared
      <4>3. r.next.active /\ alike(account'[u], r.next)
        BY <1>1, <1>3, <3>1, <3>4, <4>1, <4>2 DEF IsRequest, Kinds
      <4>4. account'[u].grants \in {"manage", account[u].grants} BY <1>1, <4>1, <4>2
      <4> QED BY <1>1, <1>3, <3>1, <3>4, <4>3, <4>4 DEF alike, holdsManage
    <3> QED BY <3>2, <3>3, <3>4
  <2>9. request'[s].step \in {"flags", "owners"} /\ request'[s].target = u BY <2>4
  <2>10. OwnersInv'
    <3>1. \A v \in Users \ {u} : Calm => Offered(v)
      BY <2>2 DEF AccountsInv, OwnersInv
    <3>2. \A v \in Users \ {u} : Calm' => Offered(v)' BY <1>1, <3>1 DEF Calm, Offered, present
    <3> QED BY <2>9, <3>2 DEF OwnersInv, behind
  <2>11. OfficersInv'
    <3>1. \A v \in Users \ {u} : Calm => Listed(v)
      BY <2>2 DEF AccountsInv, OfficersInv
    <3>2. \A v \in Users \ {u} : Calm' => Listed(v)'
      BY <1>1, <3>1 DEF Calm, Listed, present, linkedTo
    <3> QED BY <2>9, <3>2 DEF OfficersInv, behind
  <2>12. RepairedInv' BY <2>1, <2>4 DEF RepairedInv
  <2> QED BY <1>6, <1>7, <1>8, <2>1, <2>5, <2>7, <2>8, <2>10, <2>11, <2>12 DEF AccountsInv
<1> QED BY <1>9, <1>10

LEMMA WriteFlagsKeeps ==
  ASSUME AccountsInv, NEW s \in Slots, WriteFlags(s)
  PROVE  AccountsInv'
<1> DEFINE r == request[s]
           u == r.target
<1>1. /\ r.step = "flags" /\ UNCHANGED <<concern, handledBy, officers, disturbed, nameTaken>>
      /\ request' = [request EXCEPT ![s].step = "owners"]
      /\ account' = [account EXCEPT ![u] =
                      [@ EXCEPT !.owner = r.next.owner, !.officer = r.next.officer]]
  BY DEF WriteFlags
<1>2. busy(s) BY <1>1 DEF busy
<1>3. IsRequest(r) /\ r.kind = "create"
  BY <1>1, <1>2 DEF AccountsInv, AccountsTypeInv, busy, IdleRequest, IsRequest
<1>4. u \in Users /\ r.next \in Rows /\ r.next.active BY <1>3 DEF IsRequest
<1>5. GoesOn(s, "owners") BY <1>1, <1>2, <1>3, RequestGoesOn DEF AccountsInv, Steps
<1>6. account \in [Users -> Rows \cup {Absent}] BY DEF AccountsInv, AccountsTypeInv
<1>7. account[u] \in Rows
  BY <1>1, <1>2, <1>4, <1>6 DEF AccountsInv, TargetsInv, present, Absent
<1>8. /\ account' \in [Users -> Rows \cup {Absent}]
      /\ \A v \in Users \ {u} : account'[v] = account[v]
      /\ account'[u].there /\ account'[u].active = account[u].active
      /\ account'[u].name = account[u].name /\ account'[u].grants = account[u].grants
      /\ account'[u].owner = r.next.owner /\ account'[u].officer = r.next.officer
  <2> DEFINE new == [account[u] EXCEPT !.owner = r.next.owner, !.officer = r.next.officer]
  <2> HIDE DEF r, u
  <2>1. account'[u] = new /\ \A v \in Users \ {u} : account'[v] = account[v]
    BY <1>1, <1>4, <1>6
  <2>2. DOMAIN account' = Users /\ account' = [v \in Users |-> account'[v]] BY <1>1, <1>6
  <2>3. new \in Rows /\ new.active = account[u].active /\ new.name = account[u].name
        /\ new.grants = account[u].grants /\ new.owner = r.next.owner
        /\ new.officer = r.next.officer /\ new.there
    BY <1>4, <1>7 DEF Rows
  <2> HIDE DEF new
  <2> QED BY <1>6, <2>1, <2>2, <2>3
<1>9. \A v \in Users : account'[v].there <=> account[v].there
  BY <1>7, <1>8 DEF Rows
<1>10. \A v \in Users : account[v].there =>
         /\ account'[v].name = account[v].name /\ account'[v].active = account[v].active
         /\ account'[v].grants = account[v].grants
  BY <1>8
<1>11. AccountsTypeInv'
  BY <1>1, <1>2, <1>5, <1>8, GoesOnKeeps DEF AccountsInv, AccountsTypeInv, GoesOn
<1>12. \A q \in Slots : busy(q)' => busy(q) /\ request'[q].target = request[q].target
                          /\ request'[q].next = request[q].next /\ request'[q].kind = request[q].kind
                          /\ request'[q].read = request[q].read /\ request[q].target \in Users
  BY <1>5 DEF GoesOn, AccountsInv, AccountsTypeInv, busy, IdleRequest, IsRequest
<1>13. TargetsInv'
  <2>1. \A q \in Slots \ {s} : busy(q)' => request'[q].step = request[q].step
    BY <1>5 DEF GoesOn
  <2> QED BY <1>1, <1>8, <1>9, <1>12, <2>1 DEF AccountsInv, TargetsInv, present
<1>14. LinksInv' BY <1>1 DEF AccountsInv, LinksInv
<1>15. CASE ~r.alone
  BY <1>1, <1>2, <1>5, <1>11, <1>13, <1>14, <1>15, GoesOnKeeps DEF AccountsInv, Overlookable
<1>16. CASE r.alone
  <2>1. AloneInv' /\ \A q \in Slots : busy(q)' => q = s
    BY <1>1, <1>2, <1>5, <1>16, GoesOnKeeps
  <2>2. /\ \A v \in Users \ {u} :
             ~behind(v, {"flags", "owners"}) /\ ~behind(v, {"flags", "owners", "officers"})
        /\ Abreast(r)
    BY <1>2, <1>16, AloneIsOnly
  <2>3. account[u].active /\ account[u].name = r.next.name BY <1>1, <2>2 DEF Abreast
  <2>4. request'[s].step = "owners" /\ request'[s].target = u /\ request'[s].next = r.next
    BY <1>5 DEF GoesOn
  <2>5. AbreastInv'
    <3>1. alike(account'[u], r.next) BY <1>4, <1>8, <2>3 DEF alike
    <3>2. Abreast(request[s])' BY <1>8, <2>4, <3>1 DEF Abreast, present
    <3>3. Spared(request[s])' BY <2>4 DEF Spared
    <3> QED BY <2>1, <3>2, <3>3 DEF AbreastInv
  <2>6. NamesInv'
    <3> SUFFICES ASSUME Calm' PROVE NamesInv'
      BY DEF NamesInv
    <3>1. /\ \A v, w \in Users : account[v].there /\ account[w].there
                               /\ account[v].name = account[w].name => v = w
          /\ \A q \in Slots, v \in Users :
               busy(q) /\ account[v].there /\ v # request[q].target =>
                 /\ account[v].name # request[q].next.name
                 /\ request[q].kind = "edit" => account[v].name # request[q].read.name
      BY <1>1 DEF Calm, AccountsInv, NamesInv, present
    <3>2. \A v, w \in Users : account'[v].there /\ account'[w].there
                              /\ account'[v].name = account'[w].name => v = w
      BY <1>9, <1>10, <3>1
    <3>3. ASSUME NEW q \in Slots, NEW v \in Users,
                 busy(q)', account'[v].there, v # request'[q].target
          PROVE  /\ account'[v].name # request'[q].next.name
                 /\ request'[q].kind = "edit" => account'[v].name # request'[q].read.name
      BY <1>9, <1>10, <1>12, <3>1, <3>3
    <3> QED BY <3>2, <3>3 DEF NamesInv, present
  <2>7. GatekeeperRemains'
    BY <1>1, <1>9, <1>10 DEF AccountsInv, GatekeeperRemains, present, holdsManage
  <2>8. OwnersInv'
    <3>1. \A v \in Users \ {u} : Calm => Offered(v)
      BY <2>2 DEF AccountsInv, OwnersInv
    <3>2. \A v \in Users \ {u} : Offered(v)' <=> Offered(v)
      <4>1. \A v \in Users \ {u} : account'[v] = account[v] BY <1>8
      <4> QED BY <1>1, <4>1 DEF Offered, present
    <3> QED BY <1>1, <2>4, <3>1, <3>2 DEF Calm, OwnersInv, behind
  <2>9. OfficersInv'
    <3>1. \A v \in Users \ {u} : Calm => Listed(v)
      BY <2>2 DEF AccountsInv, OfficersInv
    <3>2. \A v \in Users \ {u} : Calm' => Listed(v)'
      BY <1>1, <1>8, <3>1 DEF Calm, Listed, present, linkedTo
    <3> QED BY <2>4, <3>2 DEF OfficersInv, behind
  <2>10. RepairedInv' BY <2>1, <2>4 DEF RepairedInv
  <2> QED BY <1>11, <1>13, <1>14, <2>1, <2>5, <2>6, <2>7, <2>8, <2>9, <2>10 DEF AccountsInv
<1> QED BY <1>15, <1>16

-----------------------------------------------------------------------------
(* The list of event owners.                                               *)

\* A synchronisation of the owners' list writes the entries of the new and of
\* the old name only, and leaves the new name as the account wants it.
LEMMA OwnersListShape ==
  ASSUME handledBy \in [Names -> OptionStates], NEW name \in Names, NEW previous \in Names,
         NEW wanted \in BOOLEAN, handledBy' \in syncHandledByOption(name, previous, wanted)
  PROVE  /\ handledBy' \in [Names -> OptionStates]
         /\ \A n \in Names \ {name, previous} : handledBy'[n] = handledBy[n]
         /\ handledBy'[name] = "active" <=> wanted
<1>1. CASE ~wanted
  <2>1. handledBy' = [n \in Names |-> IF n \in {name, previous} /\ handledBy[n] # "absent"
                                      THEN "inactive" ELSE handledBy[n]]
    BY <1>1 DEF syncHandledByOption
  <2> QED BY <1>1, <2>1 DEF OptionStates
<1>2. CASE wanted
  <2>1. handledBy' = [[handledBy EXCEPT ![previous] = "absent"] EXCEPT ![name] = "active"]
    BY <1>2 DEF syncHandledByOption
  <2> QED BY <1>2, <2>1 DEF OptionStates
<1> QED BY <1>1, <1>2

\* The name a row is looked up by is a name, and it is the account's own.
LEMMA PreviousName ==
  ASSUME NEW r, IsRequest(r)
  PROVE  /\ r.next.name \in Names /\ previousName(r) \in Names
         /\ previousName(r) = IF r.kind = "edit" THEN r.read.name ELSE r.next.name
BY DEF IsRequest, previousName, Rows

\* The lists are told the state the account is left in.
LEMMA EnabledIsNext ==
  ASSUME NEW r, IsRequest(r)
  PROVE  /\ r.next.owner =>
              touchesOwners(r) /\ (enabled(r, r.next.owner) <=> r.next.active)
         /\ r.next.officer =>
              touchesOfficers(r) /\ (enabled(r, r.next.officer) <=> r.next.active)
         /\ enabled(r, r.next.owner) \in BOOLEAN /\ enabled(r, r.next.officer) \in BOOLEAN
<1>1. CASE r.kind = "create"
  BY <1>1 DEF IsRequest, touchesOwners, touchesOfficers, enabled, Rows
<1>2. CASE r.kind = "edit"
  BY <1>2 DEF IsRequest, touchesOwners, touchesOfficers, enabled, Rows
<1>3. CASE r.kind \in {"on", "off"}
  BY <1>3 DEF IsRequest, touchesOwners, touchesOfficers, enabled, Rows, Toggles
<1> QED BY <1>1, <1>2, <1>3 DEF IsRequest, Kinds

LEMMA SyncOwnersKeeps ==
  ASSUME AccountsInv, NEW s \in Slots, SyncOwners(s)
  PROVE  AccountsInv'
<1> DEFINE r == request[s]
           u == r.target
           wanted == enabled(r, r.next.owner)
           lists == IF touchesOwners(r)
                    THEN syncHandledByOption(r.next.name, previousName(r), wanted)
                    ELSE {handledBy}
<1>1. CASE Fail(s) BY <1>1, GivenUpKeeps DEF Fail
<1>2. CASE ~Fail(s)
  <2>1. /\ r.step = "owners" /\ handledBy' \in lists
        /\ request' = [request EXCEPT ![s].step = "officers"]
        /\ UNCHANGED <<concern, account, officers, disturbed, nameTaken>>
    BY <1>2 DEF SyncOwners
  <2>2. busy(s) BY <2>1 DEF busy
  <2>3. IsRequest(r) BY <2>2 DEF AccountsInv, AccountsTypeInv, busy, IdleRequest
  <2>4. GoesOn(s, "officers") BY <2>1, <2>2, RequestGoesOn DEF AccountsInv, Steps
  <2>5. /\ handledBy' \in [Names -> OptionStates]
        /\ \A n \in Names \ {r.next.name, previousName(r)} : handledBy'[n] = handledBy[n]
        /\ touchesOwners(r) => (handledBy'[r.next.name] = "active" <=> wanted)
    <3>1. handledBy \in [Names -> OptionStates] BY DEF AccountsInv, AccountsTypeInv
    <3>2. CASE ~touchesOwners(r) BY <2>1, <3>1, <3>2
    <3>3. CASE touchesOwners(r)
      <4>1. handledBy' \in syncHandledByOption(r.next.name, previousName(r), wanted)
        BY <2>1, <3>3
      <4>2. wanted \in BOOLEAN BY <2>3, EnabledIsNext
      <4>3. r.next.name \in Names /\ previousName(r) \in Names BY <2>3, PreviousName
      <4> HIDE DEF wanted, r
      <4> QED BY <3>1, <4>1, <4>2, <4>3, OwnersListShape
    <3> QED BY <3>2, <3>3
  <2>6. AccountsTypeInv'
    BY <2>1, <2>2, <2>4, <2>5, GoesOnKeeps DEF AccountsInv, AccountsTypeInv, GoesOn
  <2>7. TargetsInv'
    BY <2>1, <2>4 DEF GoesOn, AccountsInv, TargetsInv, present
  <2>8. LinksInv' BY <2>1 DEF AccountsInv, LinksInv
  <2>9. CASE ~r.alone
    BY <2>1, <2>2, <2>4, <2>6, <2>7, <2>8, <2>9, GoesOnKeeps DEF AccountsInv, Overlookable
  <2>10. CASE r.alone
    <3>1. AloneInv' /\ \A q \in Slots : busy(q)' => q = s
      BY <2>1, <2>2, <2>4, <2>10, GoesOnKeeps
    <3>2. /\ \A v \in Users \ {u} :
               ~behind(v, {"flags", "owners"}) /\ ~behind(v, {"flags", "owners", "officers"})
          /\ Abreast(r)
      BY <2>2, <2>10, AloneIsOnly
    <3>3. present(u) /\ alike(account[u], r.next) BY <2>1, <3>2 DEF Abreast
    <3>4. /\ request'[s].step = "officers" /\ request'[s].target = u /\ request'[s].next = r.next
          /\ request'[s].kind = r.kind /\ request'[s].read = r.read
      BY <2>4 DEF GoesOn
    <3>5. AbreastInv'
      <4>1. Abreast(request[s])' BY <2>1, <3>3, <3>4 DEF Abreast, present
      <4>2. Spared(request[s])' BY <3>4 DEF Spared
      <4> QED BY <3>1, <4>1, <4>2 DEF AbreastInv
    <3>6. NamesInv'
      BY <2>1, <2>2, <3>1, <3>4 DEF Calm, AccountsInv, NamesInv, present
    <3>7. GatekeeperRemains'
      BY <2>1 DEF AccountsInv, GatekeeperRemains, present, holdsManage
    <3>8. r.next.owner => (handledBy'[account[u].name] = "active" <=> account[u].active)
      BY <2>3, <2>5, <3>3, EnabledIsNext DEF alike
    <3>9. OwnersInv'
      <4> SUFFICES ASSUME Calm, NEW v \in Users, account[v].there, account[v].owner
                   PROVE  handledBy'[account[v].name] = "active" <=> account[v].active
        BY <2>1 DEF Calm, OwnersInv, Offered, present
      <4>1. CASE v = u BY <3>3, <3>8, <4>1 DEF alike
      <4>2. CASE v # u
        <5>1. Offered(v) BY <3>2, <4>2 DEF AccountsInv, OwnersInv
        <5>2. account[v].name # r.next.name /\ account[v].name # previousName(r)
          BY <2>2, <2>3, <4>2, PreviousName DEF AccountsInv, NamesInv, present
        <5>3. account[v] \in Rows BY DEF AccountsInv, AccountsTypeInv, Absent
        <5>4. handledBy'[account[v].name] = handledBy[account[v].name] BY <2>5, <5>2, <5>3 DEF Rows
        <5> QED BY <5>1, <5>4 DEF Offered, present
      <4> QED BY <4>1, <4>2
    <3>10. OfficersInv'
      <4>1. \A v \in Users \ {u} : Calm => Listed(v)
        BY <3>2 DEF AccountsInv, OfficersInv
      <4>2. \A v \in Users : Listed(v)' <=> Listed(v)
        BY <2>1 DEF Listed, present, linkedTo
      <4> QED BY <2>1, <3>4, <4>1, <4>2 DEF Calm, OfficersInv, behind
    <3>11. RepairedInv' BY <2>1, <3>1, <3>4, <3>8 DEF RepairedInv
    <3> QED BY <2>6, <2>7, <2>8, <3>1, <3>5, <3>6, <3>7, <3>9, <3>10, <3>11 DEF AccountsInv
  <2> QED BY <2>9, <2>10
<1> QED BY <1>1, <1>2

-----------------------------------------------------------------------------
(* The list of programme officers.                                         *)

\* A synchronisation that takes the account off the list leaves its row there.
LEMMA OfficerIsTakenOff ==
  ASSUME officers \in [Names -> Entries], LinksInv, NEW u \in Users, NEW name, NEW previous,
         officers' \in syncProgrammeOfficerOption(u, name, previous, FALSE)
  PROVE  /\ officers' \in [Names -> Entries]
         /\ \A n \in Names : officers'[n].user = officers[n].user
         /\ \A n \in Names \ linkedTo(u) : officers'[n] = officers[n]
         /\ \A n \in linkedTo(u) : officers'[n].state = "inactive"
<1>1. CASE linkedTo(u) = {} BY <1>1 DEF syncProgrammeOfficerOption
<1>2. CASE linkedTo(u) # {}
  <2>1. PICK n \in linkedTo(u) : officers' = [officers EXCEPT ![n].state = "inactive"]
    BY <1>2 DEF syncProgrammeOfficerOption
  <2>2. n \in Names /\ officers[n] \in Entries BY DEF linkedTo
  <2>3. linkedTo(u) = {n} BY <2>1 DEF linkedTo, LinksInv
  <2>4. /\ officers'[n] = [officers[n] EXCEPT !.state = "inactive"]
        /\ \A m \in Names \ {n} : officers'[m] = officers[m]
        /\ DOMAIN officers' = Names /\ officers' = [m \in Names |-> officers'[m]]
    BY <2>1, <2>2
  <2>5. [officers[n] EXCEPT !.state = "inactive"] \in Entries
    BY <2>2 DEF Entries, OptionStates
  <2>6. officers'[n].state = "inactive" /\ officers'[n].user = officers[n].user
    BY <2>2, <2>4 DEF Entries
  <2> QED BY <2>3, <2>4, <2>5, <2>6
<1> QED BY <1>1, <1>2

\* One that puts the account on the list moves its row, or another row of one
\* of its names, to the new name; no other row is written.
LEMMA OfficerIsPutOn ==
  ASSUME officers \in [Names -> Entries], LinksInv, NEW u \in Users,
         NEW name \in Names, NEW previous \in Names,
         officers' \in syncProgrammeOfficerOption(u, name, previous, TRUE)
  PROVE  /\ officers' \in [Names -> Entries]
         /\ officers'[name] = [state |-> "active", user |-> u]
         /\ \A m \in Names \ {name} :
              \/ officers'[m] = officers[m] /\ m \notin linkedTo(u)
              \/ officers'[m] = NoOption /\ m \in linkedTo(u) \cup {previous}
<1>1. PICK n \in officerRows(u, name, previous) :
        officers' = [[officers EXCEPT ![n] = NoOption] EXCEPT ![name] = [state |-> "active", user |-> u]]
  BY DEF syncProgrammeOfficerOption
<1>2. /\ n \in Names
      /\ linkedTo(u) # {} => n \in linkedTo(u)
      /\ n # name => n \in linkedTo(u) \cup {previous}
  BY DEF officerRows, linkedTo
<1>3. linkedTo(u) \subseteq {n} BY <1>2 DEF linkedTo, LinksInv
<1>4. NoOption \in Entries /\ [state |-> "active", user |-> u] \in Entries
  BY DEF NoOption, Entries, OptionStates
<1>5. /\ officers' \in [Names -> Entries]
      /\ officers'[name] = [state |-> "active", user |-> u]
      /\ \A m \in Names \ {name} : officers'[m] = IF m = n THEN NoOption ELSE officers[m]
  BY <1>1, <1>2, <1>4
<1> QED BY <1>2, <1>3, <1>5

\* No account has two rows.
LEMMA OneRowEach ==
  ASSUME LinksInv, NEW u \in Users, officers' \in [Names -> Entries],
         NEW name \in Names, NEW previous \in Names,
         officers'[name] = [state |-> "active", user |-> u],
         \A m \in Names \ {name} :
           \/ officers'[m] = officers[m] /\ m \notin linkedTo(u)
           \/ officers'[m] = NoOption /\ m \in linkedTo(u) \cup {previous}
  PROVE  LinksInv' /\ linkedTo(u)' = {name}
<1>1. NoOption.user \notin Users /\ u # NoOption.user
  BY AccountsAssumption DEF NoOption
<1>2. \A m \in Names \ {name} : officers'[m].user # u
  BY <1>1 DEF linkedTo
<1>3. officers'[name].user = u OBVIOUS
<1>4. LinksInv'
  <2> SUFFICES ASSUME NEW n \in Names, NEW m \in Names, officers'[n].user \in Users,
                      officers'[n].user = officers'[m].user
               PROVE  n = m
    BY DEF LinksInv
  <2>1. CASE n = name \/ m = name BY <1>2, <1>3, <2>1
  <2>2. CASE n # name /\ m # name
    <3>1. officers'[n] = officers[n] /\ officers'[m] = officers[m] BY <1>1, <2>2
    <3> QED BY <3>1 DEF LinksInv
  <2> QED BY <2>1, <2>2
<1>5. linkedTo(u)' = {name} BY <1>2, <1>3 DEF linkedTo
<1> QED BY <1>4, <1>5

\* The rows of an account that keeps its name off the synchronisation stand.
LEMMA OthersStayListed ==
  ASSUME officers \in [Names -> Entries], NEW u \in Users, NEW v \in Users \ {u},
         NEW name \in Names, NEW previous \in Names, account' = account,
         account[v].name \in Names \ {name, previous}, Listed(v),
         officers'[name].user = u,
         \A m \in Names \ {name} :
           \/ officers'[m] = officers[m] /\ m \notin linkedTo(u)
           \/ officers'[m] = NoOption /\ m \in linkedTo(u) \cup {previous}
  PROVE  Listed(v)'
<1>1. NoOption.user # v BY AccountsAssumption DEF NoOption
<1>2. \A m \in Names : officers'[m].user = v => officers'[m] = officers[m] /\ m \in linkedTo(v)
  BY <1>1 DEF linkedTo
<1> SUFFICES ASSUME account[v].there, account[v].officer
             PROVE  IF account[v].active
                    THEN /\ {n \in Names : officers'[n].user = v} = {account[v].name}
                         /\ officers'[account[v].name].state = "active"
                    ELSE \A n \in Names : officers'[n].user = v => officers'[n].state = "inactive"
  BY DEF Listed, present, linkedTo
<1>3. CASE account[v].active
  <2> DEFINE n == account[v].name
  <2>1. linkedTo(v) = {n} /\ officers[n].state = "active" /\ n \in Names
    BY <1>3 DEF Listed, present
  <2>2. officers[n].user = v /\ n \notin linkedTo(u)
    <3> HIDE DEF n
    <3> QED BY <2>1 DEF linkedTo
  <2>3. officers'[n] = officers[n] BY <2>2
  <2> HIDE DEF n
  <2>4. {m \in Names : officers'[m].user = v} = {n} BY <1>2, <2>1, <2>2, <2>3
  <2> QED BY <1>3, <2>1, <2>3, <2>4 DEF n
<1>4. CASE ~account[v].active BY <1>2, <1>4 DEF Listed, present
<1> QED BY <1>3, <1>4

LEMMA SyncOfficersKeeps ==
  ASSUME AccountsInv, NEW s \in Slots, SyncOfficers(s)
  PROVE  AccountsInv'
<1> DEFINE r == request[s]
           wanted == enabled(r, r.next.officer)
           lists == IF touchesOfficers(r)
                    THEN syncProgrammeOfficerOption(r.target, r.next.name, previousName(r), wanted)
                    ELSE {officers}
<1>1. CASE Fail(s) BY <1>1, GivenUpKeeps DEF Fail
<1>2. CASE ~Fail(s)
  <2>1. /\ r.step = "officers" /\ officers' \in lists
        /\ request' = [request EXCEPT ![s] = IdleRequest]
        /\ UNCHANGED <<concern, account, handledBy, disturbed, nameTaken>>
    BY <1>2 DEF SyncOfficers
  <2>2. busy(s) BY <2>1 DEF busy
  <2>3. IsRequest(r) BY <2>2 DEF AccountsInv, AccountsTypeInv, busy, IdleRequest
  <2>4. PICK u \in Users : u = r.target BY <2>3 DEF IsRequest
  <2>5. PICK name \in Names, previous \in Names : name = r.next.name /\ previous = previousName(r)
    BY <2>3, PreviousName
  <2>6. /\ DOMAIN request' = Slots /\ request'[s] = IdleRequest /\ ~busy(s)'
        /\ \A q \in Slots \ {s} : request'[q] = request[q] /\ (busy(q)' <=> busy(q))
    BY <2>1 DEF AccountsInv, AccountsTypeInv, busy, IdleRequest
  <2>7. officers \in [Names -> Entries] /\ LinksInv BY DEF AccountsInv, AccountsTypeInv
  <2>8. \/ officers' = officers
        \/ ~wanted /\ officers' \in syncProgrammeOfficerOption(u, name, previous, FALSE)
        \/ wanted /\ officers' \in syncProgrammeOfficerOption(u, name, previous, TRUE)
    <3>1. wanted \in BOOLEAN BY <2>3, EnabledIsNext
    <3> HIDE DEF wanted
    <3> QED BY <2>1, <2>4, <2>5, <3>1
  <2>9. officers' \in [Names -> Entries] /\ LinksInv'
    <3>1. CASE officers' = officers BY <2>7, <3>1 DEF LinksInv
    <3>2. CASE officers' \in syncProgrammeOfficerOption(u, name, previous, FALSE)
      <4>1. officers' \in [Names -> Entries] /\ \A n \in Names : officers'[n].user = officers[n].user
        BY <2>7, <3>2, OfficerIsTakenOff
      <4> QED BY <2>7, <4>1 DEF LinksInv
    <3>3. CASE officers' \in syncProgrammeOfficerOption(u, name, previous, TRUE)
      <4>1. /\ officers' \in [Names -> Entries]
            /\ officers'[name] = [state |-> "active", user |-> u]
            /\ \A m \in Names \ {name} :
                 \/ officers'[m] = officers[m] /\ m \notin linkedTo(u)
                 \/ officers'[m] = NoOption /\ m \in linkedTo(u) \cup {previous}
        BY <2>7, <3>3, OfficerIsPutOn
      <4> QED BY <2>7, <4>1, OneRowEach
    <3> QED BY <2>8, <3>1, <3>2, <3>3
  <2>10. AccountsTypeInv' BY <2>1, <2>6, <2>9 DEF AccountsInv, AccountsTypeInv
  <2>11. TargetsInv' BY <2>1, <2>6 DEF AccountsInv, TargetsInv, present
  <2>12. CASE ~r.alone
    BY <2>1, <2>2, <2>6, <2>9, <2>10, <2>11, <2>12, OvertakenKeeps DEF AccountsInv, Overlookable
  <2>13. CASE r.alone
    <3>1. /\ \A v \in Users \ {r.target} : ~behind(v, {"flags", "owners"})
                                 /\ ~behind(v, {"flags", "owners", "officers"})
          /\ Abreast(r) /\ \A q \in Slots \ {s} : ~busy(q)
      BY <2>2, <2>13, AloneIsOnly
    <3>2. \A q \in Slots : ~busy(q)' BY <2>6, <3>1
    <3>3. present(u) /\ alike(account[u], r.next) BY <2>1, <2>4, <3>1 DEF Abreast
    <3>4. AloneInv' /\ AbreastInv' /\ RepairedInv'
      BY <3>2 DEF AloneInv, AbreastInv, RepairedInv
    <3>5. NamesInv' BY <2>1, <3>2 DEF Calm, AccountsInv, NamesInv, present
    <3>6. GatekeeperRemains'
      BY <2>1 DEF AccountsInv, GatekeeperRemains, present, holdsManage
    <3>7. OwnersInv'
      <4>1. \A v \in Users : ~behind(v, {"flags", "owners"})
        BY <2>1, <3>1 DEF behind, busy
      <4>2. \A v \in Users : Calm => Offered(v) BY <4>1 DEF AccountsInv, OwnersInv
      <4> QED BY <2>1, <4>2 DEF Calm, OwnersInv, Offered, present
    <3>8. ASSUME Calm, NEW v \in Users \ {u}, account[v].there, account[v].officer
          PROVE  Listed(v)'
      <4>1. Listed(v) BY <2>4, <3>1, <3>8 DEF AccountsInv, OfficersInv
      <4>2. CASE officers' = officers BY <2>1, <4>1, <4>2 DEF Listed, present, linkedTo
      <4>3. CASE officers' \in syncProgrammeOfficerOption(u, name, previous, FALSE)
        <5>1. \A n \in Names \ linkedTo(u) : officers'[n] = officers[n] BY <2>7, <4>3, OfficerIsTakenOff
        <5>2. \A n \in Names : officers'[n].user = officers[n].user
          BY <2>7, <4>3, OfficerIsTakenOff
        <5>3. linkedTo(v)' = linkedTo(v) /\ \A n \in linkedTo(v) : officers'[n] = officers[n]
          BY <5>1, <5>2 DEF linkedTo
        <5> QED BY <2>1, <4>1, <5>3 DEF Listed, present
      <4>4. CASE officers' \in syncProgrammeOfficerOption(u, name, previous, TRUE)
        <5>1. account[v].name # name /\ account[v].name # previous
          BY <2>2, <2>3, <2>4, <2>5, <3>8, PreviousName DEF AccountsInv, NamesInv, present
        <5>2. account[v] \in Rows
          BY <3>8 DEF AccountsInv, AccountsTypeInv, Absent
        <5>3. account[v].name \in Names \ {name, previous} BY <5>1, <5>2 DEF Rows
        <5>4. /\ officers'[name] = [state |-> "active", user |-> u]
              /\ \A m \in Names \ {name} :
                   \/ officers'[m] = officers[m] /\ m \notin linkedTo(u)
                   \/ officers'[m] = NoOption /\ m \in linkedTo(u) \cup {previous}
          BY <2>7, <4>4, OfficerIsPutOn
        <5>5. account' = account /\ officers'[name].user = u BY <2>1, <5>4
        <5> QED BY <2>7, <3>8, <4>1, <5>3, <5>4, <5>5, OthersStayListed
      <4> QED BY <2>8, <4>2, <4>3, <4>4
    <3>9. Listed(u)'
      <4> SUFFICES ASSUME account[u].officer PROVE Listed(u)'
        BY <2>1 DEF Listed, present
      <4>1. r.next.officer /\ touchesOfficers(r) /\ (wanted <=> account[u].active)
           /\ wanted \in BOOLEAN
        BY <2>3, <3>3, EnabledIsNext DEF alike
      <4>2. officers' \in syncProgrammeOfficerOption(u, name, previous, wanted)
        BY <2>1, <2>4, <2>5, <4>1
      <4>3. account[u].name = name BY <2>5, <3>3 DEF alike
      <4> HIDE DEF wanted
      <4>4. CASE account[u].active
        <5>1. officers' \in syncProgrammeOfficerOption(u, name, previous, TRUE)
          BY <4>1, <4>2, <4>4
        <5>2. /\ officers' \in [Names -> Entries]
              /\ officers'[name] = [state |-> "active", user |-> u]
              /\ \A m \in Names \ {name} :
                   \/ officers'[m] = officers[m] /\ m \notin linkedTo(u)
                   \/ officers'[m] = NoOption /\ m \in linkedTo(u) \cup {previous}
          BY <2>7, <5>1, OfficerIsPutOn
        <5>3. linkedTo(u)' = {name} BY <2>7, <5>2, OneRowEach
        <5> QED BY <2>1, <4>3, <4>4, <5>2, <5>3 DEF Listed
      <4>5. CASE ~account[u].active
        <5>1. officers' \in syncProgrammeOfficerOption(u, name, previous, FALSE)
          BY <4>1, <4>2, <4>5
        <5>2. /\ \A n \in Names : officers'[n].user = officers[n].user
              /\ \A n \in linkedTo(u) : officers'[n].state = "inactive"
          BY <2>7, <5>1, OfficerIsTakenOff
        <5> QED BY <2>1, <4>5, <5>2 DEF Listed, linkedTo
      <4> QED BY <4>4, <4>5
    <3>10. OfficersInv'
      <4>1. \A v \in Users : ~(account[v].there /\ account[v].officer) => Listed(v)'
        BY <2>1 DEF Listed, present
      <4> QED BY <2>1, <3>8, <3>9, <4>1 DEF Calm, OfficersInv
    <3> QED BY <2>9, <2>10, <2>11, <3>4, <3>5, <3>6, <3>7, <3>10 DEF AccountsInv
  <2> QED BY <2>12, <2>13
<1> QED BY <1>1, <1>2

-----------------------------------------------------------------------------
(* The theorems.                                                           *)

LEMMA AccountsNextKeeps == AccountsInv /\ [AccountsNext]_accountsVars => AccountsInv'
<1> SUFFICES ASSUME AccountsInv, [AccountsNext]_accountsVars PROVE AccountsInv'
  OBVIOUS
<1>1. CASE UNCHANGED accountsVars
  BY <1>1 DEF Calm, AccountsInv, accountsVars, AccountsTypeInv, TargetsInv, AloneInv, AbreastInv,
              Abreast, Spared, NamesInv, GatekeeperRemains, OwnersInv, LinksInv, OfficersInv,
              RepairedInv, behind, Offered, Listed, busy, present, holdsManage,
              otherGatekeepers, linkedTo
<1>2. CASE AccountsNext
  <2> SUFFICES ASSUME NEW s \in Slots,
                 \/ \E u \in Users :
                      \/ \E name \in Names :
                           StartCreate(s, u, Row(name, "other", concern = "owners",
                                                 concern = "officers"))
                      \/ \E change \in Edits : StartEdit(s, u, change)
                      \/ \E active \in BOOLEAN : StartToggle(s, u, active)
                 \/ Write(s) \/ WriteFlags(s) \/ SyncOwners(s) \/ SyncOfficers(s) \/ Die(s)
               PROVE  AccountsInv'
    BY <1>2 DEF AccountsNext
  <2>1. ASSUME NEW u \in Users, NEW name \in Names,
               StartCreate(s, u, Row(name, "other", concern = "owners", concern = "officers"))
        PROVE  AccountsInv'
    BY <2>1, CreateStarts
  <2>2. ASSUME NEW u \in Users, NEW change \in Edits, StartEdit(s, u, change) PROVE AccountsInv'
    BY <2>2, EditStarts
  <2>3. ASSUME NEW u \in Users, NEW active \in BOOLEAN, StartToggle(s, u, active)
        PROVE  AccountsInv'
    BY <2>3, ToggleStarts
  <2>4. CASE Write(s) BY <2>4, WriteKeeps
  <2>5. CASE WriteFlags(s) BY <2>5, WriteFlagsKeeps
  <2>6. CASE SyncOwners(s) BY <2>6, SyncOwnersKeeps
  <2>7. CASE SyncOfficers(s) BY <2>7, SyncOfficersKeeps
  <2>8. CASE Die(s) BY <2>8, GivenUpKeeps DEF Die
  <2> QED BY <2>1, <2>2, <2>3, <2>4, <2>5, <2>6, <2>7, <2>8
<1> QED BY <1>1, <1>2

LEMMA AccountsAlways == AccountsSpec => []AccountsInv
BY AccountsInitInv, AccountsNextKeeps, PTL DEF AccountsSpec

\* Team accounts can always be managed by somebody, whatever chain of edits
\* and deactivations came before, as long as no two requests overlapped.
THEOREM GatekeeperAlwaysRemains == AccountsSpec => []GatekeeperRemains
<1>1. AccountsInv => GatekeeperRemains BY DEF AccountsInv
<1> QED BY <1>1, AccountsAlways, PTL

\* With no request under way the drop-down of event owners offers exactly the
\* owners whose accounts are active, through renamings and toggles, provided
\* that so far no two requests overlapped, none died, no account was given the
\* name that another account has and no request ended on a taken name.
THEOREM OwnersAlwaysOffered == AccountsSpec => []OwnersAreOffered
<1>1. AccountsInv => OwnersAreOffered
  <2> SUFFICES ASSUME AccountsInv, Calm, idle PROVE \A u \in Users : Offered(u)
    BY DEF OwnersAreOffered, OwnersFollow, Offered, Calm
  <2>1. \A u \in Users : ~behind(u, {"flags", "owners"}) BY DEF idle, busy, behind
  <2> QED BY <2>1 DEF AccountsInv, OwnersInv
<1> QED BY <1>1, AccountsAlways, PTL

\* With no request under way an active officer has one row of the programme
\* officers' list, under the account's name, and an inactive one is not offered,
\* provided that so far no two requests overlapped, none died, no account was
\* given the name that another account has and no renaming ended on a name that
\* another row of the list has.
THEOREM OfficersAlwaysOffered == AccountsSpec => []OfficersAreOffered
<1>1. AccountsInv => OfficersAreOffered
  <2> SUFFICES ASSUME AccountsInv, Calm, idle PROVE \A u \in Users : Listed(u)
    BY DEF OfficersAreOffered, OfficersFollow, Listed, Calm
  <2>1. \A u \in Users : ~behind(u, {"flags", "owners", "officers"})
    BY DEF idle, busy, behind
  <2> QED BY <2>1 DEF AccountsInv, OfficersInv
<1> QED BY <1>1, AccountsAlways, PTL

\* Whatever overlaps and deaths left behind, an edit that ran alone ends with
\* the owners' list as the account wants it.
THEOREM EditsRepairOwners == AccountsSpec => EditRepairsOwner
<1>1. AccountsInv =>
        \A s \in Slots :
          busy(s) /\ ~busy(s)' /\ request[s].kind = "edit" /\ request[s].alone
            /\ request[s].step = "officers" /\ request[s].next.owner =>
          LET row == account[request[s].target]
          IN  handledBy[row.name] = "active" <=> row.active
  BY DEF AccountsInv, RepairedInv
<1> QED BY <1>1, AccountsAlways, PTL DEF EditRepairsOwner

=============================================================================
