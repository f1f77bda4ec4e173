--------------------------- MODULE SpacesPgProofs ---------------------------
(***************************************************************************)
(* Proofs about the READ COMMITTED transactions, for any number of         *)
(* connections, users and Spaces.                                          *)
(*                                                                         *)
(* The committed rows alone are not inductive: what keeps them in order is *)
(* what a transaction knows at each statement, and why nobody can take it  *)
(* away before the write.  The invariant says which rows are locked at     *)
(* each statement, that no row is locked twice, and what was checked under *)
(* the lock and still holds.                                               *)
(*                                                                         *)
(* The last part is about transactions that do not overlap.  There also    *)
(* what was read without a lock still holds at the write, so each          *)
(* transaction does what the atomic one of module Spaces does, and the     *)
(* results about those (from MemosProofs) carry over.                      *)
(***************************************************************************)
EXTENDS SpacesPg, MemosProofs

-----------------------------------------------------------------------------
(* The invariant.                                                          *)

\* What is left to do of a CreateSpace, and of a transaction on an account.
CreateSpaceTodo == {<<"lockActiveUser", "insertSpace">>, <<"insertSpace">>}
AccountTodo ==
  {<<"validateArchive", "archive">>, <<"archive">>,
   <<"lockUser", "countMemberships", "deleteUser">>, <<"countMemberships", "deleteUser">>,
   <<"deleteUser">>}

\* What is left to do of the transactions that carry a role.
RoleTodo ==
  {<<"authorize", "lockSpace", "lockActiveUser", "insertInvitation">>,
   <<"lockSpace", "lockActiveUser", "insertInvitation">>,
   <<"lockActiveUser", "insertInvitation">>, <<"insertInvitation">>,
   <<"authorize", "requireActiveUser", "readMember", "countAdmins", "updateRole">>,
   <<"requireActiveUser", "readMember", "countAdmins", "updateRole">>,
   <<"readMember", "countAdmins", "updateRole">>, <<"countAdmins", "updateRole">>, <<"updateRole">>}

OtherTodo ==
  {<<"lockActiveUser", "activate">>, <<"activate">>,
   <<"requireActiveUser", "deleteInvited">>, <<"authorize", "deleteInvited">>, <<"deleteInvited">>,
   <<"readStatuses", "authorizeRemoval", "readMember", "countAdmins", "deleteActive">>,
   <<"authorizeRemoval", "readMember", "countAdmins", "deleteActive">>,
   <<"readMember", "countAdmins", "deleteActive">>, <<"countAdmins", "deleteActive">>, <<"deleteActive">>,
   <<"readActorStatus", "lockSpace", "readActorRole", "deleteSpace">>,
   <<"lockSpace", "readActorRole", "deleteSpace">>, <<"readActorRole", "deleteSpace">>, <<"deleteSpace">>}

Todo == {<<>>} \cup CreateSpaceTodo \cup AccountTodo \cup RoleTodo \cup OtherTodo

\* Where the target user's row is locked, and where the Space's is.
UserLocked ==
  {<<"insertSpace">>, <<"insertInvitation">>, <<"activate">>,
   <<"countMemberships", "deleteUser">>, <<"deleteUser">>}
SpaceLocked ==
  {<<"lockActiveUser", "insertInvitation">>, <<"insertInvitation">>,
   <<"readActorRole", "deleteSpace">>, <<"deleteSpace">>}

Locks(td, u, s) == (IF td \in UserLocked THEN {<<"user", u>>} ELSE {})
                     \cup (IF td \in SpaceLocked THEN {<<"space", s>>} ELSE {})

Flag == BOOLEAN
TxRow == [todo : Todo, actor : User \cup {"none"}, space : Space \cup {NoSpace, "none"},
          target : User \cup {"none"}, role : Role \cup {"none"}, mustCount : Flag,
          holds : SUBSET ({"user", "space"} \X (User \cup Space \cup {NoSpace, "none"}))]

\* The arguments a transaction was begun with.
Arguments(q) ==
  /\ q.todo # <<>> => q.actor \in User /\ q.target \in User
  /\ q.todo \notin AccountTodo \cup {<<>>} => q.space \in Space
  /\ q.todo \in RoleTodo => q.role \in Role

\* What it has checked that its write relies on.
Checked(td, u, s, us, ss, mem) ==
  /\ td \in CreateSpaceTodo => s \notin ss
  /\ td \in {<<"lockActiveUser", "insertInvitation">>, <<"insertInvitation">>} => s \in ss
  /\ td \in {<<"insertSpace">>, <<"insertInvitation">>, <<"activate">>} => us[u] = "NORMAL"
  /\ td \in {<<"countMemberships", "deleteUser">>, <<"deleteUser">>} => us[u] # "absent"
  /\ td = <<"deleteUser">> => \A x \in Space : mem[x][u].status # "ACTIVE"

Sound(us, ss, mem, q) ==
  /\ Arguments(q)
  /\ q.holds = Locks(q.todo, q.target, q.space)
  /\ Checked(q.todo, q.target, q.space, us, ss, mem)

\* No row is locked twice, and no two transactions create the same Space.
Apart(p, q) ==
  /\ p.holds \cap q.holds = {}
  /\ p.todo \in CreateSpaceTodo /\ q.todo \in CreateSpaceTodo => p.space # q.space

TxInv ==
  /\ tx \in [Tx -> TxRow]
  /\ \A t \in Tx : Sound(user, spaces, member, tx[t])
  /\ \A t, o \in Tx : t # o => Apart(tx[t], tx[o])

PgInv == SpaceTypeOK /\ NoOrphanMember /\ TxInv

-----------------------------------------------------------------------------
(* Statements and what is left to do after them.                           *)

ReadStatements ==
  {"authorize", "requireActiveUser", "countMemberships", "readStatuses", "authorizeRemoval",
   "readMember", "countAdmins", "validateArchive", "readActorStatus", "readActorRole"}

\* Where a transaction is when it is about to read.
LEMMA ReadTodo ==
  ASSUME NEW td \in Todo, td # <<>>, Head(td) \in ReadStatements
  PROVE  \/ td = <<"authorize", "lockSpace", "lockActiveUser", "insertInvitation">>
         \/ td = <<"authorize", "requireActiveUser", "readMember", "countAdmins", "updateRole">>
         \/ td = <<"requireActiveUser", "readMember", "countAdmins", "updateRole">>
         \/ td = <<"readMember", "countAdmins", "updateRole">>
         \/ td = <<"countAdmins", "updateRole">>
         \/ td = <<"requireActiveUser", "deleteInvited">>
         \/ td = <<"authorize", "deleteInvited">>
         \/ td = <<"readStatuses", "authorizeRemoval", "readMember", "countAdmins", "deleteActive">>
         \/ td = <<"authorizeRemoval", "readMember", "countAdmins", "deleteActive">>
         \/ td = <<"readMember", "countAdmins", "deleteActive">>
         \/ td = <<"countAdmins", "deleteActive">>
         \/ td = <<"readActorStatus", "lockSpace", "readActorRole", "deleteSpace">>
         \/ td = <<"readActorRole", "deleteSpace">>
         \/ td = <<"validateArchive", "archive">>
         \/ td = <<"countMemberships", "deleteUser">>
BY DEF Todo, CreateSpaceTodo, AccountTodo, RoleTodo, OtherTodo, ReadStatements

\* A read changes neither the kind of the transaction nor its locks, and only
\* the count of memberships adds to what is known.
ReadOn(td, rest) ==
  /\ rest \in Todo \ {<<>>}
  /\ rest \in RoleTodo => td \in RoleTodo
  /\ rest \in AccountTodo <=> td \in AccountTodo
  /\ rest \in UserLocked <=> td \in UserLocked
  /\ rest \in SpaceLocked <=> td \in SpaceLocked
  /\ rest \notin CreateSpaceTodo
  /\ rest \notin {<<"lockActiveUser", "insertInvitation">>, <<"insertInvitation">>,
                  <<"insertSpace">>, <<"activate">>, <<"countMemberships", "deleteUser">>}
  /\ rest = <<"deleteUser">> => td = <<"countMemberships", "deleteUser">>

LEMMA ReadTail ==
  ASSUME NEW td \in Todo, td # <<>>, Head(td) \in ReadStatements
  PROVE  ReadOn(td, Tail(td))
<1> USE DEF Todo, CreateSpaceTodo, AccountTodo, RoleTodo, OtherTodo, UserLocked, SpaceLocked, ReadOn
<1>1. CASE td = <<"authorize", "lockSpace", "lockActiveUser", "insertInvitation">>
  <2>1. Tail(td) = <<"lockSpace", "lockActiveUser", "insertInvitation">> BY <1>1
  <2> QED BY <1>1, <2>1
<1>2. CASE td = <<"authorize", "requireActiveUser", "readMember", "countAdmins", "updateRole">>
  <2>1. Tail(td) = <<"requireActiveUser", "readMember", "countAdmins", "updateRole">> BY <1>2
  <2> QED BY <1>2, <2>1
<1>3. CASE td = <<"requireActiveUser", "readMember", "countAdmins", "updateRole">>
  <2>1. Tail(td) = <<"readMember", "countAdmins", "updateRole">> BY <1>3
  <2> QED BY <1>3, <2>1
<1>4. CASE td = <<"readMember", "countAdmins", "updateRole">>
  <2>1. Tail(td) = <<"countAdmins", "updateRole">> BY <1>4
  <2> QED BY <1>4, <2>1
<1>5. CASE td = <<"countAdmins", "updateRole">>
  <2>1. Tail(td) = <<"updateRole">> BY <1>5
  <2> QED BY <1>5, <2>1
<1>6. CASE td = <<"requireActiveUser", "deleteInvited">>
  <2>1. Tail(td) = <<"deleteInvited">> BY <1>6
  <2> QED BY <1>6, <2>1
<1>15. CASE td = <<"authorize", "deleteInvited">>
  <2>1. Tail(td) = <<"deleteInvited">> BY <1>15
  <2> QED BY <1>15, <2>1
<1>7. CASE td = <<"readStatuses", "authorizeRemoval", "readMember", "countAdmins", "deleteActive">>
  <2>1. Tail(td) = <<"authorizeRemoval", "readMember", "countAdmins", "deleteActive">> BY <1>7
  <2> QED BY <1>7, <2>1
<1>8. CASE td = <<"authorizeRemoval", "readMember", "countAdmins", "deleteActive">>
  <2>1. Tail(td) = <<"readMember", "countAdmins", "deleteActive">> BY <1>8
  <2> QED BY <1>8, <2>1
<1>9. CASE td = <<"readMember", "countAdmins", "deleteActive">>
  <2>1. Tail(td) = <<"countAdmins", "deleteActive">> BY <1>9
  <2> QED BY <1>9, <2>1
<1>10. CASE td = <<"countAdmins", "deleteActive">>
  <2>1. Tail(td) = <<"deleteActive">> BY <1>10
  <2> QED BY <1>10, <2>1
<1>11. CASE td = <<"readActorStatus", "lockSpace", "readActorRole", "deleteSpace">>
  <2>1. Tail(td) = <<"lockSpace", "readActorRole", "deleteSpace">> BY <1>11
  <2> QED BY <1>11, <2>1
<1>12. CASE td = <<"readActorRole", "deleteSpace">>
  <2>1. Tail(td) = <<"deleteSpace">> BY <1>12
  <2> QED BY <1>12, <2>1
<1>13. CASE td = <<"validateArchive", "archive">>
  <2>1. Tail(td) = <<"archive">> BY <1>13
  <2> QED BY <1>13, <2>1
<1>14. CASE td = <<"countMemberships", "deleteUser">>
  <2>1. Tail(td) = <<"deleteUser">> BY <1>14
  <2> QED BY <1>14, <2>1
<1> QED BY ReadTodo, <1>1, <1>2, <1>3, <1>4, <1>5, <1>6, <1>7, <1>8, <1>9, <1>10, <1>11, <1>12,
           <1>13, <1>14, <1>15

\* Where a transaction is when it is about to lock a row.
LEMMA LockTodo ==
  ASSUME NEW td \in Todo, td # <<>>
  PROVE  /\ Head(td) = "lockActiveUser" =>
              td \in {<<"lockActiveUser", "insertSpace">>, <<"lockActiveUser", "insertInvitation">>,
                     <<"lockActiveUser", "activate">>}
         /\ Head(td) = "lockSpace" =>
              td \in {<<"lockSpace", "lockActiveUser", "insertInvitation">>,
                     <<"lockSpace", "readActorRole", "deleteSpace">>}
         /\ Head(td) = "lockUser" => td = <<"lockUser", "countMemberships", "deleteUser">>
         /\ Head(td) = "archive" => td = <<"archive">>
BY DEF Todo, CreateSpaceTodo, AccountTodo, RoleTodo, OtherTodo

\* A last write is all that is left.
LEMMA WriteTodo ==
  ASSUME NEW td \in Todo, td # <<>>,
         Head(td) \in {"insertSpace", "insertInvitation", "activate", "deleteInvited", "updateRole",
                       "deleteActive", "archive", "deleteSpace", "deleteUser"}
  PROVE  td = <<Head(td)>>
BY DEF Todo, CreateSpaceTodo, AccountTodo, RoleTodo, OtherTodo

-----------------------------------------------------------------------------
(* One transaction moves on, the tables stay.                              *)

LEMMA IdleSound ==
  /\ Idle \in TxRow /\ Idle.todo = <<>> /\ Idle.holds = {}
  /\ Sound(user, spaces, member, Idle)
  /\ \A p \in TxRow : Apart(Idle, p) /\ Apart(p, Idle)
<1> USE DEF CreateSpaceTodo, AccountTodo, RoleTodo, UserLocked, SpaceLocked
<1>1. Idle.todo = <<>> /\ Idle.holds = {} BY DEF Idle
<1>2. Idle \in TxRow
  <2>1. FALSE \in Flag BY DEF Flag
  <2> QED BY <2>1 DEF Idle, TxRow, Todo
<1>3. Sound(user, spaces, member, Idle) BY <1>1 DEF Sound, Arguments, Locks, Checked
<1>4. \A p \in TxRow : Apart(Idle, p) /\ Apart(p, Idle) BY <1>1 DEF Apart
<1> QED BY <1>1, <1>2, <1>3, <1>4

\* The invariant after a step that changes one transaction and no table.
LEMMA Replace ==
  ASSUME PgInv, NEW t \in Tx, NEW q \in TxRow, tx' = [tx EXCEPT ![t] = q], UNCHANGED spaceVars,
         Sound(user, spaces, member, q),
         \A o \in Tx : o # t => Apart(q, tx[o])
  PROVE  PgInv'
<1>1. SpaceTypeOK' /\ NoOrphanMember' BY DEF PgInv, SpaceTypeOK, NoOrphanMember, spaceVars
<1>2. tx \in [Tx -> TxRow] /\ tx' \in [Tx -> TxRow] /\ \A o \in Tx : tx'[o] = IF o = t THEN q ELSE tx[o]
  BY DEF PgInv, TxInv
<1>3. \A o \in Tx : Sound(user', spaces', member', tx'[o])
  BY <1>2 DEF PgInv, TxInv, spaceVars
<1>4. \A o \in Tx : o # t => Apart(tx[o], q) BY DEF Apart
<1>5. \A o, r \in Tx : o # r => Apart(tx'[o], tx'[r]) BY <1>2, <1>4 DEF PgInv, TxInv
<1> QED BY <1>1, <1>2, <1>3, <1>5 DEF PgInv, TxInv

LEMMA Rollback ==
  ASSUME PgInv, NEW t \in Tx, tx' = [tx EXCEPT ![t] = Idle], UNCHANGED spaceVars
  PROVE  PgInv'
<1>1. \A o \in Tx : Apart(Idle, tx[o]) BY IdleSound DEF PgInv, TxInv
<1> QED BY <1>1, IdleSound, Replace

\* A read that lets the transaction go on.
LEMMA GoOn ==
  ASSUME PgInv, NEW t \in Tx, Running(t), Head(tx[t].todo) \in ReadStatements,
         NEW q \in TxRow, q.todo = Tail(tx[t].todo), q.actor = tx[t].actor, q.space = tx[t].space,
         q.target = tx[t].target, q.role = tx[t].role, q.holds = tx[t].holds,
         q.todo = <<"deleteUser">> => \A s \in Space : member[s][q.target].status # "ACTIVE",
         tx' = [tx EXCEPT ![t] = q], UNCHANGED spaceVars
  PROVE  PgInv'
<1> DEFINE p == tx[t]
           td == tx[t].todo
<1>1. p \in TxRow /\ td \in Todo /\ td # <<>> /\ Sound(user, spaces, member, p)
  BY DEF PgInv, TxInv, TxRow, Running
<1>2. ReadOn(td, q.todo) BY <1>1, ReadTail
<1> USE DEF ReadOn
<1>3. Arguments(q) BY <1>1, <1>2 DEF Sound, Arguments
<1>4. q.holds = Locks(q.todo, q.target, q.space) BY <1>1, <1>2 DEF Sound, Locks
<1>5. Checked(q.todo, q.target, q.space, user, spaces, member) BY <1>1, <1>2 DEF Sound, Checked
<1>6. \A o \in Tx : o # t => Apart(q, tx[o]) BY <1>2 DEF PgInv, TxInv, Apart
<1> QED BY <1>3, <1>4, <1>5, <1>6, Replace DEF Sound

\* The transaction after one more statement, and after one that also decides
\* whether to count or takes a lock.
LEMMA OnwardFields ==
  ASSUME NEW t, tx[t] \in TxRow, Tail(tx[t].todo) \in Todo
  PROVE  /\ Onward(t) \in TxRow /\ Onward(t).todo = Tail(tx[t].todo) /\ Onward(t).actor = tx[t].actor
         /\ Onward(t).space = tx[t].space /\ Onward(t).target = tx[t].target
         /\ Onward(t).role = tx[t].role /\ Onward(t).holds = tx[t].holds
BY DEF TxRow, Onward

LEMMA CountFields ==
  ASSUME NEW p \in TxRow, NEW b \in Flag
  PROVE  LET q == [p EXCEPT !.mustCount = b]
         IN  /\ q \in TxRow /\ q.todo = p.todo /\ q.actor = p.actor /\ q.space = p.space
             /\ q.target = p.target /\ q.role = p.role /\ q.holds = p.holds
BY DEF TxRow

LEMMA HoldFields ==
  ASSUME NEW p \in TxRow,
         NEW h \in SUBSET ({"user", "space"} \X (User \cup Space \cup {NoSpace, "none"}))
  PROVE  LET q == [p EXCEPT !.holds = h]
         IN  /\ q \in TxRow /\ q.todo = p.todo /\ q.actor = p.actor /\ q.space = p.space
             /\ q.target = p.target /\ q.role = p.role /\ q.holds = h
BY DEF TxRow

\* A transaction at a statement, and what its record holds then.
LEMMA AtFacts ==
  ASSUME PgInv, NEW t \in Tx, Running(t)
  PROVE  /\ tx \in [Tx -> TxRow] /\ tx[t] \in TxRow /\ tx[t].todo \in Todo /\ tx[t].todo # <<>>
         /\ tx[t].actor \in User /\ tx[t].target \in User
         /\ Sound(user, spaces, member, tx[t])
BY DEF PgInv, TxInv, TxRow, Running, Sound, Arguments

LEMMA CheckStep ==
  ASSUME PgInv, NEW t \in Tx, NEW stmt \in ReadStatements, At(t, stmt),
         NEW ok \in BOOLEAN, Check(t, ok),
         ok /\ stmt = "countMemberships" =>
           \A s \in Space : member[s][tx[t].target].status # "ACTIVE"
  PROVE  PgInv'
<1>1. Running(t) /\ Head(tx[t].todo) = stmt BY DEF At
<1>2. ReadOn(tx[t].todo, Tail(tx[t].todo)) BY <1>1, AtFacts, ReadTail
<1>3. CASE ok
  <2>1. tx' = [tx EXCEPT ![t] = Onward(t)] /\ UNCHANGED spaceVars BY <1>3 DEF Check
  <2>2. /\ Onward(t) \in TxRow /\ Onward(t).todo = Tail(tx[t].todo) /\ Onward(t).actor = tx[t].actor
        /\ Onward(t).space = tx[t].space /\ Onward(t).target = tx[t].target
        /\ Onward(t).role = tx[t].role /\ Onward(t).holds = tx[t].holds
    BY <1>1, <1>2, AtFacts, OnwardFields DEF ReadOn
  <2>3. ASSUME Onward(t).todo = <<"deleteUser">> PROVE stmt = "countMemberships"
    <3>1. tx[t].todo = <<"countMemberships", "deleteUser">> BY <1>2, <2>2, <2>3 DEF ReadOn
    <3>2. Head(<<"countMemberships", "deleteUser">>) = "countMemberships" OBVIOUS
    <3> QED BY <1>1, <3>1, <3>2
  <2> QED BY <1>1, <1>3, <2>1, <2>2, <2>3, GoOn
<1>4. CASE ~ ok BY <1>4, Rollback DEF Check
<1> QED BY <1>3, <1>4

\* The same for a read that decides whether to count.
LEMMA DecideStep ==
  ASSUME PgInv, NEW t \in Tx, NEW stmt \in {"requireActiveUser", "readStatuses", "readMember"},
         At(t, stmt), NEW ok \in BOOLEAN, NEW b \in BOOLEAN,
         tx' = [tx EXCEPT ![t] = IF ok THEN [Onward(t) EXCEPT !.mustCount = b] ELSE Idle],
         UNCHANGED spaceVars
  PROVE  PgInv'
<1> DEFINE q == [Onward(t) EXCEPT !.mustCount = b]
<1>1. Running(t) /\ Head(tx[t].todo) = stmt BY DEF At
<1>2. ReadOn(tx[t].todo, Tail(tx[t].todo)) BY <1>1, AtFacts, ReadTail DEF ReadStatements
<1>3. CASE ok
  <2>1. tx' = [tx EXCEPT ![t] = q] BY <1>3
  <2>2. /\ Onward(t) \in TxRow /\ Onward(t).todo = Tail(tx[t].todo) /\ Onward(t).actor = tx[t].actor
        /\ Onward(t).space = tx[t].space /\ Onward(t).target = tx[t].target
        /\ Onward(t).role = tx[t].role /\ Onward(t).holds = tx[t].holds
    BY <1>1, <1>2, AtFacts, OnwardFields DEF ReadOn
  <2>3. b \in Flag BY DEF Flag
  <2>4. /\ q \in TxRow /\ q.todo = Tail(tx[t].todo) /\ q.actor = tx[t].actor /\ q.space = tx[t].space
        /\ q.target = tx[t].target /\ q.role = tx[t].role /\ q.holds = tx[t].holds
    BY <2>2, <2>3, CountFields
  <2> HIDE DEF q
  <2>5. q.todo # <<"deleteUser">> BY <1>1, <1>2, <2>4 DEF ReadOn
  <2> QED BY <1>1, <2>1, <2>4, <2>5, GoOn DEF ReadStatements
<1>4. CASE ~ ok BY <1>4, Rollback
<1> QED BY <1>3, <1>4

\* Moving on does not change the kind of a transaction.
Moves(td, rest) ==
  /\ rest \in Todo \ {<<>>}
  /\ rest \in RoleTodo => td \in RoleTodo
  /\ rest \notin AccountTodo => td \notin AccountTodo
  /\ rest \in CreateSpaceTodo => td \in CreateSpaceTodo

\* A lock taken: the row was free, so the locks stay apart.
LEMMA LockStep ==
  ASSUME PgInv, NEW t \in Tx, Running(t), NEW row, NEW ok \in BOOLEAN, Lock(t, row, ok),
         NEW td, Tail(tx[t].todo) = td, Moves(tx[t].todo, td),
         row \in {"user", "space"} \X (User \cup Space \cup {NoSpace, "none"}),
         Locks(td, tx[t].target, tx[t].space) = tx[t].holds \cup {row},
         ok => Checked(td, tx[t].target, tx[t].space, user, spaces, member)
  PROVE  PgInv'
<1> USE DEF Moves
<1> DEFINE q == [Onward(t) EXCEPT !.holds = tx[t].holds \cup {row}]
<1>1. CASE ok
  <2>1. tx' = [tx EXCEPT ![t] = q] /\ UNCHANGED spaceVars BY <1>1 DEF Lock
  <2>2. /\ Onward(t) \in TxRow /\ Onward(t).todo = td /\ Onward(t).actor = tx[t].actor
        /\ Onward(t).space = tx[t].space /\ Onward(t).target = tx[t].target
        /\ Onward(t).role = tx[t].role
    BY AtFacts, OnwardFields
  <2>3. tx[t].holds \cup {row} \in SUBSET ({"user", "space"} \X (User \cup Space \cup {NoSpace, "none"}))
    <3>1. tx[t].holds \subseteq {"user", "space"} \X (User \cup Space \cup {NoSpace, "none"})
      BY AtFacts DEF TxRow
    <3> QED BY <3>1
  <2>4. /\ q \in TxRow /\ q.todo = td /\ q.actor = tx[t].actor /\ q.space = tx[t].space
        /\ q.target = tx[t].target /\ q.role = tx[t].role /\ q.holds = tx[t].holds \cup {row}
    BY <2>2, <2>3, HoldFields
  <2> HIDE DEF q
  <2>5. Arguments(q) BY <2>4, AtFacts DEF Sound, Arguments
  <2>6. Sound(user, spaces, member, q) BY <1>1, <2>4, <2>5 DEF Sound
  <2>7. \A o \in Tx : o # t => Apart(q, tx[o])
    <3> SUFFICES ASSUME NEW o \in Tx, o # t PROVE Apart(q, tx[o]) OBVIOUS
    <3>1. Apart(tx[t], tx[o]) BY DEF PgInv, TxInv
    <3>2. row \notin tx[o].holds BY DEF Lock, HeldByOther, Locked
    <3> QED BY <2>4, <3>1, <3>2 DEF Apart
  <2> QED BY <2>1, <2>4, <2>6, <2>7, Replace
<1>2. CASE ~ ok BY <1>2, Rollback DEF Lock
<1> QED BY <1>1, <1>2

\* The statements that read.
LEMMA ReadSteps ==
  ASSUME PgInv, NEW t \in Tx,
         \/ Authorize(t) \/ RequireActiveUser(t) \/ CountMemberships(t) \/ ReadStatuses(t)
         \/ AuthorizeRemoval(t) \/ ReadMember(t) \/ CountAdmins(t) \/ ValidateArchive(t)
         \/ ReadActorStatus(t) \/ ReadActorRole(t)
  PROVE  PgInv'
<1> USE DEF ReadStatements
<1>1. CASE Authorize(t)
  <2> DEFINE ok == AuthorizeSpaceAdmin(tx[t].space, tx[t].actor)
  <2>1. ok \in BOOLEAN BY DEF AuthorizeSpaceAdmin
  <2>2. At(t, "authorize") /\ Check(t, ok) BY <1>1 DEF Authorize
  <2> HIDE DEF ok
  <2> QED BY <2>1, <2>2, CheckStep
<1>2. CASE RequireActiveUser(t)
  <2> DEFINE ok == ActiveUser(tx[t].target)
  <2>1. ok \in BOOLEAN BY DEF ActiveUser
  <2>2. /\ At(t, "requireActiveUser") /\ UNCHANGED spaceVars
        /\ tx' = [tx EXCEPT ![t] = IF ok THEN [Onward(t) EXCEPT !.mustCount = TRUE] ELSE Idle]
    BY <1>2 DEF RequireActiveUser
  <2> HIDE DEF ok
  <2> QED BY <2>1, <2>2, DecideStep
<1>3. CASE CountMemberships(t)
  <2> DEFINE ok == \A s \in Space : member[s][tx[t].target].status # "ACTIVE"
  <2>1. ok \in BOOLEAN OBVIOUS
  <2>2. At(t, "countMemberships") /\ Check(t, ok) BY <1>3 DEF CountMemberships
  <2>3. ok => \A s \in Space : member[s][tx[t].target].status # "ACTIVE" OBVIOUS
  <2> HIDE DEF ok
  <2> QED BY <2>1, <2>2, <2>3, CheckStep
<1>4. CASE ReadStatuses(t)
  <2> DEFINE ok == tx[t].actor # tx[t].target => ActiveUser(tx[t].actor)
             b == ActiveUser(tx[t].target)
  <2>1. ok \in BOOLEAN /\ b \in BOOLEAN BY DEF ActiveUser
  <2>2. /\ At(t, "readStatuses") /\ UNCHANGED spaceVars
        /\ tx' = [tx EXCEPT ![t] = IF ok THEN [Onward(t) EXCEPT !.mustCount = b] ELSE Idle]
    BY <1>4 DEF ReadStatuses
  <2> HIDE DEF ok, b
  <2> QED BY <2>1, <2>2, DecideStep
<1>5. CASE AuthorizeRemoval(t)
  <2> DEFINE ok == /\ tx[t].space \in spaces
                   /\ tx[t].actor # tx[t].target =>
                        member[tx[t].space][tx[t].actor] = Row("ACTIVE", "ADMIN")
  <2>1. ok \in BOOLEAN OBVIOUS
  <2>2. At(t, "authorizeRemoval") /\ Check(t, ok) BY <1>5 DEF AuthorizeRemoval
  <2> HIDE DEF ok
  <2> QED BY <2>1, <2>2, CheckStep
<1>6. CASE ReadMember(t)
  <2> DEFINE ok == member[tx[t].space][tx[t].target].status = "ACTIVE"
             b == /\ tx[t].mustCount
                  /\ member[tx[t].space][tx[t].target].role = "ADMIN"
                  /\ tx[t].role # "ADMIN"
  <2>1. ok \in BOOLEAN /\ b \in BOOLEAN OBVIOUS
  <2>2. /\ At(t, "readMember") /\ UNCHANGED spaceVars
        /\ tx' = [tx EXCEPT ![t] = IF ok THEN [Onward(t) EXCEPT !.mustCount = b] ELSE Idle]
    BY <1>6 DEF ReadMember
  <2> HIDE DEF ok, b
  <2> QED BY <2>1, <2>2, DecideStep
<1>7. CASE CountAdmins(t)
  <2> DEFINE ok == tx[t].mustCount => HasTwoActiveAdmins(tx[t].space)
  <2>1. ok \in BOOLEAN OBVIOUS
  <2>2. At(t, "countAdmins") /\ Check(t, ok) BY <1>7 DEF CountAdmins
  <2> HIDE DEF ok
  <2> QED BY <2>1, <2>2, CheckStep
<1>8. CASE ValidateArchive(t)
  <2> DEFINE ok == ActiveUser(tx[t].target) => ~ WouldLoseAdmin(tx[t].target)
  <2>1. ok \in BOOLEAN OBVIOUS
  <2>2. At(t, "validateArchive") /\ Check(t, ok) BY <1>8 DEF ValidateArchive
  <2> HIDE DEF ok
  <2> QED BY <2>1, <2>2, CheckStep
<1>9. CASE ReadActorStatus(t)
  <2> DEFINE ok == ActiveUser(tx[t].actor)
  <2>1. ok \in BOOLEAN BY DEF ActiveUser
  <2>2. At(t, "readActorStatus") /\ Check(t, ok) BY <1>9 DEF ReadActorStatus
  <2> HIDE DEF ok
  <2> QED BY <2>1, <2>2, CheckStep
<1>10. CASE ReadActorRole(t)
  <2> DEFINE ok == member[tx[t].space][tx[t].actor] = Row("ACTIVE", "ADMIN")
  <2>1. ok \in BOOLEAN OBVIOUS
  <2>2. At(t, "readActorRole") /\ Check(t, ok) BY <1>10 DEF ReadActorRole
  <2> HIDE DEF ok
  <2> QED BY <2>1, <2>2, CheckStep
<1> QED BY <1>1, <1>2, <1>3, <1>4, <1>5, <1>6, <1>7, <1>8, <1>9, <1>10

\* The statements that lock.  The condition is evaluated under the lock, so it
\* holds from here to the write.
LEMMA LockSteps ==
  ASSUME PgInv, NEW t \in Tx, LockActiveUser(t) \/ LockSpace(t) \/ LockUser(t)
  PROVE  PgInv'
<1> DEFINE uRow == <<"user", tx[t].target>>
           sRow == <<"space", tx[t].space>>
<1>1. Running(t) BY DEF LockActiveUser, LockSpace, LockUser, At
<1>2. /\ tx[t] \in TxRow /\ tx[t].todo \in Todo /\ tx[t].todo # <<>> /\ tx[t].target \in User
      /\ tx[t].holds = Locks(tx[t].todo, tx[t].target, tx[t].space)
      /\ Checked(tx[t].todo, tx[t].target, tx[t].space, user, spaces, member)
  BY <1>1, AtFacts DEF Sound
<1>3. /\ uRow \in {"user", "space"} \X (User \cup Space \cup {NoSpace, "none"})
      /\ sRow \in {"user", "space"} \X (User \cup Space \cup {NoSpace, "none"})
  BY <1>2 DEF TxRow
<1>4. CASE LockActiveUser(t)
  <2> DEFINE ok == ActiveUser(tx[t].target)
  <2>1. ok \in BOOLEAN BY DEF ActiveUser
  <2>2. Head(tx[t].todo) = "lockActiveUser" /\ Lock(t, uRow, ok) BY <1>4 DEF LockActiveUser, At
  <2>3. tx[t].todo \in {<<"lockActiveUser", "insertSpace">>, <<"lockActiveUser", "insertInvitation">>,
                       <<"lockActiveUser", "activate">>}
    BY <1>2, <2>2, LockTodo
  <2>4. CASE tx[t].todo = <<"lockActiveUser", "insertSpace">>
    <3>1. Tail(tx[t].todo) = <<"insertSpace">> BY <2>4
    <3>2. Locks(<<"insertSpace">>, tx[t].target, tx[t].space) = tx[t].holds \cup {uRow}
      BY <1>2, <2>4 DEF Locks, UserLocked, SpaceLocked
    <3>3. ok => Checked(<<"insertSpace">>, tx[t].target, tx[t].space, user, spaces, member)
      BY <1>2, <2>4 DEF Checked, CreateSpaceTodo, ActiveUser
    <3>4. Moves(tx[t].todo, <<"insertSpace">>)
      BY <2>4 DEF Moves, Todo, CreateSpaceTodo, RoleTodo, AccountTodo, OtherTodo
    <3> HIDE DEF ok, uRow
    <3> QED BY <1>1, <1>3, <2>1, <2>2, <3>1, <3>2, <3>3, <3>4, LockStep
  <2>5. CASE tx[t].todo = <<"lockActiveUser", "insertInvitation">>
    <3>1. Tail(tx[t].todo) = <<"insertInvitation">> BY <2>5
    <3>2. Locks(<<"insertInvitation">>, tx[t].target, tx[t].space) = tx[t].holds \cup {uRow}
      BY <1>2, <2>5 DEF Locks, UserLocked, SpaceLocked
    <3>3. ok => Checked(<<"insertInvitation">>, tx[t].target, tx[t].space, user, spaces, member)
      BY <1>2, <2>5 DEF Checked, CreateSpaceTodo, ActiveUser
    <3>4. Moves(tx[t].todo, <<"insertInvitation">>)
      BY <2>5 DEF Moves, Todo, CreateSpaceTodo, RoleTodo, AccountTodo, OtherTodo
    <3> HIDE DEF ok, uRow
    <3> QED BY <1>1, <1>3, <2>1, <2>2, <3>1, <3>2, <3>3, <3>4, LockStep
  <2>6. CASE tx[t].todo = <<"lockActiveUser", "activate">>
    <3>1. Tail(tx[t].todo) = <<"activate">> BY <2>6
    <3>2. Locks(<<"activate">>, tx[t].target, tx[t].space) = tx[t].holds \cup {uRow}
      BY <1>2, <2>6 DEF Locks, UserLocked, SpaceLocked
    <3>3. ok => Checked(<<"activate">>, tx[t].target, tx[t].space, user, spaces, member)
      BY <1>2, <2>6 DEF Checked, CreateSpaceTodo, ActiveUser
    <3>4. Moves(tx[t].todo, <<"activate">>)
      BY <2>6 DEF Moves, Todo, CreateSpaceTodo, RoleTodo, AccountTodo, OtherTodo
    <3> HIDE DEF ok, uRow
    <3> QED BY <1>1, <1>3, <2>1, <2>2, <3>1, <3>2, <3>3, <3>4, LockStep
  <2> QED BY <2>3, <2>4, <2>5, <2>6
<1>5. CASE LockSpace(t)
  <2> DEFINE ok == tx[t].space \in spaces
  <2>1. ok \in BOOLEAN OBVIOUS
  <2>2. Head(tx[t].todo) = "lockSpace" /\ Lock(t, sRow, ok) BY <1>5 DEF LockSpace, At
  <2>3. tx[t].todo \in {<<"lockSpace", "lockActiveUser", "insertInvitation">>,
                       <<"lockSpace", "readActorRole", "deleteSpace">>}
    BY <1>2, <2>2, LockTodo
  <2>4. CASE tx[t].todo = <<"lockSpace", "lockActiveUser", "insertInvitation">>
    <3>1. Tail(tx[t].todo) = <<"lockActiveUser", "insertInvitation">> BY <2>4
    <3>2. Locks(<<"lockActiveUser", "insertInvitation">>, tx[t].target, tx[t].space) = tx[t].holds \cup {sRow}
      BY <1>2, <2>4 DEF Locks, UserLocked, SpaceLocked
    <3>3. ok => Checked(<<"lockActiveUser", "insertInvitation">>, tx[t].target, tx[t].space, user, spaces, member)
      BY <1>2, <2>4 DEF Checked, CreateSpaceTodo
    <3>4. Moves(tx[t].todo, <<"lockActiveUser", "insertInvitation">>)
      BY <2>4 DEF Moves, Todo, CreateSpaceTodo, RoleTodo, AccountTodo, OtherTodo
    <3> HIDE DEF ok, sRow
    <3> QED BY <1>1, <1>3, <2>1, <2>2, <3>1, <3>2, <3>3, <3>4, LockStep
  <2>5. CASE tx[t].todo = <<"lockSpace", "readActorRole", "deleteSpace">>
    <3>1. Tail(tx[t].todo) = <<"readActorRole", "deleteSpace">> BY <2>5
    <3>2. Locks(<<"readActorRole", "deleteSpace">>, tx[t].target, tx[t].space) = tx[t].holds \cup {sRow}
      BY <1>2, <2>5 DEF Locks, UserLocked, SpaceLocked
    <3>3. ok => Checked(<<"readActorRole", "deleteSpace">>, tx[t].target, tx[t].space, user, spaces, member)
      BY <1>2, <2>5 DEF Checked, CreateSpaceTodo
    <3>4. Moves(tx[t].todo, <<"readActorRole", "deleteSpace">>)
      BY <2>5 DEF Moves, Todo, CreateSpaceTodo, RoleTodo, AccountTodo, OtherTodo
    <3> HIDE DEF ok, sRow
    <3> QED BY <1>1, <1>3, <2>1, <2>2, <3>1, <3>2, <3>3, <3>4, LockStep
  <2> QED BY <2>3, <2>4, <2>5
<1>6. CASE LockUser(t)
  <2> DEFINE ok == user[tx[t].target] # "absent"
  <2>1. ok \in BOOLEAN OBVIOUS
  <2>2. Head(tx[t].todo) = "lockUser" /\ Lock(t, uRow, ok) BY <1>6 DEF LockUser, At
  <2>3. tx[t].todo = <<"lockUser", "countMemberships", "deleteUser">> BY <1>2, <2>2, LockTodo
  <2>4. CASE tx[t].todo = <<"lockUser", "countMemberships", "deleteUser">>
    <3>1. Tail(tx[t].todo) = <<"countMemberships", "deleteUser">> BY <2>4
    <3>2. Locks(<<"countMemberships", "deleteUser">>, tx[t].target, tx[t].space) = tx[t].holds \cup {uRow}
      BY <1>2, <2>4 DEF Locks, UserLocked, SpaceLocked
    <3>3. ok => Checked(<<"countMemberships", "deleteUser">>, tx[t].target, tx[t].space, user, spaces, member)
      BY <1>2, <2>4 DEF Checked, CreateSpaceTodo
    <3>4. Moves(tx[t].todo, <<"countMemberships", "deleteUser">>)
      BY <2>4 DEF Moves, Todo, CreateSpaceTodo, RoleTodo, AccountTodo, OtherTodo
    <3> HIDE DEF ok, uRow
    <3> QED BY <1>1, <1>3, <2>1, <2>2, <3>1, <3>2, <3>3, <3>4, LockStep
  <2> QED BY <2>3, <2>4
<1> QED BY <1>4, <1>5, <1>6

-----------------------------------------------------------------------------
(* A transaction begins.                                                   *)

LEMMA BeginStep ==
  ASSUME PgInv, NEW t \in Tx, NEW td \in Todo, NEW a \in User, NEW s \in Space \cup {NoSpace},
         NEW u \in User, NEW r \in Role \cup {"none"}, Begin(t, td, a, s, u, r),
         td \notin UserLocked \cup SpaceLocked \cup {<<>>},
         td \notin AccountTodo => s \in Space,
         td \in RoleTodo => r \in Role,
         td \in CreateSpaceTodo => s \notin spaces /\ Unmentioned(s)
  PROVE  PgInv'
<1> DEFINE q == [Idle EXCEPT !.todo = td, !.actor = a, !.space = s, !.target = u, !.role = r]
<1>1. tx' = [tx EXCEPT ![t] = q] /\ UNCHANGED spaceVars BY DEF Begin
<1>2. /\ q.todo = td /\ q.actor = a /\ q.space = s /\ q.target = u /\ q.role = r /\ q.holds = {}
  BY DEF Idle
<1>3. q \in TxRow BY IdleSound DEF TxRow
<1> HIDE DEF q
<1>4. Arguments(q) BY <1>2 DEF Arguments
<1>5. q.holds = Locks(q.todo, q.target, q.space) BY <1>2 DEF Locks
<1>6. Checked(q.todo, q.target, q.space, user, spaces, member)
  BY <1>2 DEF Checked, UserLocked, SpaceLocked
<1>7. \A o \in Tx : o # t => Apart(q, tx[o]) BY <1>2 DEF Apart, Unmentioned
<1> QED BY <1>1, <1>3, <1>4, <1>5, <1>6, <1>7, Replace DEF Sound

LEMMA BeginSteps ==
  ASSUME PgInv, NEW t \in Tx, NEW u \in User,
         \/ BeginUserTx(t, u)
         \/ \E s \in Space : BeginSpaceTx(t, s, u) \/ BeginInvitationTx(t, s, u) \/ BeginMembershipTx(t, s, u)
  PROVE  PgInv'
<1> USE DEF Todo, CreateSpaceTodo, AccountTodo, RoleTodo, OtherTodo, UserLocked, SpaceLocked
<1>1. CASE BeginUserTx(t, u)
  <2>1. ASSUME Begin(t, ArchiveUserTx, u, NoSpace, u, "none") PROVE PgInv'
    <3>1. /\ ArchiveUserTx \in AccountTodo /\ ArchiveUserTx \in Todo
          /\ ArchiveUserTx \notin UserLocked \cup SpaceLocked \cup {<<>>} \cup RoleTodo \cup CreateSpaceTodo
      BY DEF ArchiveUserTx
    <3> QED BY <2>1, <3>1, BeginStep
  <2>2. ASSUME Begin(t, DeleteUserTx, u, NoSpace, u, "none") PROVE PgInv'
    <3>1. /\ DeleteUserTx \in AccountTodo /\ DeleteUserTx \in Todo
          /\ DeleteUserTx \notin UserLocked \cup SpaceLocked \cup {<<>>} \cup RoleTodo \cup CreateSpaceTodo
      BY DEF DeleteUserTx
    <3> QED BY <2>2, <3>1, BeginStep
  <2> QED BY <1>1, <2>1, <2>2 DEF BeginUserTx
<1>2. ASSUME NEW s \in Space, BeginSpaceTx(t, s, u) PROVE PgInv'
  <2>1. ASSUME s \notin spaces, Unmentioned(s), Begin(t, CreateSpaceTx, u, s, u, "none") PROVE PgInv'
    <3>1. CreateSpaceTx \in Todo /\ CreateSpaceTx \notin UserLocked \cup SpaceLocked \cup {<<>>} \cup RoleTodo
      BY DEF CreateSpaceTx
    <3> QED BY <2>1, <3>1, BeginStep
  <2>2. ASSUME Begin(t, DeleteSpaceTx, u, s, u, "none") PROVE PgInv'
    <3>1. /\ DeleteSpaceTx \in Todo
          /\ DeleteSpaceTx \notin UserLocked \cup SpaceLocked \cup {<<>>} \cup RoleTodo \cup CreateSpaceTodo
      BY DEF DeleteSpaceTx
    <3> QED BY <2>2, <3>1, BeginStep
  <2> QED BY <1>2, <2>1, <2>2 DEF BeginSpaceTx
<1>3. ASSUME NEW s \in Space, BeginInvitationTx(t, s, u) PROVE PgInv'
  <2>1. ASSUME NEW a \in User, NEW r \in Role, Begin(t, CreateSpaceInvitationTx, a, s, u, r) PROVE PgInv'
    <3>1. /\ CreateSpaceInvitationTx \in Todo
          /\ CreateSpaceInvitationTx \notin UserLocked \cup SpaceLocked \cup {<<>>} \cup CreateSpaceTodo
      BY DEF CreateSpaceInvitationTx
    <3> QED BY <2>1, <3>1, BeginStep
  <2>2. ASSUME Begin(t, AcceptSpaceInvitationTx, u, s, u, "none") PROVE PgInv'
    <3>1. /\ AcceptSpaceInvitationTx \in Todo
          /\ AcceptSpaceInvitationTx \notin UserLocked \cup SpaceLocked \cup {<<>>} \cup RoleTodo \cup CreateSpaceTodo
      BY DEF AcceptSpaceInvitationTx
    <3> QED BY <2>2, <3>1, BeginStep
  <2>3. ASSUME Begin(t, DeclineSpaceInvitationTx, u, s, u, "none") PROVE PgInv'
    <3>1. /\ DeclineSpaceInvitationTx \in Todo
          /\ DeclineSpaceInvitationTx \notin UserLocked \cup SpaceLocked \cup {<<>>} \cup RoleTodo \cup CreateSpaceTodo
      BY DEF DeclineSpaceInvitationTx
    <3> QED BY <2>3, <3>1, BeginStep
  <2>4. ASSUME NEW a \in User, Begin(t, RevokeSpaceInvitationTx, a, s, u, "none") PROVE PgInv'
    <3>1. /\ RevokeSpaceInvitationTx \in Todo
          /\ RevokeSpaceInvitationTx \notin UserLocked \cup SpaceLocked \cup {<<>>} \cup RoleTodo \cup CreateSpaceTodo
      BY DEF RevokeSpaceInvitationTx
    <3> QED BY <2>4, <3>1, BeginStep
  <2> QED BY <1>3, <2>1, <2>2, <2>3, <2>4 DEF BeginInvitationTx
<1>4. ASSUME NEW s \in Space, BeginMembershipTx(t, s, u) PROVE PgInv'
  <2>1. ASSUME NEW a \in User, NEW r \in Role, Begin(t, UpdateSpaceMemberTx, a, s, u, r) PROVE PgInv'
    <3>1. /\ UpdateSpaceMemberTx \in Todo
          /\ UpdateSpaceMemberTx \notin UserLocked \cup SpaceLocked \cup {<<>>} \cup CreateSpaceTodo
      BY DEF UpdateSpaceMemberTx
    <3> QED BY <2>1, <3>1, BeginStep
  <2>2. ASSUME NEW a \in User, Begin(t, DeleteSpaceMemberTx, a, s, u, "none") PROVE PgInv'
    <3>1. /\ DeleteSpaceMemberTx \in Todo
          /\ DeleteSpaceMemberTx \notin UserLocked \cup SpaceLocked \cup {<<>>} \cup RoleTodo \cup CreateSpaceTodo
      BY DEF DeleteSpaceMemberTx
    <3> QED BY <2>2, <3>1, BeginStep
  <2> QED BY <1>4, <2>1, <2>2 DEF BeginMembershipTx
<1> QED BY <1>1, <1>2, <1>3, <1>4

-----------------------------------------------------------------------------
(* The tables change: the life cycle.                                      *)

\* A step of the life cycle keeps the rows typed and without orphans.
LEMMA LifecycleKeeps ==
  ASSUME SpaceTypeOK, NoOrphanMember, Lifecycle!Next
  PROVE  SpaceTypeOK' /\ NoOrphanMember'
<1> USE DEF SpaceTypeOK, NoOrphanMember, RowStatus, MemberRow, NoRow, Role, Lifecycle!None, Lifecycle!Roles,
        Lifecycle!Invited, Lifecycle!Active
<1>1. ASSUME NEW u \in User, Lifecycle!Register(u) \/ Lifecycle!SetStatus(u) PROVE SpaceTypeOK' /\ NoOrphanMember'
  BY <1>1 DEF Lifecycle!Register, Lifecycle!SetStatus
<1>2. ASSUME NEW u \in User, Lifecycle!Erase(u) PROVE SpaceTypeOK' /\ NoOrphanMember'
  BY <1>2 DEF Lifecycle!Erase
<1>3. ASSUME NEW s \in Space, Lifecycle!Dissolve(s) PROVE SpaceTypeOK' /\ NoOrphanMember'
  BY <1>3 DEF Lifecycle!Dissolve
<1>4. ASSUME NEW s \in Space, NEW u \in User, Lifecycle!Found(s, u) PROVE SpaceTypeOK' /\ NoOrphanMember'
  BY <1>4 DEF Lifecycle!Found
<1>5. ASSUME NEW s \in Space, NEW u \in User, Lifecycle!Invite(s, u) PROVE SpaceTypeOK' /\ NoOrphanMember'
  BY <1>5 DEF Lifecycle!Invite
<1>6. ASSUME NEW s \in Space, NEW u \in User, Lifecycle!Join(s, u) PROVE SpaceTypeOK' /\ NoOrphanMember'
  BY <1>6 DEF Lifecycle!Join
<1>7. ASSUME NEW s \in Space, NEW u \in User, Lifecycle!ChangeRole(s, u) PROVE SpaceTypeOK' /\ NoOrphanMember'
  BY <1>7 DEF Lifecycle!ChangeRole
<1>8. ASSUME NEW s \in Space, NEW u \in User, Lifecycle!Part(s, u) PROVE SpaceTypeOK' /\ NoOrphanMember'
  BY <1>8 DEF Lifecycle!Part
<1> QED BY <1>1, <1>2, <1>3, <1>4, <1>5, <1>6, <1>7, <1>8 DEF Lifecycle!Next

\* What a transaction has checked outlives a step that leaves alone the rows it
\* has locked, and does not create the Space it creates.
LEMMA StaysChecked ==
  ASSUME PgInv, NEW o \in Tx,
         \A u \in User : <<"user", u>> \in tx[o].holds =>
           /\ user'[u] = user[u]
           /\ \A s \in Space : member'[s][u].status = "ACTIVE" => member[s][u].status = "ACTIVE",
         \A s \in Space : <<"space", s>> \in tx[o].holds /\ s \in spaces => s \in spaces',
         tx[o].todo \in CreateSpaceTodo => tx[o].space \notin spaces'
  PROVE  Checked(tx[o].todo, tx[o].target, tx[o].space, user', spaces', member')
<1> DEFINE td == tx[o].todo
           u == tx[o].target
           s == tx[o].space
<1>1. /\ td \in UserLocked => u \in User /\ <<"user", u>> \in tx[o].holds
      /\ td \in SpaceLocked => s \in Space /\ <<"space", s>> \in tx[o].holds
  BY DEF PgInv, TxInv, Sound, Arguments, Locks, UserLocked, SpaceLocked, AccountTodo
<1>2. Checked(td, u, s, user, spaces, member) BY DEF PgInv, TxInv, Sound
<1>3. /\ td \in {<<"lockActiveUser", "insertInvitation">>, <<"insertInvitation">>} => td \in SpaceLocked
      /\ td \in {<<"insertSpace">>, <<"insertInvitation">>, <<"activate">>} => td \in UserLocked
      /\ td \in {<<"countMemberships", "deleteUser">>, <<"deleteUser">>} => td \in UserLocked
  BY DEF UserLocked, SpaceLocked
<1> HIDE DEF td, u, s
<1>4. td \in CreateSpaceTodo => s \notin spaces' BY DEF td, s
<1>5. td \in UserLocked =>
        user'[u] = user[u] /\ \A x \in Space : member'[x][u].status = "ACTIVE" => member[x][u].status = "ACTIVE"
  BY <1>1
<1>6. td \in SpaceLocked /\ s \in spaces => s \in spaces' BY <1>1
<1>7. td = <<"deleteUser">> => \A x \in Space : member'[x][u].status # "ACTIVE"
  BY <1>2, <1>3, <1>5 DEF Checked
<1>8. Checked(td, u, s, user', spaces', member')
  BY <1>2, <1>3, <1>4, <1>5, <1>6, <1>7 DEF Checked
<1> QED BY <1>8 DEF td, u, s

\* The invariant after a transaction's last step.
LEMMA Finish ==
  ASSUME PgInv, NEW t \in Tx, End(t), Lifecycle!Next \/ UNCHANGED spaceVars,
         \A o \in Tx : o # t => Checked(tx[o].todo, tx[o].target, tx[o].space, user', spaces', member')
  PROVE  PgInv'
<1>1. SpaceTypeOK' /\ NoOrphanMember'
  BY LifecycleKeeps DEF PgInv, SpaceTypeOK, NoOrphanMember, spaceVars
<1>2. /\ tx \in [Tx -> TxRow] /\ tx' \in [Tx -> TxRow]
      /\ \A o \in Tx : tx'[o] = IF o = t THEN Idle ELSE tx[o]
  BY IdleSound DEF PgInv, TxInv, End
<1>3. \A o \in Tx : Sound(user', spaces', member', tx'[o])
  <2> SUFFICES ASSUME NEW o \in Tx PROVE Sound(user', spaces', member', tx'[o]) OBVIOUS
  <2>1. CASE o = t
    <3>1. Sound(user', spaces', member', Idle)
      BY DEF Sound, Arguments, Locks, Checked, Idle, CreateSpaceTodo, AccountTodo, RoleTodo, UserLocked, SpaceLocked
    <3> QED BY <1>2, <2>1, <3>1
  <2>2. CASE o # t
    <3>1. Arguments(tx[o]) /\ tx[o].holds = Locks(tx[o].todo, tx[o].target, tx[o].space)
      BY DEF PgInv, TxInv, Sound
    <3>2. tx'[o] = tx[o] BY <1>2, <2>2
    <3> QED BY <2>2, <3>1, <3>2 DEF Sound
  <2> QED BY <2>1, <2>2
<1>4. \A o, r \in Tx : o # r => Apart(tx'[o], tx'[r]) BY <1>2, IdleSound DEF PgInv, TxInv
<1> QED BY <1>1, <1>2, <1>3, <1>4 DEF PgInv, TxInv

-----------------------------------------------------------------------------
(* The last writes, each a step of the life cycle or a rollback.           *)

\* A transaction about to write, and the rows it has locked.
LEMMA AtWrite ==
  ASSUME PgInv, NEW t \in Tx,
         NEW stmt \in {"insertSpace", "insertInvitation", "activate", "deleteInvited", "updateRole",
                       "deleteActive", "archive", "deleteSpace", "deleteUser"},
         At(t, stmt)
  PROVE  /\ tx[t].todo = <<stmt>> /\ tx[t].target \in User
         /\ stmt \notin {"archive", "deleteUser"} => tx[t].space \in Space
         /\ stmt \in {"insertInvitation", "updateRole"} => tx[t].role \in Role
         /\ Checked(<<stmt>>, tx[t].target, tx[t].space, user, spaces, member)
         /\ \A o \in Tx : o # t =>
              /\ <<stmt>> \in UserLocked => <<"user", tx[t].target>> \notin tx[o].holds
              /\ <<stmt>> \in SpaceLocked => <<"space", tx[t].space>> \notin tx[o].holds
              /\ <<stmt>> \in CreateSpaceTodo /\ tx[o].todo \in CreateSpaceTodo => tx[t].space # tx[o].space
<1>1. Running(t) /\ Head(tx[t].todo) = stmt BY DEF At
<1>2. /\ tx[t].todo \in Todo /\ tx[t].todo # <<>> /\ tx[t].target \in User
      /\ Sound(user, spaces, member, tx[t])
  BY <1>1, AtFacts
<1>3. tx[t].todo = <<stmt>> BY <1>1, <1>2, WriteTodo
<1>4. stmt \notin {"archive", "deleteUser"} => <<stmt>> \notin AccountTodo \cup {<<>>}
  BY DEF AccountTodo
<1>5. stmt \in {"insertInvitation", "updateRole"} => <<stmt>> \in RoleTodo BY DEF RoleTodo
<1>6. /\ stmt \notin {"archive", "deleteUser"} => tx[t].space \in Space
      /\ stmt \in {"insertInvitation", "updateRole"} => tx[t].role \in Role
  BY <1>2, <1>3, <1>4, <1>5 DEF Sound, Arguments
<1>7. /\ <<stmt>> \in UserLocked => <<"user", tx[t].target>> \in tx[t].holds
      /\ <<stmt>> \in SpaceLocked => <<"space", tx[t].space>> \in tx[t].holds
  BY <1>2, <1>3 DEF Sound, Locks
<1>8. \A o \in Tx : o # t => Apart(tx[t], tx[o]) BY DEF PgInv, TxInv
<1> QED BY <1>2, <1>3, <1>6, <1>7, <1>8 DEF Apart, Sound

LEMMA InsertSpaceStep ==
  ASSUME PgInv, NEW t \in Tx, InsertSpace(t)
  PROVE  PgInv' /\ (Lifecycle!Next \/ UNCHANGED spaceVars)
<1> DEFINE s == tx[t].space
           u == tx[t].target
<1>1. /\ At(t, "insertSpace") /\ End(t) /\ user' = user /\ spaces' = spaces \cup {s}
      /\ member' = [member EXCEPT ![s][u] = Row("ACTIVE", "ADMIN")]
  BY DEF InsertSpace, Commit, SetRow
<1>2. s \in Space /\ u \in User /\ s \notin spaces /\ user[u] = "NORMAL"
  BY <1>1, AtWrite DEF Checked, CreateSpaceTodo
<1>3. \A o \in Tx : o # t =>
        /\ <<"user", u>> \notin tx[o].holds
        /\ tx[o].todo \in CreateSpaceTodo => tx[o].space # s
  BY <1>1, AtWrite DEF UserLocked, CreateSpaceTodo
<1> HIDE DEF s, u
<1>4. Lifecycle!Next
  <2>1. Lifecycle!Found(s, u) BY <1>1, <1>2 DEF Lifecycle!Found, Lifecycle!Active, Row
  <2> QED BY <1>2, <2>1 DEF Lifecycle!Next
<1>5. ASSUME NEW o \in Tx, o # t
      PROVE  Checked(tx[o].todo, tx[o].target, tx[o].space, user', spaces', member')
  <2>1. \A v \in User : <<"user", v>> \in tx[o].holds => v # u BY <1>3, <1>5
  <2>2. \A x \in Space, v \in User : v # u => member'[x][v] = member[x][v]
    BY <1>1, <1>2 DEF PgInv, SpaceTypeOK
  <2>3. tx[o].todo \in CreateSpaceTodo => tx[o].space \notin spaces'
    BY <1>1, <1>3, <1>5 DEF PgInv, TxInv, Sound, Checked
  <2> QED BY <1>1, <2>1, <2>2, <2>3, StaysChecked
<1> QED BY <1>1, <1>4, <1>5, Finish

\* Writing one membership row: the others lose nothing they have checked, unless
\* the row becomes active behind the back of a transaction that has locked its user.
LEMMA RowWrite ==
  ASSUME PgInv, NEW t \in Tx, NEW s \in Space, NEW u \in User, NEW row,
         UNCHANGED <<user, spaces>>, member' = [member EXCEPT ![s][u] = row],
         row.status = "ACTIVE" =>
           \/ member[s][u].status = "ACTIVE"
           \/ \A o \in Tx : o # t => <<"user", u>> \notin tx[o].holds
  PROVE  \A o \in Tx : o # t => Checked(tx[o].todo, tx[o].target, tx[o].space, user', spaces', member')
<1> SUFFICES ASSUME NEW o \in Tx, o # t
             PROVE  Checked(tx[o].todo, tx[o].target, tx[o].space, user', spaces', member')
  OBVIOUS
<1>1. \A x \in Space, v \in User : member'[x][v] = IF x = s /\ v = u THEN row ELSE member[x][v]
  BY DEF PgInv, SpaceTypeOK
<1>2. ASSUME NEW v \in User, <<"user", v>> \in tx[o].holds, NEW x \in Space, member'[x][v].status = "ACTIVE"
      PROVE  member[x][v].status = "ACTIVE"
  BY <1>1, <1>2
<1>3. tx[o].todo \in CreateSpaceTodo => tx[o].space \notin spaces'
  BY DEF PgInv, TxInv, Sound, Checked
<1> QED BY <1>2, <1>3, StaysChecked

LEMMA Unwritten ==
  ASSUME PgInv, NEW t \in Tx, End(t), UNCHANGED spaceVars
  PROVE  PgInv'
BY Rollback DEF End

LEMMA InsertInvitationStep ==
  ASSUME PgInv, NEW t \in Tx, InsertInvitation(t)
  PROVE  PgInv' /\ (Lifecycle!Next \/ UNCHANGED spaceVars)
<1> DEFINE s == tx[t].space
           u == tx[t].target
           row == Row("INVITED", tx[t].role)
<1>1. /\ At(t, "insertInvitation") /\ End(t) /\ UNCHANGED <<user, spaces>>
      /\ member' = IF member[s][u] = NoRow THEN [member EXCEPT ![s][u] = row] ELSE member
  BY DEF InsertInvitation, Commit, SetRow, TargetRow
<1>2. s \in Space /\ u \in User /\ s \in spaces /\ user[u] = "NORMAL" /\ tx[t].role \in Role
  BY <1>1, AtWrite DEF Checked
<1>3. CASE member[s][u] = NoRow
  <2>1. Lifecycle!Next
    <3>1. Lifecycle!Invite(s, u)
      BY <1>1, <1>2, <1>3 DEF Lifecycle!Invite, Lifecycle!Invited, Lifecycle!Roles, Lifecycle!None, Row, NoRow, Role
    <3> QED BY <1>2, <3>1 DEF Lifecycle!Next
  <2>2. row.status # "ACTIVE" BY DEF Row
  <2> HIDE DEF row, s, u
  <2> QED BY <1>1, <1>2, <1>3, <2>1, <2>2, RowWrite, Finish
<1>4. CASE member[s][u] # NoRow BY <1>1, <1>4, Unwritten DEF spaceVars
<1> QED BY <1>3, <1>4

LEMMA ActivateStep ==
  ASSUME PgInv, NEW t \in Tx, Activate(t)
  PROVE  PgInv' /\ (Lifecycle!Next \/ UNCHANGED spaceVars)
<1> DEFINE s == tx[t].space
           u == tx[t].target
           row == Row("ACTIVE", member[s][u].role)
<1>1. /\ At(t, "activate") /\ End(t) /\ UNCHANGED <<user, spaces>>
      /\ member' = IF member[s][u].status = "INVITED" THEN [member EXCEPT ![s][u] = row] ELSE member
  BY DEF Activate, Commit, SetRow, TargetRow
<1>2. s \in Space /\ u \in User /\ user[u] = "NORMAL" BY <1>1, AtWrite DEF Checked
<1>3. \A o \in Tx : o # t => <<"user", u>> \notin tx[o].holds BY <1>1, AtWrite DEF UserLocked
<1>4. CASE member[s][u].status = "INVITED"
  <2>1. Lifecycle!Next
    <3>1. member[s][u].role \in Role /\ member[s][u] = Row("INVITED", member[s][u].role)
      BY <1>2, <1>4 DEF PgInv, SpaceTypeOK, MemberRow, NoRow, Row
    <3>2. Lifecycle!Join(s, u)
      BY <1>1, <1>2, <1>4, <3>1 DEF Lifecycle!Join, Lifecycle!Invited, Lifecycle!Active, Lifecycle!Roles, Row, Role
    <3> QED BY <1>2, <3>2 DEF Lifecycle!Next
  <2> HIDE DEF row, s, u
  <2> QED BY <1>1, <1>2, <1>3, <1>4, <2>1, RowWrite, Finish
<1>5. CASE member[s][u].status # "INVITED" BY <1>1, <1>5, Unwritten DEF spaceVars
<1> QED BY <1>4, <1>5

LEMMA RemoveStep ==
  ASSUME PgInv, NEW t \in Tx, DeleteInvited(t) \/ DeleteActive(t)
  PROVE  PgInv' /\ (Lifecycle!Next \/ UNCHANGED spaceVars)
<1> DEFINE s == tx[t].space
           u == tx[t].target
<1>1. PICK st \in {"INVITED", "ACTIVE"} :
        /\ At(t, "deleteInvited") \/ At(t, "deleteActive")
        /\ End(t) /\ UNCHANGED <<user, spaces>>
        /\ member' = IF member[s][u].status = st THEN [member EXCEPT ![s][u] = NoRow] ELSE member
  BY DEF DeleteInvited, DeleteActive, Commit, SetRow, TargetRow
<1>2. s \in Space /\ u \in User BY <1>1, AtWrite
<1>3. CASE member[s][u].status = st
  <2>1. NoRow.status = "none" BY DEF NoRow
  <2>2. Lifecycle!Next
    <3>1. Lifecycle!Part(s, u)
      BY <1>1, <1>3 DEF Lifecycle!Part, Lifecycle!None, NoRow
    <3> QED BY <1>2, <3>1 DEF Lifecycle!Next
  <2> HIDE DEF s, u
  <2> QED BY <1>1, <1>2, <1>3, <2>1, <2>2, RowWrite, Finish
<1>4. CASE member[s][u].status # st BY <1>1, <1>4, Unwritten DEF spaceVars
<1> QED BY <1>3, <1>4

LEMMA UpdateRoleStep ==
  ASSUME PgInv, NEW t \in Tx, UpdateRole(t)
  PROVE  PgInv' /\ (Lifecycle!Next \/ UNCHANGED spaceVars)
<1> DEFINE s == tx[t].space
           u == tx[t].target
           row == Row("ACTIVE", tx[t].role)
<1>1. /\ At(t, "updateRole") /\ End(t) /\ UNCHANGED <<user, spaces>>
      /\ member' = IF member[s][u].status = "ACTIVE" THEN [member EXCEPT ![s][u] = row] ELSE member
  BY DEF UpdateRole, Commit, SetRow, TargetRow
<1>2. s \in Space /\ u \in User /\ tx[t].role \in Role BY <1>1, AtWrite
<1>3. CASE member[s][u].status = "ACTIVE"
  <2>1. Lifecycle!Next
    <3>1. Lifecycle!ChangeRole(s, u)
      BY <1>1, <1>2, <1>3 DEF Lifecycle!ChangeRole, Lifecycle!Active, Lifecycle!Roles, Row, Role
    <3> QED BY <1>2, <3>1 DEF Lifecycle!Next
  <2> HIDE DEF row, s, u
  <2> QED BY <1>1, <1>2, <1>3, <2>1, RowWrite, Finish
<1>4. CASE member[s][u].status # "ACTIVE" BY <1>1, <1>4, Unwritten DEF spaceVars
<1> QED BY <1>3, <1>4

\* The status of a user changes only while nobody else has its row locked.
LEMMA StatusWrite ==
  ASSUME PgInv, NEW o \in Tx, NEW u \in User, <<"user", u>> \notin tx[o].holds, NEW st,
         user' = [user EXCEPT ![u] = st], UNCHANGED <<spaces, member>>
  PROVE  Checked(tx[o].todo, tx[o].target, tx[o].space, user', spaces', member')
<1>1. \A v \in User : <<"user", v>> \in tx[o].holds => user'[v] = user[v]
  BY DEF PgInv, SpaceTypeOK
<1>2. tx[o].todo \in CreateSpaceTodo => tx[o].space \notin spaces' BY DEF PgInv, TxInv, Sound, Checked
<1> QED BY <1>1, <1>2, StaysChecked

LEMMA ArchiveStep ==
  ASSUME PgInv, NEW t \in Tx, Archive(t)
  PROVE  PgInv' /\ (Lifecycle!Next \/ UNCHANGED spaceVars)
<1> DEFINE u == tx[t].target
<1>1. /\ At(t, "archive") /\ End(t) /\ UNCHANGED <<spaces, member>>
      /\ user' = IF user[u] # "absent" THEN [user EXCEPT ![u] = "ARCHIVED"] ELSE user
      /\ \A o \in Tx : o # t => <<"user", u>> \notin tx[o].holds
  BY DEF Archive, Commit, HeldByOther, Locked
<1>2. u \in User BY <1>1, AtWrite
<1> HIDE DEF u
<1>3. CASE user[u] # "absent"
  <2>1. Lifecycle!Next
    <3>1. Lifecycle!SetStatus(u) BY <1>1, <1>3 DEF Lifecycle!SetStatus
    <3> QED BY <1>2, <3>1 DEF Lifecycle!Next
  <2>2. \A o \in Tx : o # t => Checked(tx[o].todo, tx[o].target, tx[o].space, user', spaces', member')
    BY <1>1, <1>2, <1>3, StatusWrite
  <2> QED BY <1>1, <2>1, <2>2, Finish
<1>4. CASE user[u] = "absent" BY <1>1, <1>4, Unwritten DEF spaceVars
<1> QED BY <1>3, <1>4

LEMMA DeleteSpaceStep ==
  ASSUME PgInv, NEW t \in Tx, DeleteSpaceRows(t)
  PROVE  PgInv' /\ (Lifecycle!Next \/ UNCHANGED spaceVars)
<1> DEFINE s == tx[t].space
<1>1. /\ At(t, "deleteSpace") /\ End(t) /\ user' = user
      /\ spaces' = IF s \in spaces THEN spaces \ {s} ELSE spaces
      /\ member' = IF s \in spaces THEN [member EXCEPT ![s] = [u \in User |-> NoRow]] ELSE member
  BY DEF DeleteSpaceRows, Commit
<1>2. s \in Space BY <1>1, AtWrite
<1>3. \A o \in Tx : o # t => <<"space", s>> \notin tx[o].holds BY <1>1, AtWrite DEF SpaceLocked
<1> HIDE DEF s
<1>4. CASE s \in spaces
  <2>1. Lifecycle!Next
    <3>1. Lifecycle!Dissolve(s) BY <1>1, <1>4 DEF Lifecycle!Dissolve, Lifecycle!None, NoRow
    <3> QED BY <1>2, <3>1 DEF Lifecycle!Next
  <2>2. ASSUME NEW o \in Tx, o # t
        PROVE  Checked(tx[o].todo, tx[o].target, tx[o].space, user', spaces', member')
    <3>1. NoRow.status = "none" BY DEF NoRow
    <3>2. \A x \in Space, v \in User : member'[x][v] = IF x = s THEN NoRow ELSE member[x][v]
      BY <1>1, <1>4 DEF PgInv, SpaceTypeOK
    <3>3. \A x \in Space, v \in User : member'[x][v].status = "ACTIVE" => member[x][v].status = "ACTIVE"
      BY <3>1, <3>2
    <3>4. \A x \in Space : <<"space", x>> \in tx[o].holds /\ x \in spaces => x \in spaces'
      BY <1>1, <1>3, <1>4, <2>2
    <3>5. tx[o].todo \in CreateSpaceTodo => tx[o].space \notin spaces'
      BY <1>1 DEF PgInv, TxInv, Sound, Checked
    <3> QED BY <1>1, <3>3, <3>4, <3>5, StaysChecked
  <2> QED BY <1>1, <2>1, <2>2, Finish
<1>5. CASE s \notin spaces BY <1>1, <1>5, Unwritten DEF spaceVars
<1> QED BY <1>4, <1>5

LEMMA DeleteUserStep ==
  ASSUME PgInv, NEW t \in Tx, DeleteUserRows(t)
  PROVE  PgInv' /\ (Lifecycle!Next \/ UNCHANGED spaceVars)
<1> DEFINE u == tx[t].target
<1>1. /\ At(t, "deleteUser") /\ End(t) /\ spaces' = spaces /\ user' = [user EXCEPT ![u] = "absent"]
      /\ member' = [s \in Space |-> [member[s] EXCEPT ![u] =
                                      IF member[s][u].status = "INVITED" THEN NoRow ELSE member[s][u]]]
  BY DEF DeleteUserRows, Commit
<1>2. u \in User /\ user[u] # "absent" /\ \A s \in Space : member[s][u].status # "ACTIVE"
  BY <1>1, AtWrite DEF Checked
<1>3. \A o \in Tx : o # t => <<"user", u>> \notin tx[o].holds BY <1>1, AtWrite DEF UserLocked
<1> HIDE DEF u
<1>4. \A s \in Space : (IF member[s][u].status = "INVITED" THEN NoRow ELSE member[s][u]) = NoRow
  BY <1>2 DEF PgInv, SpaceTypeOK, MemberRow
<1>5. member' = [s \in Space |-> [member[s] EXCEPT ![u] = NoRow]] BY <1>1, <1>4
<1>6. Lifecycle!Next
  <2>1. Lifecycle!Erase(u) BY <1>1, <1>2, <1>5 DEF Lifecycle!Erase, Lifecycle!None, NoRow
  <2> QED BY <1>2, <2>1 DEF Lifecycle!Next
<1>7. ASSUME NEW o \in Tx, o # t
      PROVE  Checked(tx[o].todo, tx[o].target, tx[o].space, user', spaces', member')
  <2>1. \A v \in User : <<"user", v>> \in tx[o].holds => v # u BY <1>3, <1>7
  <2>2. \A v \in User : v # u => user'[v] = user[v] /\ \A x \in Space : member'[x][v] = member[x][v]
    BY <1>1, <1>5 DEF PgInv, SpaceTypeOK
  <2>3. tx[o].todo \in CreateSpaceTodo => tx[o].space \notin spaces'
    BY <1>1 DEF PgInv, TxInv, Sound, Checked
  <2> QED BY <1>1, <2>1, <2>2, <2>3, StaysChecked
<1> QED BY <1>1, <1>6, <1>7, Finish

\* Registration and restoration: single statements on a row nobody has locked.
LEMMA StatusStep ==
  ASSUME PgInv, NEW u \in User, Register(u) \/ Restore(u)
  PROVE  PgInv' /\ Lifecycle!Next
<1>1. /\ user' = [user EXCEPT ![u] = "NORMAL"] /\ UNCHANGED <<spaces, member, tx>>
  BY DEF Register, Restore, CreateUser, RestoreUser
<1>2. Lifecycle!Next
  <2>1. Lifecycle!Register(u) \/ Lifecycle!SetStatus(u)
    BY DEF Register, Restore, CreateUser, RestoreUser, Lifecycle!Register, Lifecycle!SetStatus
  <2> QED BY <2>1 DEF Lifecycle!Next
<1>3. \A o \in Tx : <<"user", u>> \notin tx[o].holds
  <2>1. CASE Register(u)
    <3>1. \A o \in Tx : tx[o].target # u BY <2>1 DEF Register, Unmentioned
    <3> QED BY <3>1 DEF PgInv, TxInv, Sound, Locks
  <2>2. CASE Restore(u) BY <2>2 DEF Restore
  <2> QED BY <2>1, <2>2
<1>4. \A o \in Tx : Checked(tx[o].todo, tx[o].target, tx[o].space, user', spaces', member')
  BY <1>1, <1>3, StatusWrite
<1>5. SpaceTypeOK' /\ NoOrphanMember' BY <1>2, LifecycleKeeps DEF PgInv
<1>6. \A o \in Tx : Sound(user', spaces', member', tx[o]) BY <1>4 DEF PgInv, TxInv, Sound
<1> QED BY <1>1, <1>2, <1>5, <1>6 DEF PgInv, TxInv

-----------------------------------------------------------------------------
(* Every reachable state and every step.                                   *)

LEMMA PgInitial == PgInit => PgInv
<1> SUFFICES ASSUME PgInit PROVE PgInv OBVIOUS
<1>1. SpaceTypeOK /\ NoOrphanMember
  BY DEF PgInit, SpaceInit, SpaceTypeOK, NoOrphanMember, MemberRow, RowStatus
<1>2. tx \in [Tx -> TxRow] /\ \A t \in Tx : tx[t] = Idle BY IdleSound DEF PgInit
<1> QED BY <1>1, <1>2, IdleSound DEF PgInv, TxInv

LEMMA Unmoved ==
  ASSUME PgInv, UNCHANGED <<spaceVars, tx>>
  PROVE  PgInv'
BY DEF PgInv, SpaceTypeOK, NoOrphanMember, TxInv, spaceVars

LEMMA StepKeeps ==
  ASSUME PgInv, NEW t \in Tx, Step(t) \/ Abort(t)
  PROVE  PgInv' /\ (Lifecycle!Next \/ UNCHANGED spaceVars)
<1>1. CASE \/ Authorize(t) \/ RequireActiveUser(t) \/ CountMemberships(t) \/ ReadStatuses(t)
           \/ AuthorizeRemoval(t) \/ ReadMember(t) \/ CountAdmins(t) \/ ValidateArchive(t)
           \/ ReadActorStatus(t) \/ ReadActorRole(t)
  <2>1. UNCHANGED spaceVars
    BY <1>1 DEF Authorize, RequireActiveUser, CountMemberships, ReadStatuses, AuthorizeRemoval,
                ReadMember, CountAdmins, ValidateArchive, ReadActorStatus, ReadActorRole, Check
  <2> QED BY <1>1, <2>1, ReadSteps
<1>2. CASE LockActiveUser(t) \/ LockSpace(t) \/ LockUser(t)
  <2>1. UNCHANGED spaceVars BY <1>2 DEF LockActiveUser, LockSpace, LockUser, Lock
  <2> QED BY <1>2, <2>1, LockSteps
<1>3. CASE Abort(t) BY <1>3, Unwritten DEF Abort
<1>4. CASE \/ InsertSpace(t) \/ InsertInvitation(t) \/ Activate(t) \/ DeleteInvited(t)
           \/ UpdateRole(t) \/ DeleteActive(t) \/ Archive(t) \/ DeleteSpaceRows(t) \/ DeleteUserRows(t)
  BY <1>4, InsertSpaceStep, InsertInvitationStep, ActivateStep, RemoveStep, UpdateRoleStep, ArchiveStep,
     DeleteSpaceStep, DeleteUserStep
<1>5. CASE DeleteMemberRow(t) \/ DeleteDependentRow(t)
  <2>1. UNCHANGED <<spaceVars, tx>> BY <1>5 DEF DeleteMemberRow, DeleteDependentRow, DeleteRow
  <2> QED BY <2>1, Unmoved
<1> QED BY <1>1, <1>2, <1>3, <1>4, <1>5 DEF Step

LEMMA PgInductive ==
  PgInv /\ [PgNext]_pgVars => PgInv' /\ (Lifecycle!Next \/ UNCHANGED spaceVars)
<1>1. ASSUME PgInv, UNCHANGED pgVars PROVE PgInv' /\ UNCHANGED spaceVars
  BY <1>1 DEF pgVars, spaceVars, PgInv, SpaceTypeOK, NoOrphanMember, TxInv
<1>2. ASSUME PgInv, PgNext PROVE PgInv' /\ (Lifecycle!Next \/ UNCHANGED spaceVars)
  <2>1. ASSUME NEW t \in Tx, NEW u \in User,
               \/ BeginUserTx(t, u)
               \/ \E s \in Space : BeginSpaceTx(t, s, u) \/ BeginInvitationTx(t, s, u) \/ BeginMembershipTx(t, s, u)
        PROVE  PgInv' /\ UNCHANGED spaceVars
    BY <1>2, <2>1, BeginSteps DEF BeginUserTx, BeginSpaceTx, BeginInvitationTx, BeginMembershipTx, Begin
  <2> QED BY <1>2, <2>1, StatusStep, StepKeeps DEF PgNext
<1> QED BY <1>1, <1>2

\* Whatever the interleaving of any number of transactions, aborted ones
\* included, every committed space_member row has its user and its Space: the
\* two parent locks of the PostgreSQL driver are enough.
THEOREM PgLeavesNoOrphan == PgSafety => []PgNoOrphanMember
<1>1. PgInv => PgNoOrphanMember BY DEF PgInv, PgNoOrphanMember
<1> QED BY PgInitial, PgInductive, <1>1, PTL DEF PgSafety

\* READ COMMITTED with those locks implements the membership life cycle: nobody
\* founds, is invited to or joins a Space whose user or Space is gone by then.
THEOREM PgImplementsLifecycle == PgSafety => PgMembershipLifecycle
<1>1. PgInit => Lifecycle!Init
  BY DEF PgInit, SpaceInit, NoRow, Lifecycle!Init, Lifecycle!None
<1>2. PgInv /\ [PgNext]_pgVars => [Lifecycle!Next]_(Lifecycle!vars)
  BY PgInductive DEF spaceVars, Lifecycle!vars
<1> QED BY PgInitial, PgInductive, <1>1, <1>2, PTL
        DEF PgSafety, PgMembershipLifecycle, MembershipLifecycle, Lifecycle!Spec

-----------------------------------------------------------------------------
(* Who waits for whom.                                                     *)

\* Only a deletion that has come to its rows has deleted any.
DelInv ==
  /\ deleted \in [Tx -> SUBSET (MemberRows \cup DependentRows)]
  /\ \A t \in Tx : deleted[t] # {} => At(t, "deleteSpace") \/ At(t, "deleteUser")

LEMMA DelMoves ==
  ASSUME DelInv, NEW t \in Tx, deleted' = deleted, \A o \in Tx : o # t => tx'[o] = tx[o],
         ~ At(t, "deleteSpace"), ~ At(t, "deleteUser")
  PROVE  DelInv'
BY DEF DelInv, At, Running

LEMMA DelEnds ==
  ASSUME PgInv, DelInv, NEW t \in Tx, End(t)
  PROVE  DelInv'
<1>1. \A o \in Tx : o # t => tx'[o] = tx[o] BY DEF PgInv, TxInv, End
<1>2. /\ deleted' \in [Tx -> SUBSET (MemberRows \cup DependentRows)]
      /\ \A o \in Tx : deleted'[o] = IF o = t THEN {} ELSE deleted[o]
  BY DEF DelInv, End
<1> QED BY <1>1, <1>2 DEF DelInv, At, Running

LEMMA DelRows ==
  ASSUME DelInv, NEW t \in Tx, DeleteMemberRow(t) \/ DeleteDependentRow(t)
  PROVE  DelInv'
<1>1. PICK row \in MemberRows \cup DependentRows :
        DeleteRow(t, row) /\ (At(t, "deleteSpace") \/ At(t, "deleteUser"))
  BY DEF DeleteMemberRow, DeleteDependentRow, Doomed
<1>2. tx' = tx /\ deleted' = [deleted EXCEPT ![t] = deleted[t] \cup {row}] BY <1>1 DEF DeleteRow
<1>3. deleted' \in [Tx -> SUBSET (MemberRows \cup DependentRows)]
  <2>1. deleted[t] \cup {row} \in SUBSET (MemberRows \cup DependentRows) BY DEF DelInv
  <2> QED BY <1>2, <2>1 DEF DelInv
<1>4. \A o \in Tx : deleted'[o] # {} => At(o, "deleteSpace")' \/ At(o, "deleteUser")'
  BY <1>1, <1>2 DEF DelInv, At, Running
<1> QED BY <1>3, <1>4 DEF DelInv

LEMMA DelInductive == PgInv /\ DelInv /\ [PgNext]_pgVars => DelInv'
<1> SUFFICES ASSUME PgInv, DelInv, [PgNext]_pgVars PROVE DelInv' OBVIOUS
<1>0. tx \in [Tx -> TxRow] BY DEF PgInv, TxInv
<1>1. ASSUME UNCHANGED <<tx, deleted>> PROVE DelInv' BY <1>1 DEF DelInv, At, Running
<1>2. ASSUME NEW t \in Tx, NEW td, NEW a, NEW s, NEW u, NEW r, Begin(t, td, a, s, u, r) PROVE DelInv'
  <2>1. deleted' = deleted /\ ~ Running(t) /\ \A o \in Tx : o # t => tx'[o] = tx[o] BY <1>0, <1>2 DEF Begin
  <2> QED BY <2>1, DelMoves DEF At
<1>3. ASSUME NEW t \in Tx,
             \/ Authorize(t) \/ RequireActiveUser(t) \/ LockActiveUser(t) \/ LockSpace(t) \/ LockUser(t)
             \/ CountMemberships(t) \/ ReadStatuses(t) \/ AuthorizeRemoval(t) \/ ReadMember(t)
             \/ CountAdmins(t) \/ ValidateArchive(t) \/ ReadActorStatus(t) \/ ReadActorRole(t)
      PROVE  DelInv'
  <2>1. deleted' = deleted /\ \A o \in Tx : o # t => tx'[o] = tx[o]
    BY <1>0, <1>3
       DEF Authorize, RequireActiveUser, LockActiveUser, LockSpace, LockUser, CountMemberships, ReadStatuses,
           AuthorizeRemoval, ReadMember, CountAdmins, ValidateArchive, ReadActorStatus, ReadActorRole, Check, Lock
  <2>2. ~ At(t, "deleteSpace") /\ ~ At(t, "deleteUser")
    BY <1>3
       DEF Authorize, RequireActiveUser, LockActiveUser, LockSpace, LockUser, CountMemberships, ReadStatuses,
           AuthorizeRemoval, ReadMember, CountAdmins, ValidateArchive, ReadActorStatus, ReadActorRole, At
  <2> QED BY <2>1, <2>2, DelMoves
<1>4. ASSUME NEW t \in Tx,
             \/ InsertSpace(t) \/ InsertInvitation(t) \/ Activate(t) \/ DeleteInvited(t) \/ UpdateRole(t)
             \/ DeleteActive(t) \/ Archive(t) \/ DeleteSpaceRows(t) \/ DeleteUserRows(t) \/ Abort(t)
      PROVE  DelInv'
  <2>1. End(t)
    BY <1>4 DEF InsertSpace, InsertInvitation, Activate, DeleteInvited, UpdateRole, DeleteActive, Archive,
                DeleteSpaceRows, DeleteUserRows, Abort, Commit
  <2> QED BY <2>1, DelEnds
<1>5. CASE UNCHANGED pgVars BY <1>1, <1>5 DEF pgVars
<1>6. CASE PgNext
  <2>1. ASSUME NEW u \in User, Register(u) \/ Restore(u) PROVE DelInv'
    BY <1>1, <2>1 DEF Register, Restore
  <2>2. ASSUME NEW t \in Tx, Step(t) \/ Abort(t) PROVE DelInv'
    BY <1>3, <1>4, <2>2, DelRows DEF Step
  <2>3. ASSUME NEW t \in Tx, NEW u \in User,
               \/ BeginUserTx(t, u)
               \/ \E s \in Space : BeginSpaceTx(t, s, u) \/ BeginInvitationTx(t, s, u) \/ BeginMembershipTx(t, s, u)
        PROVE  DelInv'
    BY <1>2, <2>3 DEF BeginUserTx, BeginSpaceTx, BeginInvitationTx, BeginMembershipTx
  <2> QED BY <1>6, <2>1, <2>2, <2>3 DEF PgNext
<1> QED BY <1>5, <1>6

\* Which transactions are deletions, by what is left to do.
UserDeletionTodo ==
  {<<"lockUser", "countMemberships", "deleteUser">>, <<"countMemberships", "deleteUser">>, <<"deleteUser">>}
SpaceDeletionTodo ==
  {<<"readActorStatus", "lockSpace", "readActorRole", "deleteSpace">>,
   <<"lockSpace", "readActorRole", "deleteSpace">>, <<"readActorRole", "deleteSpace">>, <<"deleteSpace">>}

LEMMA DeletesTodo ==
  ASSUME PgInv, NEW t \in Tx, Running(t)
  PROVE  Deletes(t) <=> tx[t].todo \in UserDeletionTodo \cup SpaceDeletionTodo
<1> DEFINE td == tx[t].todo
           Has(q) == \E i \in 1..Len(q) : q[i] \in {"deleteSpace", "deleteUser"}
<1>1. td \in Todo /\ td # <<>> /\ (Deletes(t) <=> Has(td)) BY AtFacts DEF Deletes
<1>2. \A q \in CreateSpaceTodo : ~ Has(q) BY DEF CreateSpaceTodo
<1>3. \A q \in RoleTodo : ~ Has(q) BY DEF RoleTodo
<1>4. \A q \in UserDeletionTodo : Has(q)
  <2>1. Has(<<"lockUser", "countMemberships", "deleteUser">>)
    <3>1. 3 \in 1..Len(<<"lockUser", "countMemberships", "deleteUser">>) OBVIOUS
    <3>2. <<"lockUser", "countMemberships", "deleteUser">>[3] \in {"deleteSpace", "deleteUser"} OBVIOUS
    <3> QED BY <3>1, <3>2
  <2>2. Has(<<"countMemberships", "deleteUser">>)
    <3>1. 2 \in 1..Len(<<"countMemberships", "deleteUser">>) OBVIOUS
    <3>2. <<"countMemberships", "deleteUser">>[2] \in {"deleteSpace", "deleteUser"} OBVIOUS
    <3> QED BY <3>1, <3>2
  <2>3. Has(<<"deleteUser">>)
    <3>1. 1 \in 1..Len(<<"deleteUser">>) OBVIOUS
    <3>2. <<"deleteUser">>[1] \in {"deleteSpace", "deleteUser"} OBVIOUS
    <3> QED BY <3>1, <3>2
  <2> HIDE DEF Has
  <2> QED BY <2>1, <2>2, <2>3 DEF UserDeletionTodo
<1>5. \A q \in SpaceDeletionTodo : Has(q)
  <2>1. Has(<<"readActorStatus", "lockSpace", "readActorRole", "deleteSpace">>)
    <3>1. 4 \in 1..Len(<<"readActorStatus", "lockSpace", "readActorRole", "deleteSpace">>) OBVIOUS
    <3>2. <<"readActorStatus", "lockSpace", "readActorRole", "deleteSpace">>[4] \in {"deleteSpace", "deleteUser"} OBVIOUS
    <3> QED BY <3>1, <3>2
  <2>2. Has(<<"lockSpace", "readActorRole", "deleteSpace">>)
    <3>1. 3 \in 1..Len(<<"lockSpace", "readActorRole", "deleteSpace">>) OBVIOUS
    <3>2. <<"lockSpace", "readActorRole", "deleteSpace">>[3] \in {"deleteSpace", "deleteUser"} OBVIOUS
    <3> QED BY <3>1, <3>2
  <2>3. Has(<<"readActorRole", "deleteSpace">>)
    <3>1. 2 \in 1..Len(<<"readActorRole", "deleteSpace">>) OBVIOUS
    <3>2. <<"readActorRole", "deleteSpace">>[2] \in {"deleteSpace", "deleteUser"} OBVIOUS
    <3> QED BY <3>1, <3>2
  <2>4. Has(<<"deleteSpace">>)
    <3>1. 1 \in 1..Len(<<"deleteSpace">>) OBVIOUS
    <3>2. <<"deleteSpace">>[1] \in {"deleteSpace", "deleteUser"} OBVIOUS
    <3> QED BY <3>1, <3>2
  <2> HIDE DEF Has
  <2> QED BY <2>1, <2>2, <2>3, <2>4 DEF SpaceDeletionTodo
<1>6. \A q \in AccountTodo \ UserDeletionTodo : ~ Has(q) BY DEF AccountTodo, UserDeletionTodo
<1>7. \A q \in OtherTodo \ SpaceDeletionTodo : ~ Has(q) BY DEF OtherTodo, SpaceDeletionTodo
<1> HIDE DEF Has, td
<1>8. td \in CreateSpaceTodo \cup RoleTodo \cup AccountTodo \cup OtherTodo BY <1>1 DEF Todo
<1> QED BY <1>1, <1>2, <1>3, <1>4, <1>5, <1>6, <1>7, <1>8 DEF td

\* Whoever waits for a transaction that is no deletion waits for a lock, and holds
\* nothing, or a Space while it waits for a user.
LEMMA WaitsHolding ==
  ASSUME PgInv, DelInv, NEW t \in Tx, NEW o \in Tx, WaitsFor(t, o), ~ Deletes(o)
  PROVE  /\ deleted[t] = {}
         /\ \/ tx[t].holds = {}
            \/ /\ tx[t].todo = <<"lockActiveUser", "insertInvitation">>
               /\ tx[t].holds = {<<"space", tx[t].space>>}
         /\ \/ At(t, "lockSpace") /\ tx[t].holds = {} /\ <<"space", tx[t].space>> \in tx[o].holds
            \/ <<"user", tx[t].target>> \in tx[o].holds
<1>1. deleted[o] = {}
  <2> SUFFICES ASSUME At(o, "deleteSpace") \/ At(o, "deleteUser") PROVE FALSE BY DEF DelInv
  <2>1. tx[o].todo = <<"deleteSpace">> \/ tx[o].todo = <<"deleteUser">> BY AtWrite
  <2> QED BY <2>1, DeletesTodo DEF At, UserDeletionTodo, SpaceDeletionTodo
<1>2. PICK row \in tx[o].holds : Wants(t, row) BY <1>1 DEF WaitsFor, Locked
<1>3. row[1] \in {"user", "space"} BY <1>2 DEF PgInv, TxInv, TxRow
<1>4. \/ At(t, "lockSpace") /\ row = <<"space", tx[t].space>>
      \/ (At(t, "lockActiveUser") \/ At(t, "lockUser") \/ At(t, "archive")) /\ row = <<"user", tx[t].target>>
  BY <1>2, <1>3 DEF Wants, Doomed, MemberRows, DependentRows
<1>5. Running(t) /\ Head(tx[t].todo) \in {"lockSpace", "lockActiveUser", "lockUser", "archive"}
  BY <1>4 DEF At
<1>6. deleted[t] = {} BY <1>5 DEF DelInv, At
<1>7. /\ tx[t].todo \in Todo /\ tx[t].todo # <<>>
      /\ tx[t].holds = Locks(tx[t].todo, tx[t].target, tx[t].space)
  BY <1>5, AtFacts DEF Sound
<1>8. CASE tx[t].todo = <<"lockActiveUser", "insertInvitation">>
  <2>1. Head(tx[t].todo) = "lockActiveUser" BY <1>8
  <2>2. row = <<"user", tx[t].target>> BY <1>4, <2>1 DEF At
  <2>3. tx[t].holds = {<<"space", tx[t].space>>} BY <1>7, <1>8 DEF Locks, UserLocked, SpaceLocked
  <2> QED BY <1>2, <1>6, <1>8, <2>2, <2>3
<1>9. CASE tx[t].todo # <<"lockActiveUser", "insertInvitation">>
  <2>1. tx[t].todo \notin UserLocked \cup SpaceLocked
    <3>1. \/ tx[t].todo \in {<<"lockActiveUser", "insertSpace">>, <<"lockActiveUser", "activate">>}
          \/ tx[t].todo \in {<<"lockSpace", "lockActiveUser", "insertInvitation">>,
                             <<"lockSpace", "readActorRole", "deleteSpace">>}
          \/ tx[t].todo = <<"lockUser", "countMemberships", "deleteUser">>
          \/ tx[t].todo = <<"archive">>
      BY <1>5, <1>7, <1>9, LockTodo
    <3> QED BY <3>1 DEF UserLocked, SpaceLocked
  <2>2. tx[t].holds = {} BY <1>7, <2>1 DEF Locks
  <2> QED BY <1>2, <1>4, <1>6, <2>2
<1> QED BY <1>8, <1>9

Awaited(t) == \E o \in Tx : WaitsFor(o, t)

\* A deletion that is waited for waits for deletions only, and two transactions
\* that are not deletions never wait one for the other while the first is waited
\* for by one that is itself waited for.  In a cycle of waits, of whatever length,
\* everybody is waited for: what follows a deletion is a deletion, what follows
\* anything else is one too, so the cycle consists of deletions.
WaitsLeadToDeletions ==
  /\ \A t, o \in Tx : Awaited(t) /\ Deletes(t) /\ WaitsFor(t, o) => Deletes(o)
  /\ \A t, o, p \in Tx :
       Awaited(t) /\ WaitsFor(t, o) /\ ~ Deletes(o) /\ WaitsFor(o, p) => Deletes(p)

LEMMA WaitsLead == PgInv /\ DelInv => WaitsLeadToDeletions
<1> SUFFICES ASSUME PgInv, DelInv PROVE WaitsLeadToDeletions OBVIOUS
<1>1. ASSUME NEW t \in Tx, Awaited(t) PROVE Locked(t) # {} BY <1>1 DEF Awaited, WaitsFor
<1>2. ASSUME NEW t \in Tx, NEW o \in Tx, Awaited(t), Deletes(t), WaitsFor(t, o), ~ Deletes(o) PROVE FALSE
  <2>1. tx[t].todo # <<"lockActiveUser", "insertInvitation">>
    <3>1. Running(t) BY <1>2 DEF Deletes, Running
    <3> QED BY <1>2, <3>1, DeletesTodo DEF UserDeletionTodo, SpaceDeletionTodo
  <2>2. deleted[t] = {} /\ tx[t].holds = {} BY <1>2, <2>1, WaitsHolding
  <2> QED BY <1>1, <1>2, <2>2 DEF Locked
<1>3. ASSUME NEW t \in Tx, NEW o \in Tx, NEW p \in Tx,
             Awaited(t), WaitsFor(t, o), ~ Deletes(o), WaitsFor(o, p), ~ Deletes(p)
      PROVE  FALSE
  <2>1. \A v : <<"user", v>> \notin tx[o].holds
    <3>1. tx[o].holds = {} \/ tx[o].holds = {<<"space", tx[o].space>>} BY <1>3, WaitsHolding
    <3> QED BY <3>1
  <2>2. deleted[t] = {} /\ tx[t].holds = {} BY <1>3, <2>1, WaitsHolding
  <2> QED BY <1>1, <1>3, <2>2 DEF Locked
<1> QED BY <1>2, <1>3 DEF WaitsLeadToDeletions

\* "Space-then-User order" leaves no deadlock of any number of transactions with
\* one among them that founds a Space, invites, accepts, declines, revokes, changes
\* a role, removes a member or archives a user: only DeleteUser and DeleteSpace,
\* which take memberships and memos in opposite orders, can deadlock, and only
\* among themselves.
THEOREM PgDeadlocksAreDeletions == PgSafety => []WaitsLeadToDeletions
<1>1. PgInit => DelInv BY DEF PgInit, DelInv
<1> QED BY PgInitial, PgInductive, DelInductive, WaitsLead, <1>1, PTL DEF PgSafety

\* In particular of two transactions that wait for each other both are deletions.
THEOREM PgCrossesOnlyDeletions == PgSafety => []OnlyDeletionsDeadlock
<1>1. WaitsLeadToDeletions => OnlyDeletionsDeadlock
  <2> SUFFICES ASSUME WaitsLeadToDeletions, NEW t \in Tx, NEW o \in Tx, WaitsFor(t, o), WaitsFor(o, t)
               PROVE  Deletes(t) /\ Deletes(o)
    BY DEF OnlyDeletionsDeadlock
  <2>1. Awaited(t) /\ Awaited(o) BY DEF Awaited
  <2> QED BY <2>1 DEF WaitsLeadToDeletions
<1> QED BY PgDeadlocksAreDeletions, <1>1, PTL

-----------------------------------------------------------------------------
(* One transaction at a time: what it has read still holds at its write.   *)

NoOverlap == \A t, o \in Tx : Running(t) /\ Running(o) => t = o

\* The administrators according to a user table and a membership table.
AdminIn(us, mem, s, v) == mem[s][v] = Row("ACTIVE", "ADMIN") /\ us[v] = "NORMAL"
TwoIn(us, mem, s) ==
  \E v, w \in User : v # w /\ AdminIn(us, mem, s, v) /\ AdminIn(us, mem, s, w)
SpareIn(us, mem, s, u) == AdminIn(us, mem, s, u) => TwoIn(us, mem, s)
Demotes(mem, s, u, r) == mem[s][u].role = "ADMIN" /\ r # "ADMIN"
ReplaceableIn(us, mem, u) ==
  \A s \in Space : mem[s][u] = Row("ACTIVE", "ADMIN") =>
                     \E v \in User : v # u /\ AdminIn(us, mem, s, v)

\* After the actor was found to be an administrator, after the target of an update
\* was found NORMAL; a removal, after the statuses, after the rows of the Space and
\* the actor were read; a deletion of the Space after the actor was found NORMAL.
GrantedTodo ==
  {<<"lockSpace", "lockActiveUser", "insertInvitation">>,
   <<"lockActiveUser", "insertInvitation">>, <<"insertInvitation">>,
   <<"requireActiveUser", "readMember", "countAdmins", "updateRole">>,
   <<"readMember", "countAdmins", "updateRole">>, <<"countAdmins", "updateRole">>, <<"updateRole">>}
UpdatingTodo ==
  {<<"readMember", "countAdmins", "updateRole">>, <<"countAdmins", "updateRole">>, <<"updateRole">>}
LeavingTodo ==
  {<<"readMember", "countAdmins", "deleteActive">>, <<"countAdmins", "deleteActive">>, <<"deleteActive">>}
RemovingTodo == {<<"authorizeRemoval", "readMember", "countAdmins", "deleteActive">>} \cup LeavingTodo
RemovalTodo ==
  {<<"readStatuses", "authorizeRemoval", "readMember", "countAdmins", "deleteActive">>} \cup RemovingTodo
DissolvingTodo ==
  {<<"lockSpace", "readActorRole", "deleteSpace">>, <<"readActorRole", "deleteSpace">>, <<"deleteSpace">>}

\* What a transaction has found out and its write relies on.
KnowsUpdate(q, us, ss, mem) ==
  /\ q.todo \in GrantedTodo => q.space \in ss /\ AdminIn(us, mem, q.space, q.actor)
  /\ q.todo \in UpdatingTodo => us[q.target] = "NORMAL"
  /\ q.todo = <<"readMember", "countAdmins", "updateRole">> => q.mustCount = TRUE
  /\ q.todo = <<"countAdmins", "updateRole">> =>
       (Demotes(mem, q.space, q.target, q.role) => q.mustCount = TRUE)
  /\ q.todo = <<"updateRole">> => (Demotes(mem, q.space, q.target, q.role) => TwoIn(us, mem, q.space))
  /\ q.todo = <<"deleteInvited">> =>
       us[q.target] = "NORMAL" \/ (q.space \in ss /\ AdminIn(us, mem, q.space, q.actor))

KnowsRemoval(q, us, ss, mem) ==
  /\ q.todo \in RemovalTodo => q.role = "none"
  /\ q.todo \in RemovingTodo => (q.actor # q.target => us[q.actor] = "NORMAL")
  /\ q.todo \in LeavingTodo =>
       q.space \in ss /\ (q.actor # q.target => mem[q.space][q.actor] = Row("ACTIVE", "ADMIN"))
  /\ q.todo \in RemovingTodo \ {<<"deleteActive">>} =>
       q.mustCount = TRUE \/ SpareIn(us, mem, q.space, q.target)
  /\ q.todo = <<"deleteActive">> => SpareIn(us, mem, q.space, q.target)

KnowsOther(q, us, mem) ==
  /\ q.todo = <<"archive">> => (us[q.target] = "NORMAL" => ReplaceableIn(us, mem, q.target))
  /\ q.todo \in DissolvingTodo => us[q.actor] = "NORMAL"
  /\ q.todo = <<"deleteSpace">> => mem[q.space][q.actor] = Row("ACTIVE", "ADMIN")

Knows(q, us, ss, mem) ==
  KnowsUpdate(q, us, ss, mem) /\ KnowsRemoval(q, us, ss, mem) /\ KnowsOther(q, us, mem)

Informed == \A t \in Tx : Knows(tx[t], user, spaces, member)
SerialInv == ActiveAdminRetained /\ Informed

\* The same administrators as in module Spaces.
LEMMA AdminsAgree ==
  /\ \A s, v : AdminIn(user, member, s, v) <=> ActiveAdmin(s, v)
  /\ \A s : TwoIn(user, member, s) <=> HasTwoActiveAdmins(s)
  /\ \A u : ReplaceableIn(user, member, u) <=> ~ WouldLoseAdmin(u)
BY DEF AdminIn, TwoIn, ReplaceableIn, ActiveAdmin, ActiveUser, HasTwoActiveAdmins, ActiveAdmins, WouldLoseAdmin

LEMMA IdleKnows ==
  /\ Idle.todo = <<>>
  /\ \A q, us, ss, mem : q.todo = <<>> => Knows(q, us, ss, mem)
<1>1. Idle.todo = <<>> BY DEF Idle
<1> QED BY <1>1 DEF Knows, KnowsUpdate, KnowsRemoval, KnowsOther, GrantedTodo, UpdatingTodo,
                    LeavingTodo, RemovingTodo, RemovalTodo, DissolvingTodo

\* The transaction that moves is the only one.
LEMMA Others ==
  ASSUME NEW t \in Tx, tx \in [Tx -> TxRow], NEW q, tx' = [tx EXCEPT ![t] = q],
         (Running(t) /\ NoOverlap) \/ (q.todo # <<>> /\ NoOverlap')
  PROVE  \A o \in Tx : o # t => tx[o].todo = <<>>
BY DEF NoOverlap, Running

LEMMA Alone ==
  ASSUME NEW t \in Tx, NEW q, tx \in [Tx -> TxRow], tx' = [tx EXCEPT ![t] = q],
         \A o \in Tx : o # t => tx[o].todo = <<>>,
         Knows(q, user', spaces', member')
  PROVE  Informed'
<1>1. \A o \in Tx : tx'[o] = IF o = t THEN q ELSE tx[o] OBVIOUS
<1>2. \A o \in Tx : Knows(tx'[o], user', spaces', member') BY <1>1, IdleKnows
<1> QED BY <1>2 DEF Informed

-----------------------------------------------------------------------------
(* Every read adds what the next statement relies on.                      *)

LEMMA BeginKnows ==
  ASSUME NEW q, NEW us, NEW ss, NEW mem,
         \/ q.todo \in {CreateSpaceTx, CreateSpaceInvitationTx, AcceptSpaceInvitationTx,
                        DeclineSpaceInvitationTx, RevokeSpaceInvitationTx, UpdateSpaceMemberTx,
                        ArchiveUserTx, DeleteSpaceTx, DeleteUserTx}
         \/ q.todo = DeleteSpaceMemberTx /\ q.role = "none"
  PROVE  Knows(q, us, ss, mem)
<1> USE DEF Knows, KnowsUpdate, KnowsRemoval, KnowsOther, GrantedTodo, UpdatingTodo,
            LeavingTodo, RemovingTodo, RemovalTodo, DissolvingTodo
<1>1. CASE q.todo \in {CreateSpaceTx, ArchiveUserTx, DeleteSpaceTx, DeleteUserTx}
  BY <1>1 DEF CreateSpaceTx, ArchiveUserTx, DeleteSpaceTx, DeleteUserTx
<1>2. CASE q.todo \in {CreateSpaceInvitationTx, AcceptSpaceInvitationTx,
                       DeclineSpaceInvitationTx, RevokeSpaceInvitationTx}
  BY <1>2 DEF CreateSpaceInvitationTx, AcceptSpaceInvitationTx,
              DeclineSpaceInvitationTx, RevokeSpaceInvitationTx
<1>3. CASE q.todo = UpdateSpaceMemberTx BY <1>3 DEF UpdateSpaceMemberTx
<1>4. CASE q.todo = DeleteSpaceMemberTx /\ q.role = "none" BY <1>4 DEF DeleteSpaceMemberTx
<1> QED BY <1>1, <1>2, <1>3, <1>4

\* p moves on to q in the same tables, with the same arguments.
Goes(p, q) ==
  /\ q.todo = Tail(p.todo) /\ q.actor = p.actor /\ q.space = p.space /\ q.target = p.target
  /\ q.role = p.role

LEMMA ReadUpdate ==
  ASSUME NEW p, NEW q, NEW us, NEW ss, NEW mem, Goes(p, q), Knows(p, us, ss, mem),
         \/ /\ p.todo \in {<<"authorize", "lockSpace", "lockActiveUser", "insertInvitation">>,
                           <<"authorize", "requireActiveUser", "readMember", "countAdmins", "updateRole">>,
                           <<"authorize", "deleteInvited">>}
            /\ p.space \in ss /\ AdminIn(us, mem, p.space, p.actor)
         \/ /\ p.todo = <<"requireActiveUser", "readMember", "countAdmins", "updateRole">>
            /\ us[p.target] = "NORMAL" /\ q.mustCount = TRUE
         \/ p.todo = <<"requireActiveUser", "deleteInvited">> /\ us[p.target] = "NORMAL"
         \/ /\ p.todo = <<"readMember", "countAdmins", "updateRole">>
            /\ p.mustCount = TRUE /\ Demotes(mem, p.space, p.target, p.role) => q.mustCount = TRUE
         \/ /\ p.todo = <<"countAdmins", "updateRole">>
            /\ p.mustCount = TRUE => TwoIn(us, mem, p.space)
  PROVE  Knows(q, us, ss, mem)
<1> USE DEF Knows, KnowsUpdate, KnowsRemoval, KnowsOther, GrantedTodo, UpdatingTodo,
            LeavingTodo, RemovingTodo, RemovalTodo, DissolvingTodo
<1>1. ASSUME p.todo = <<"authorize", "lockSpace", "lockActiveUser", "insertInvitation">>,
             p.space \in ss, AdminIn(us, mem, p.space, p.actor)
      PROVE  Knows(q, us, ss, mem)
  <2>1. q.todo = <<"lockSpace", "lockActiveUser", "insertInvitation">> BY <1>1 DEF Goes
  <2> QED BY <1>1, <2>1 DEF Goes
<1>2. ASSUME p.todo = <<"authorize", "requireActiveUser", "readMember", "countAdmins", "updateRole">>,
             p.space \in ss, AdminIn(us, mem, p.space, p.actor)
      PROVE  Knows(q, us, ss, mem)
  <2>1. q.todo = <<"requireActiveUser", "readMember", "countAdmins", "updateRole">> BY <1>2 DEF Goes
  <2> QED BY <1>2, <2>1 DEF Goes
<1>3. ASSUME p.todo = <<"authorize", "deleteInvited">>,
             p.space \in ss, AdminIn(us, mem, p.space, p.actor)
      PROVE  Knows(q, us, ss, mem)
  <2>1. q.todo = <<"deleteInvited">> BY <1>3 DEF Goes
  <2> QED BY <1>3, <2>1 DEF Goes
<1>4. ASSUME p.todo = <<"requireActiveUser", "readMember", "countAdmins", "updateRole">>,
             us[p.target] = "NORMAL", q.mustCount = TRUE
      PROVE  Knows(q, us, ss, mem)
  <2>1. q.todo = <<"readMember", "countAdmins", "updateRole">> BY <1>4 DEF Goes
  <2> QED BY <1>4, <2>1 DEF Goes
<1>5. ASSUME p.todo = <<"requireActiveUser", "deleteInvited">>, us[p.target] = "NORMAL"
      PROVE  Knows(q, us, ss, mem)
  <2>1. q.todo = <<"deleteInvited">> BY <1>5 DEF Goes
  <2> QED BY <1>5, <2>1 DEF Goes
<1>6. ASSUME p.todo = <<"readMember", "countAdmins", "updateRole">>,
             p.mustCount = TRUE /\ Demotes(mem, p.space, p.target, p.role) => q.mustCount = TRUE
      PROVE  Knows(q, us, ss, mem)
  <2>1. q.todo = <<"countAdmins", "updateRole">> BY <1>6 DEF Goes
  <2> QED BY <1>6, <2>1 DEF Goes
<1>7. ASSUME p.todo = <<"countAdmins", "updateRole">>, p.mustCount = TRUE => TwoIn(us, mem, p.space)
      PROVE  Knows(q, us, ss, mem)
  <2>1. q.todo = <<"updateRole">> BY <1>7 DEF Goes
  <2> QED BY <1>7, <2>1 DEF Goes
<1> QED BY <1>1, <1>2, <1>3, <1>4, <1>5, <1>6, <1>7

LEMMA ReadRemoval ==
  ASSUME NEW p, NEW q, NEW us, NEW ss, NEW mem, Goes(p, q), Knows(p, us, ss, mem),
         \/ /\ p.todo = <<"readStatuses", "authorizeRemoval", "readMember", "countAdmins", "deleteActive">>
            /\ p.actor # p.target => us[p.actor] = "NORMAL"
            /\ us[p.target] = "NORMAL" => q.mustCount = TRUE
         \/ /\ p.todo = <<"authorizeRemoval", "readMember", "countAdmins", "deleteActive">>
            /\ p.space \in ss /\ q.mustCount = p.mustCount
            /\ p.actor # p.target => mem[p.space][p.actor] = Row("ACTIVE", "ADMIN")
         \/ /\ p.todo = <<"readMember", "countAdmins", "deleteActive">>
            /\ p.mustCount = TRUE /\ Demotes(mem, p.space, p.target, p.role) => q.mustCount = TRUE
         \/ /\ p.todo = <<"countAdmins", "deleteActive">>
            /\ p.mustCount = TRUE => TwoIn(us, mem, p.space)
  PROVE  Knows(q, us, ss, mem)
<1> USE DEF Knows, KnowsUpdate, KnowsRemoval, KnowsOther, GrantedTodo, UpdatingTodo,
            LeavingTodo, RemovingTodo, RemovalTodo, DissolvingTodo
<1>1. ASSUME p.todo = <<"readStatuses", "authorizeRemoval", "readMember", "countAdmins", "deleteActive">>,
             p.actor # p.target => us[p.actor] = "NORMAL",
             us[p.target] = "NORMAL" => q.mustCount = TRUE
      PROVE  Knows(q, us, ss, mem)
  <2>1. q.todo = <<"authorizeRemoval", "readMember", "countAdmins", "deleteActive">> BY <1>1 DEF Goes
  <2> QED BY <1>1, <2>1 DEF Goes, SpareIn, AdminIn
<1>2. ASSUME p.todo = <<"authorizeRemoval", "readMember", "countAdmins", "deleteActive">>,
             p.space \in ss, q.mustCount = p.mustCount,
             p.actor # p.target => mem[p.space][p.actor] = Row("ACTIVE", "ADMIN")
      PROVE  Knows(q, us, ss, mem)
  <2>1. q.todo = <<"readMember", "countAdmins", "deleteActive">> BY <1>2 DEF Goes
  <2> QED BY <1>2, <2>1 DEF Goes
<1>3. ASSUME p.todo = <<"readMember", "countAdmins", "deleteActive">>,
             p.mustCount = TRUE /\ Demotes(mem, p.space, p.target, p.role) => q.mustCount = TRUE
      PROVE  Knows(q, us, ss, mem)
  <2>1. q.todo = <<"countAdmins", "deleteActive">> BY <1>3 DEF Goes
  <2>2. AdminIn(us, mem, p.space, p.target) => Demotes(mem, p.space, p.target, p.role)
    BY <1>3 DEF AdminIn, Demotes, Row
  <2> QED BY <1>3, <2>1, <2>2 DEF Goes, SpareIn
<1>4. ASSUME p.todo = <<"countAdmins", "deleteActive">>, p.mustCount = TRUE => TwoIn(us, mem, p.space)
      PROVE  Knows(q, us, ss, mem)
  <2>1. q.todo = <<"deleteActive">> BY <1>4 DEF Goes
  <2> QED BY <1>4, <2>1 DEF Goes, SpareIn
<1> QED BY <1>1, <1>2, <1>3, <1>4

LEMMA ReadOther ==
  ASSUME NEW p, NEW q, NEW us, NEW ss, NEW mem, Goes(p, q), Knows(p, us, ss, mem),
         \/ /\ p.todo = <<"readActorStatus", "lockSpace", "readActorRole", "deleteSpace">>
            /\ us[p.actor] = "NORMAL"
         \/ /\ p.todo = <<"readActorRole", "deleteSpace">>
            /\ mem[p.space][p.actor] = Row("ACTIVE", "ADMIN")
         \/ /\ p.todo = <<"validateArchive", "archive">>
            /\ us[p.target] = "NORMAL" => ReplaceableIn(us, mem, p.target)
         \/ p.todo \in {<<"countMemberships", "deleteUser">>,
                        <<"lockUser", "countMemberships", "deleteUser">>,
                        <<"lockActiveUser", "insertSpace">>, <<"lockActiveUser", "activate">>,
                        <<"lockActiveUser", "insertInvitation">>,
                        <<"lockSpace", "lockActiveUser", "insertInvitation">>,
                        <<"lockSpace", "readActorRole", "deleteSpace">>}
  PROVE  Knows(q, us, ss, mem)
<1> USE DEF Knows, KnowsUpdate, KnowsRemoval, KnowsOther, GrantedTodo, UpdatingTodo,
            LeavingTodo, RemovingTodo, RemovalTodo, DissolvingTodo
<1>1. ASSUME p.todo = <<"readActorStatus", "lockSpace", "readActorRole", "deleteSpace">>,
             us[p.actor] = "NORMAL"
      PROVE  Knows(q, us, ss, mem)
  <2>1. q.todo = <<"lockSpace", "readActorRole", "deleteSpace">> BY <1>1 DEF Goes
  <2> QED BY <1>1, <2>1 DEF Goes
<1>2. ASSUME p.todo = <<"readActorRole", "deleteSpace">>, mem[p.space][p.actor] = Row("ACTIVE", "ADMIN")
      PROVE  Knows(q, us, ss, mem)
  <2>1. q.todo = <<"deleteSpace">> BY <1>2 DEF Goes
  <2> QED BY <1>2, <2>1 DEF Goes
<1>3. ASSUME p.todo = <<"validateArchive", "archive">>,
             us[p.target] = "NORMAL" => ReplaceableIn(us, mem, p.target)
      PROVE  Knows(q, us, ss, mem)
  <2>1. q.todo = <<"archive">> BY <1>3 DEF Goes
  <2> QED BY <1>3, <2>1 DEF Goes
<1>4. ASSUME p.todo \in {<<"countMemberships", "deleteUser">>,
                         <<"lockUser", "countMemberships", "deleteUser">>,
                         <<"lockActiveUser", "insertSpace">>, <<"lockActiveUser", "activate">>}
      PROVE  Knows(q, us, ss, mem)
  <2>1. CASE p.todo = <<"countMemberships", "deleteUser">>
    <3>1. q.todo = <<"deleteUser">> BY <2>1 DEF Goes
    <3> QED BY <3>1
  <2>2. CASE p.todo = <<"lockUser", "countMemberships", "deleteUser">>
    <3>1. q.todo = <<"countMemberships", "deleteUser">> BY <2>2 DEF Goes
    <3> QED BY <3>1
  <2>3. CASE p.todo = <<"lockActiveUser", "insertSpace">>
    <3>1. q.todo = <<"insertSpace">> BY <2>3 DEF Goes
    <3> QED BY <3>1
  <2>4. CASE p.todo = <<"lockActiveUser", "activate">>
    <3>1. q.todo = <<"activate">> BY <2>4 DEF Goes
    <3> QED BY <3>1
  <2> QED BY <1>4, <2>1, <2>2, <2>3, <2>4
<1>5. ASSUME p.todo = <<"lockActiveUser", "insertInvitation">> PROVE Knows(q, us, ss, mem)
  <2>1. q.todo = <<"insertInvitation">> BY <1>5 DEF Goes
  <2> QED BY <1>5, <2>1 DEF Goes
<1>6. ASSUME p.todo = <<"lockSpace", "lockActiveUser", "insertInvitation">> PROVE Knows(q, us, ss, mem)
  <2>1. q.todo = <<"lockActiveUser", "insertInvitation">> BY <1>6 DEF Goes
  <2> QED BY <1>6, <2>1 DEF Goes
<1>7. ASSUME p.todo = <<"lockSpace", "readActorRole", "deleteSpace">> PROVE Knows(q, us, ss, mem)
  <2>1. q.todo = <<"readActorRole", "deleteSpace">> BY <1>7 DEF Goes
  <2> QED BY <1>7, <2>1 DEF Goes
<1> QED BY <1>1, <1>2, <1>3, <1>4, <1>5, <1>6, <1>7

-----------------------------------------------------------------------------
(* The steps of the transaction, in the tables as they are.                *)

\* The record after a read, a decision or a lock.
LEMMA GoesOn ==
  ASSUME PgInv, NEW t \in Tx, Running(t), Tail(tx[t].todo) \in Todo
  PROVE  /\ Goes(tx[t], Onward(t)) /\ Onward(t).mustCount = tx[t].mustCount /\ Onward(t) \in TxRow
         /\ \A b \in Flag : /\ Goes(tx[t], [Onward(t) EXCEPT !.mustCount = b])
                            /\ [Onward(t) EXCEPT !.mustCount = b].mustCount = b
         /\ \A h : Goes(tx[t], [Onward(t) EXCEPT !.holds = h])
<1>1. tx[t] \in TxRow BY AtFacts
<1>2. /\ Goes(tx[t], Onward(t)) /\ Onward(t).mustCount = tx[t].mustCount /\ Onward(t) \in TxRow
  BY <1>1, OnwardFields DEF Goes, TxRow, Onward
<1>3. ASSUME NEW b \in Flag
      PROVE  /\ Goes(tx[t], [Onward(t) EXCEPT !.mustCount = b])
             /\ [Onward(t) EXCEPT !.mustCount = b].mustCount = b
  BY <1>2 DEF Goes, TxRow
<1>4. ASSUME NEW h PROVE Goes(tx[t], [Onward(t) EXCEPT !.holds = h]) BY <1>2 DEF Goes, TxRow
<1> QED BY <1>2, <1>3, <1>4

\* A step of the transaction that leaves the tables alone.
LEMMA QuietStep ==
  ASSUME SerialInv, NEW t \in Tx, NEW q, tx \in [Tx -> TxRow], tx' = [tx EXCEPT ![t] = q],
         (Running(t) /\ NoOverlap) \/ (q.todo # <<>> /\ NoOverlap'),
         UNCHANGED spaceVars, Knows(q, user, spaces, member)
  PROVE  SerialInv'
<1>1. Knows(q, user', spaces', member') BY DEF spaceVars
<1>2. Informed' BY <1>1, Others, Alone
<1>3. ActiveAdminRetained'
  BY DEF SerialInv, ActiveAdminRetained, ActiveAdmins, ActiveAdmin, ActiveUser, spaceVars
<1> QED BY <1>2, <1>3 DEF SerialInv

LEMMA SerialBegins ==
  ASSUME NoOverlap', PgInv, SerialInv, NEW t \in Tx, NEW u \in User,
         \/ BeginUserTx(t, u)
         \/ \E s \in Space : BeginSpaceTx(t, s, u) \/ BeginInvitationTx(t, s, u) \/ BeginMembershipTx(t, s, u)
  PROVE  SerialInv'
<1> DEFINE New(td, a, s, r) == [Idle EXCEPT !.todo = td, !.actor = a, !.space = s, !.target = u, !.role = r]
<1>1. PICK td, a, s, r :
        /\ tx' = [tx EXCEPT ![t] = New(td, a, s, r)] /\ UNCHANGED spaceVars
        /\ \/ td \in {CreateSpaceTx, CreateSpaceInvitationTx, AcceptSpaceInvitationTx,
                      DeclineSpaceInvitationTx, RevokeSpaceInvitationTx, UpdateSpaceMemberTx,
                      ArchiveUserTx, DeleteSpaceTx, DeleteUserTx}
           \/ td = DeleteSpaceMemberTx /\ r = "none"
  <2> HIDE DEF New
  <2>1. \A td, a, s, r : Begin(t, td, a, s, u, r) =>
                           tx' = [tx EXCEPT ![t] = New(td, a, s, r)] /\ UNCHANGED spaceVars
    BY DEF Begin, New
  <2>2. CASE BeginUserTx(t, u) BY <2>1, <2>2 DEF BeginUserTx
  <2>3. CASE \E s \in Space : BeginSpaceTx(t, s, u) BY <2>1, <2>3 DEF BeginSpaceTx
  <2>4. CASE \E s \in Space : BeginInvitationTx(t, s, u) BY <2>1, <2>4 DEF BeginInvitationTx
  <2>5. CASE \E s \in Space : BeginMembershipTx(t, s, u) BY <2>1, <2>5 DEF BeginMembershipTx
  <2> QED BY <2>2, <2>3, <2>4, <2>5
<1>2. New(td, a, s, r).todo = td /\ New(td, a, s, r).role = r BY DEF Idle
<1>4. td # <<>>
  BY <1>1 DEF CreateSpaceTx, CreateSpaceInvitationTx, AcceptSpaceInvitationTx, DeclineSpaceInvitationTx,
              RevokeSpaceInvitationTx, UpdateSpaceMemberTx, DeleteSpaceMemberTx, ArchiveUserTx,
              DeleteSpaceTx, DeleteUserTx
<1> HIDE DEF New
<1>3. Knows(New(td, a, s, r), user, spaces, member) BY <1>1, <1>2, BeginKnows
<1> QED BY <1>1, <1>2, <1>3, <1>4, QuietStep DEF PgInv, TxInv

\* Where a transaction is at each statement that reads.
LEMMA ReadPlace ==
  ASSUME NEW td \in Todo, td # <<>>
  PROVE  /\ Head(td) = "authorize" =>
              td \in {<<"authorize", "lockSpace", "lockActiveUser", "insertInvitation">>,
                     <<"authorize", "requireActiveUser", "readMember", "countAdmins", "updateRole">>,
                     <<"authorize", "deleteInvited">>}
         /\ Head(td) = "requireActiveUser" =>
              td \in {<<"requireActiveUser", "readMember", "countAdmins", "updateRole">>,
                     <<"requireActiveUser", "deleteInvited">>}
         /\ Head(td) = "readStatuses" =>
              td = <<"readStatuses", "authorizeRemoval", "readMember", "countAdmins", "deleteActive">>
         /\ Head(td) = "authorizeRemoval" =>
              td = <<"authorizeRemoval", "readMember", "countAdmins", "deleteActive">>
         /\ Head(td) = "readMember" =>
              td \in {<<"readMember", "countAdmins", "updateRole">>,
                     <<"readMember", "countAdmins", "deleteActive">>}
         /\ Head(td) = "countAdmins" =>
              td \in {<<"countAdmins", "updateRole">>, <<"countAdmins", "deleteActive">>}
         /\ Head(td) = "validateArchive" => td = <<"validateArchive", "archive">>
         /\ Head(td) = "readActorStatus" =>
              td = <<"readActorStatus", "lockSpace", "readActorRole", "deleteSpace">>
         /\ Head(td) = "readActorRole" => td = <<"readActorRole", "deleteSpace">>
         /\ Head(td) = "countMemberships" => td = <<"countMemberships", "deleteUser">>
BY DEF Todo, CreateSpaceTodo, AccountTodo, RoleTodo, OtherTodo

\* A statement that does not write, passed or rolled back.
LEMMA SerialReads ==
  ASSUME NoOverlap, PgInv, SerialInv, NEW t \in Tx,
         \/ Authorize(t) \/ RequireActiveUser(t) \/ CountMemberships(t) \/ ReadStatuses(t)
         \/ AuthorizeRemoval(t) \/ ReadMember(t) \/ CountAdmins(t) \/ ValidateArchive(t)
         \/ ReadActorStatus(t) \/ ReadActorRole(t)
  PROVE  SerialInv'
<1> DEFINE p == tx[t]
           td == tx[t].todo
<1>1. Running(t) /\ Head(td) \in ReadStatements
  BY DEF Authorize, RequireActiveUser, CountMemberships, ReadStatuses, AuthorizeRemoval, ReadMember,
         CountAdmins, ValidateArchive, ReadActorStatus, ReadActorRole, At, ReadStatements
<1>2. /\ tx \in [Tx -> TxRow] /\ td \in Todo /\ td # <<>> /\ Tail(td) \in Todo
      /\ Knows(p, user, spaces, member)
  BY <1>1, AtFacts, ReadTail DEF ReadOn, SerialInv, Informed
<1>3. /\ Goes(p, Onward(t)) /\ Onward(t).mustCount = p.mustCount
      /\ \A b \in Flag : /\ Goes(p, [Onward(t) EXCEPT !.mustCount = b])
                         /\ [Onward(t) EXCEPT !.mustCount = b].mustCount = b
  BY <1>1, <1>2, GoesOn
<1>4. ASSUME NEW q, tx' = [tx EXCEPT ![t] = q], UNCHANGED spaceVars, Knows(q, user, spaces, member)
      PROVE  SerialInv'
  BY <1>1, <1>2, <1>4, QuietStep
<1>5. ASSUME tx' = [tx EXCEPT ![t] = Idle], UNCHANGED spaceVars PROVE SerialInv'
  BY <1>4, <1>5, IdleKnows
<1>6. ASSUME NEW ok \in BOOLEAN, Check(t, ok), ok => Knows(Onward(t), user, spaces, member)
      PROVE  SerialInv'
  BY <1>4, <1>5, <1>6 DEF Check
<1>7. CASE Authorize(t)
  <2> DEFINE ok == AuthorizeSpaceAdmin(p.space, p.actor)
  <2>1. ok \in BOOLEAN /\ Check(t, ok) /\ Head(td) = "authorize"
    BY <1>7 DEF Authorize, At, AuthorizeSpaceAdmin
  <2>2. ASSUME ok PROVE Knows(Onward(t), user, spaces, member)
    <3>1. p.space \in spaces /\ AdminIn(user, member, p.space, p.actor)
      BY <2>2, AdminsAgree DEF AuthorizeSpaceAdmin
    <3> QED BY <1>2, <1>3, <2>1, <3>1, ReadPlace, ReadUpdate
  <2> HIDE DEF ok
  <2> QED BY <1>6, <2>1, <2>2
<1>8. CASE RequireActiveUser(t)
  <2> DEFINE q == [Onward(t) EXCEPT !.mustCount = TRUE]
  <2>1. /\ Head(td) = "requireActiveUser" /\ UNCHANGED spaceVars
        /\ tx' = [tx EXCEPT ![t] = IF ActiveUser(p.target) THEN q ELSE Idle]
    BY <1>8 DEF RequireActiveUser, At
  <2>2. TRUE \in Flag BY DEF Flag
  <2>3. Goes(p, q) /\ q.mustCount = TRUE BY <1>3, <2>2
  <2> HIDE DEF q
  <2>4. ASSUME ActiveUser(p.target) PROVE Knows(q, user, spaces, member)
    <3>1. user[p.target] = "NORMAL" BY <2>4 DEF ActiveUser
    <3> QED BY <1>2, <2>1, <2>3, <3>1, ReadPlace, ReadUpdate
  <2> QED BY <1>4, <1>5, <2>1, <2>4
<1>9. CASE ReadStatuses(t)
  <2> DEFINE b == ActiveUser(p.target)
             q == [Onward(t) EXCEPT !.mustCount = b]
             ok == p.actor # p.target => ActiveUser(p.actor)
  <2>1. /\ Head(td) = "readStatuses" /\ UNCHANGED spaceVars
        /\ tx' = [tx EXCEPT ![t] = IF ok THEN q ELSE Idle]
    BY <1>9 DEF ReadStatuses, At
  <2>2. b \in Flag /\ (b => b = TRUE) BY DEF Flag, ActiveUser
  <2>3. Goes(p, q) /\ q.mustCount = b
    <3> HIDE DEF b
    <3> QED BY <1>3, <2>2
  <2>4. user[p.target] = "NORMAL" => q.mustCount = TRUE
    <3> HIDE DEF q
    <3>1. user[p.target] = "NORMAL" => b BY DEF ActiveUser
    <3> HIDE DEF b
    <3> QED BY <2>2, <2>3, <3>1
  <2>5. ASSUME ok PROVE Knows(q, user, spaces, member)
    <3>1. p.actor # p.target => user[p.actor] = "NORMAL" BY <2>5 DEF ActiveUser
    <3> HIDE DEF q, ok, b
    <3> QED BY <1>2, <2>1, <2>3, <2>4, <3>1, ReadPlace, ReadRemoval
  <2> HIDE DEF q, ok
  <2> QED BY <1>4, <1>5, <2>1, <2>5
<1>10. CASE AuthorizeRemoval(t)
  <2> DEFINE ok == /\ p.space \in spaces
                   /\ p.actor # p.target => member[p.space][p.actor] = Row("ACTIVE", "ADMIN")
  <2>1. ok \in BOOLEAN /\ Check(t, ok) /\ Head(td) = "authorizeRemoval"
    BY <1>10 DEF AuthorizeRemoval, At
  <2>2. ASSUME ok PROVE Knows(Onward(t), user, spaces, member)
    BY <1>2, <1>3, <2>1, <2>2, ReadPlace, ReadRemoval
  <2> HIDE DEF ok
  <2> QED BY <1>6, <2>1, <2>2
<1>11. CASE ReadMember(t)
  <2> DEFINE b == p.mustCount /\ member[p.space][p.target].role = "ADMIN" /\ p.role # "ADMIN"
             q == [Onward(t) EXCEPT !.mustCount = b]
             ok == member[p.space][p.target].status = "ACTIVE"
  <2>1. /\ Head(td) = "readMember" /\ UNCHANGED spaceVars
        /\ tx' = [tx EXCEPT ![t] = IF ok THEN q ELSE Idle]
    BY <1>11 DEF ReadMember, At
  <2>2. b \in Flag /\ (b => b = TRUE) BY DEF Flag
  <2>3. Goes(p, q) /\ q.mustCount = b
    <3> HIDE DEF b
    <3> QED BY <1>3, <2>2
  <2>4. p.mustCount = TRUE /\ Demotes(member, p.space, p.target, p.role) => q.mustCount = TRUE
    <3> HIDE DEF q
    <3>1. p.mustCount = TRUE /\ Demotes(member, p.space, p.target, p.role) => b BY DEF Demotes
    <3> HIDE DEF b
    <3> QED BY <2>2, <2>3, <3>1
  <2> HIDE DEF q, b
  <2>5. Knows(q, user, spaces, member)
    BY <1>2, <2>1, <2>3, <2>4, ReadPlace, ReadUpdate, ReadRemoval
  <2> HIDE DEF ok
  <2> QED BY <1>4, <1>5, <2>1, <2>5
<1>12. CASE CountAdmins(t)
  <2> DEFINE ok == p.mustCount => HasTwoActiveAdmins(p.space)
  <2>1. ok \in BOOLEAN /\ Check(t, ok) /\ Head(td) = "countAdmins" BY <1>12 DEF CountAdmins, At
  <2>2. ASSUME ok PROVE Knows(Onward(t), user, spaces, member)
    <3>1. p.mustCount = TRUE => TwoIn(user, member, p.space) BY <2>2, AdminsAgree
    <3> QED BY <1>2, <1>3, <2>1, <3>1, ReadPlace, ReadUpdate, ReadRemoval
  <2> HIDE DEF ok
  <2> QED BY <1>6, <2>1, <2>2
<1>13. CASE ValidateArchive(t)
  <2> DEFINE ok == ActiveUser(p.target) => ~ WouldLoseAdmin(p.target)
  <2>1. ok \in BOOLEAN /\ Check(t, ok) /\ Head(td) = "validateArchive" BY <1>13 DEF ValidateArchive, At
  <2>2. ASSUME ok PROVE Knows(Onward(t), user, spaces, member)
    <3>1. user[p.target] = "NORMAL" => ReplaceableIn(user, member, p.target)
      BY <2>2, AdminsAgree DEF ActiveUser
    <3> QED BY <1>2, <1>3, <2>1, <3>1, ReadPlace, ReadOther
  <2> HIDE DEF ok
  <2> QED BY <1>6, <2>1, <2>2
<1>14. CASE ReadActorStatus(t)
  <2> DEFINE ok == ActiveUser(p.actor)
  <2>1. ok \in BOOLEAN /\ Check(t, ok) /\ Head(td) = "readActorStatus"
    BY <1>14 DEF ReadActorStatus, At, ActiveUser
  <2>2. ASSUME ok PROVE Knows(Onward(t), user, spaces, member)
    <3>1. user[p.actor] = "NORMAL" BY <2>2 DEF ActiveUser
    <3> QED BY <1>2, <1>3, <2>1, <3>1, ReadPlace, ReadOther
  <2> HIDE DEF ok
  <2> QED BY <1>6, <2>1, <2>2
<1>15. CASE ReadActorRole(t)
  <2> DEFINE ok == member[p.space][p.actor] = Row("ACTIVE", "ADMIN")
  <2>1. ok \in BOOLEAN /\ Check(t, ok) /\ Head(td) = "readActorRole" BY <1>15 DEF ReadActorRole, At
  <2>2. ASSUME ok PROVE Knows(Onward(t), user, spaces, member)
    BY <1>2, <1>3, <2>1, <2>2, ReadPlace, ReadOther
  <2> HIDE DEF ok
  <2> QED BY <1>6, <2>1, <2>2
<1>16. CASE CountMemberships(t)
  <2> DEFINE ok == \A s \in Space : member[s][p.target].status # "ACTIVE"
  <2>1. ok \in BOOLEAN /\ Check(t, ok) /\ Head(td) = "countMemberships" BY <1>16 DEF CountMemberships, At
  <2>2. Knows(Onward(t), user, spaces, member) BY <1>2, <1>3, <2>1, ReadPlace, ReadOther
  <2> HIDE DEF ok
  <2> QED BY <1>6, <2>1, <2>2
<1> QED BY <1>7, <1>8, <1>9, <1>10, <1>11, <1>12, <1>13, <1>14, <1>15, <1>16

LEMMA SerialLocks ==
  ASSUME NoOverlap, PgInv, SerialInv, NEW t \in Tx, LockActiveUser(t) \/ LockSpace(t) \/ LockUser(t)
  PROVE  SerialInv'
<1> DEFINE p == tx[t]
           td == tx[t].todo
<1>1. Running(t) /\ Head(td) \in {"lockActiveUser", "lockSpace", "lockUser"}
  BY DEF LockActiveUser, LockSpace, LockUser, At
<1>2. tx \in [Tx -> TxRow] /\ td \in Todo /\ td # <<>> /\ Knows(p, user, spaces, member)
  BY <1>1, AtFacts DEF SerialInv, Informed
<1>3. td \in {<<"lockUser", "countMemberships", "deleteUser">>,
              <<"lockActiveUser", "insertSpace">>, <<"lockActiveUser", "activate">>,
              <<"lockActiveUser", "insertInvitation">>,
              <<"lockSpace", "lockActiveUser", "insertInvitation">>,
              <<"lockSpace", "readActorRole", "deleteSpace">>}
  BY <1>1, <1>2, LockTodo
<1>4. Tail(td) \in Todo
  <2> USE DEF Todo, CreateSpaceTodo, AccountTodo, RoleTodo, OtherTodo
  <2>1. CASE td = <<"lockUser", "countMemberships", "deleteUser">>
    <3>1. Tail(td) = <<"countMemberships", "deleteUser">> BY <2>1
    <3> QED BY <3>1
  <2>2. CASE td = <<"lockActiveUser", "insertSpace">>
    <3>1. Tail(td) = <<"insertSpace">> BY <2>2
    <3> QED BY <3>1
  <2>3. CASE td = <<"lockActiveUser", "activate">>
    <3>1. Tail(td) = <<"activate">> BY <2>3
    <3> QED BY <3>1
  <2>4. CASE td = <<"lockActiveUser", "insertInvitation">>
    <3>1. Tail(td) = <<"insertInvitation">> BY <2>4
    <3> QED BY <3>1
  <2>5. CASE td = <<"lockSpace", "lockActiveUser", "insertInvitation">>
    <3>1. Tail(td) = <<"lockActiveUser", "insertInvitation">> BY <2>5
    <3> QED BY <3>1
  <2>6. CASE td = <<"lockSpace", "readActorRole", "deleteSpace">>
    <3>1. Tail(td) = <<"readActorRole", "deleteSpace">> BY <2>6
    <3> QED BY <3>1
  <2> QED BY <1>3, <2>1, <2>2, <2>3, <2>4, <2>5, <2>6
<1>5. PICK row, ok : Lock(t, row, ok) BY DEF LockActiveUser, LockSpace, LockUser
<1> DEFINE q == [Onward(t) EXCEPT !.holds = p.holds \cup {row}]
<1>6. /\ UNCHANGED spaceVars
      /\ tx' = [tx EXCEPT ![t] = q] \/ tx' = [tx EXCEPT ![t] = Idle]
  BY <1>5 DEF Lock
<1>7. Goes(p, q) BY <1>1, <1>4, GoesOn
<1> HIDE DEF q
<1>8. Knows(q, user, spaces, member) BY <1>2, <1>3, <1>7, ReadOther
<1> QED BY <1>1, <1>2, <1>6, <1>8, IdleKnows, QuietStep

-----------------------------------------------------------------------------
(* The write of the transaction is the transaction of module Spaces.       *)

\* What is known at the write.
LEMMA KnownAtWrite ==
  ASSUME PgInv, SerialInv, NEW t \in Tx,
         NEW stmt \in {"insertSpace", "insertInvitation", "activate", "deleteInvited", "updateRole",
                       "deleteActive", "archive", "deleteSpace", "deleteUser"},
         At(t, stmt)
  PROVE  /\ tx[t].actor \in User /\ tx[t].target \in User /\ tx[t].todo = <<stmt>>
         /\ stmt \notin {"archive", "deleteUser"} => tx[t].space \in Space
         /\ stmt \in {"insertInvitation", "updateRole"} =>
              tx[t].role \in Role /\ AuthorizeSpaceAdmin(tx[t].space, tx[t].actor)
         /\ stmt = "insertSpace" => tx[t].space \notin spaces
         /\ stmt \in {"insertSpace", "insertInvitation", "activate", "updateRole"} => ActiveUser(tx[t].target)
         /\ stmt = "updateRole" =>
              (Demotes(member, tx[t].space, tx[t].target, tx[t].role) => HasTwoActiveAdmins(tx[t].space))
         /\ stmt = "deleteInvited" =>
              ActiveUser(tx[t].target) \/ AuthorizeSpaceAdmin(tx[t].space, tx[t].actor)
         /\ stmt = "deleteActive" =>
              /\ tx[t].space \in spaces
              /\ tx[t].actor # tx[t].target => ActiveAdmin(tx[t].space, tx[t].actor)
              /\ ActiveAdmin(tx[t].space, tx[t].target) => HasTwoActiveAdmins(tx[t].space)
         /\ stmt = "archive" => (ActiveUser(tx[t].target) => ~ WouldLoseAdmin(tx[t].target))
         /\ stmt = "deleteSpace" => ActiveAdmin(tx[t].space, tx[t].actor)
         /\ stmt = "deleteUser" => /\ user[tx[t].target] # "absent"
                                   /\ \A s \in Space : member[s][tx[t].target].status # "ACTIVE"
<1>1. /\ tx[t].todo = <<stmt>> /\ tx[t].actor \in User /\ tx[t].target \in User
      /\ Sound(user, spaces, member, tx[t])
  BY AtFacts, WriteTodo DEF At
<1>2. Arguments(tx[t]) /\ Checked(tx[t].todo, tx[t].target, tx[t].space, user, spaces, member)
  BY <1>1 DEF Sound
<1>3. /\ KnowsUpdate(tx[t], user, spaces, member) /\ KnowsRemoval(tx[t], user, spaces, member)
      /\ KnowsOther(tx[t], user, member)
  BY DEF SerialInv, Informed, Knows
<1>4. /\ stmt \notin {"archive", "deleteUser"} => tx[t].space \in Space
      /\ stmt \in {"insertInvitation", "updateRole"} => tx[t].role \in Role
  BY <1>1, <1>2 DEF Arguments, AccountTodo, RoleTodo
<1>5. /\ stmt = "insertSpace" => tx[t].space \notin spaces
      /\ stmt \in {"insertSpace", "insertInvitation", "activate"} => ActiveUser(tx[t].target)
      /\ stmt = "deleteUser" => /\ user[tx[t].target] # "absent"
                                /\ \A s \in Space : member[s][tx[t].target].status # "ACTIVE"
  BY <1>1, <1>2 DEF Checked, CreateSpaceTodo, ActiveUser
<1>6. /\ stmt \in {"insertInvitation", "updateRole"} => AuthorizeSpaceAdmin(tx[t].space, tx[t].actor)
      /\ stmt = "updateRole" => ActiveUser(tx[t].target)
      /\ stmt = "updateRole" =>
           (Demotes(member, tx[t].space, tx[t].target, tx[t].role) => HasTwoActiveAdmins(tx[t].space))
      /\ stmt = "deleteInvited" =>
           ActiveUser(tx[t].target) \/ AuthorizeSpaceAdmin(tx[t].space, tx[t].actor)
  BY <1>1, <1>3, AdminsAgree DEF KnowsUpdate, GrantedTodo, UpdatingTodo, AuthorizeSpaceAdmin, ActiveUser
<1>7. stmt = "deleteActive" =>
        /\ tx[t].space \in spaces
        /\ tx[t].actor # tx[t].target => ActiveAdmin(tx[t].space, tx[t].actor)
        /\ ActiveAdmin(tx[t].space, tx[t].target) => HasTwoActiveAdmins(tx[t].space)
  BY <1>1, <1>3, AdminsAgree DEF KnowsRemoval, LeavingTodo, RemovingTodo, SpareIn, ActiveAdmin, ActiveUser
<1>8. /\ stmt = "archive" => (ActiveUser(tx[t].target) => ~ WouldLoseAdmin(tx[t].target))
      /\ stmt = "deleteSpace" => ActiveAdmin(tx[t].space, tx[t].actor)
  BY <1>1, <1>3, AdminsAgree DEF KnowsOther, DissolvingTodo, ActiveAdmin, ActiveUser
<1> QED BY <1>1, <1>4, <1>5, <1>6, <1>7, <1>8

LEMMA SerialWrites ==
  ASSUME PgInv, SerialInv, NEW t \in Tx,
         \/ InsertSpace(t) \/ InsertInvitation(t) \/ Activate(t) \/ DeleteInvited(t)
         \/ UpdateRole(t) \/ DeleteActive(t) \/ Archive(t) \/ DeleteSpaceRows(t) \/ DeleteUserRows(t)
  PROVE  SpaceNext \/ UNCHANGED spaceVars
<1> DEFINE s == tx[t].space
           u == tx[t].target
           a == tx[t].actor
           r == tx[t].role
<1>1. CASE InsertSpace(t)
  <2>1. At(t, "insertSpace") BY <1>1 DEF InsertSpace
  <2>2. s \in Space /\ u \in User /\ s \notin spaces /\ ActiveUser(u) BY <2>1, KnownAtWrite
  <2>3. CreateSpace(u, s) BY <1>1, <2>2 DEF InsertSpace, Commit, SetRow, CreateSpace
  <2> QED BY <2>2, <2>3 DEF SpaceNext
<1>2. CASE InsertInvitation(t)
  <2>1. At(t, "insertInvitation") BY <1>2 DEF InsertInvitation
  <2>2. s \in Space /\ u \in User /\ a \in User /\ r \in Role /\ ActiveUser(u) /\ AuthorizeSpaceAdmin(s, a)
    BY <2>1, KnownAtWrite
  <2>3. CreateSpaceInvitation(a, s, u, r) \/ UNCHANGED spaceVars
    BY <1>2, <2>2 DEF InsertInvitation, Commit, SetRow, TargetRow, CreateSpaceInvitation, spaceVars
  <2> HIDE DEF s, u, a, r
  <2> QED BY <2>2, <2>3 DEF SpaceNext, InvitationNext
<1>3. CASE Activate(t)
  <2>1. At(t, "activate") BY <1>3 DEF Activate
  <2>2. s \in Space /\ u \in User /\ ActiveUser(u) BY <2>1, KnownAtWrite
  <2>3. AcceptSpaceInvitation(s, u) \/ UNCHANGED spaceVars
    BY <1>3, <2>2 DEF Activate, Commit, SetRow, TargetRow, AcceptSpaceInvitation, spaceVars
  <2> HIDE DEF s, u
  <2> QED BY <2>2, <2>3 DEF SpaceNext, InvitationNext
<1>4. CASE DeleteInvited(t)
  <2>1. At(t, "deleteInvited") BY <1>4 DEF DeleteInvited
  <2>2. s \in Space /\ u \in User /\ a \in User /\ (ActiveUser(u) \/ AuthorizeSpaceAdmin(s, a))
    BY <2>1, KnownAtWrite
  <2>3. DeclineSpaceInvitation(s, u) \/ RevokeSpaceInvitation(a, s, u) \/ UNCHANGED spaceVars
    BY <1>4, <2>2 DEF DeleteInvited, Commit, SetRow, TargetRow, DeclineSpaceInvitation,
                      RevokeSpaceInvitation, spaceVars
  <2> HIDE DEF s, u, a
  <2> QED BY <2>2, <2>3 DEF SpaceNext, InvitationNext
<1>5. CASE UpdateRole(t)
  <2>1. At(t, "updateRole") BY <1>5 DEF UpdateRole
  <2>2. /\ s \in Space /\ u \in User /\ a \in User /\ r \in Role /\ ActiveUser(u) /\ AuthorizeSpaceAdmin(s, a)
        /\ member[s][u].role = "ADMIN" /\ r # "ADMIN" => HasTwoActiveAdmins(s)
    BY <2>1, KnownAtWrite DEF Demotes
  <2>3. UpdateSpaceMember(a, s, u, r) \/ UNCHANGED spaceVars
    BY <1>5, <2>2 DEF UpdateRole, Commit, SetRow, TargetRow, UpdateSpaceMember, spaceVars
  <2> HIDE DEF s, u, a, r
  <2> QED BY <2>2, <2>3 DEF SpaceNext, MembershipNext
<1>6. CASE DeleteActive(t)
  <2>1. At(t, "deleteActive") BY <1>6 DEF DeleteActive
  <2>2. /\ s \in Space /\ u \in User /\ a \in User /\ s \in spaces /\ (a # u => ActiveAdmin(s, a))
        /\ ActiveAdmin(s, u) => HasTwoActiveAdmins(s)
    BY <2>1, KnownAtWrite
  <2>3. DeleteSpaceMember(a, s, u) \/ UNCHANGED spaceVars
    BY <1>6, <2>2 DEF DeleteActive, Commit, SetRow, TargetRow, DeleteSpaceMember, spaceVars
  <2> HIDE DEF s, u, a
  <2> QED BY <2>2, <2>3 DEF SpaceNext, MembershipNext
<1>7. CASE Archive(t)
  <2>1. At(t, "archive") BY <1>7 DEF Archive
  <2>2. u \in User /\ (ActiveUser(u) => ~ WouldLoseAdmin(u)) BY <2>1, KnownAtWrite
  <2>3. /\ user' = IF user[u] # "absent" THEN [user EXCEPT ![u] = "ARCHIVED"] ELSE user
        /\ UNCHANGED <<spaces, member>>
    BY <1>7 DEF Archive, Commit
  <2>4. user \in [User -> {"NORMAL", "ARCHIVED", "absent"}] BY DEF PgInv, SpaceTypeOK, RowStatus
  <2> HIDE DEF u
  <2>5. CASE ActiveUser(u)
    <3>1. ArchiveUser(u) BY <2>2, <2>3, <2>5 DEF ArchiveUser, ActiveUser
    <3> QED BY <2>2, <3>1 DEF SpaceNext, UserNext
  <2>6. CASE ~ ActiveUser(u)
    <3>1. user' = user BY <2>2, <2>3, <2>4, <2>6 DEF ActiveUser
    <3> QED BY <2>3, <3>1 DEF spaceVars
  <2> QED BY <2>5, <2>6
<1>8. CASE DeleteSpaceRows(t)
  <2>1. At(t, "deleteSpace") BY <1>8 DEF DeleteSpaceRows
  <2>2. s \in Space /\ a \in User /\ ActiveAdmin(s, a) BY <2>1, KnownAtWrite
  <2>3. DeleteSpace(a, s) \/ UNCHANGED spaceVars
    BY <1>8, <2>2 DEF DeleteSpaceRows, Commit, DeleteSpace, AuthorizeSpaceAdmin, spaceVars
  <2> HIDE DEF s, a
  <2> QED BY <2>2, <2>3 DEF SpaceNext
<1>9. CASE DeleteUserRows(t)
  <2>1. At(t, "deleteUser") BY <1>9 DEF DeleteUserRows
  <2>2. u \in User /\ user[u] # "absent" /\ \A x \in Space : member[x][u].status # "ACTIVE"
    BY <2>1, KnownAtWrite
  <2>3. /\ spaces' = spaces /\ user' = [user EXCEPT ![u] = "absent"]
        /\ member' = [x \in Space |-> [member[x] EXCEPT ![u] =
                                        IF member[x][u].status = "INVITED" THEN NoRow ELSE member[x][u]]]
    BY <1>9 DEF DeleteUserRows, Commit
  <2> HIDE DEF u
  <2>4. \A x \in Space : /\ (IF member[x][u].status = "INVITED" THEN NoRow ELSE member[x][u]) = NoRow
                         /\ member[x][u].status \in {"none", "INVITED"}
    BY <2>2 DEF PgInv, SpaceTypeOK, MemberRow, NoRow
  <2>5. member' = [x \in Space |-> [member[x] EXCEPT ![u] = NoRow]] BY <2>3, <2>4
  <2>6. DeleteUser(u) BY <2>2, <2>3, <2>4, <2>5 DEF DeleteUser
  <2> QED BY <2>2, <2>6 DEF SpaceNext, UserNext
<1> QED BY <1>1, <1>2, <1>3, <1>4, <1>5, <1>6, <1>7, <1>8, <1>9

\* Registering or restoring a user takes nothing away that was read, because the
\* administrators only become more.
LEMMA KnowsMore ==
  ASSUME PgInv, SerialInv, NEW w \in User, user[w] # "NORMAL", NEW t \in Tx,
         user' = [user EXCEPT ![w] = "NORMAL"], UNCHANGED <<spaces, member>>
  PROVE  Knows(tx[t], user', spaces', member')
<1> DEFINE q == tx[t]
<1>1. q \in TxRow /\ Sound(user, spaces, member, q) /\ Knows(q, user, spaces, member)
  BY DEF PgInv, TxInv, SerialInv, Informed
<1>2. \A v \in User : user'[v] = IF v = w THEN "NORMAL" ELSE user[v] BY DEF PgInv, SpaceTypeOK
<1>3. \A x \in Space, v \in User : AdminIn(user, member, x, v) => AdminIn(user', member', x, v)
  BY <1>2 DEF AdminIn
<1>4. \A x \in Space : TwoIn(user, member, x) => TwoIn(user', member', x) BY <1>3 DEF TwoIn
\* In every Space the user has a row in, somebody else is an administrator.
<1>5. ASSUME NEW x \in Space, member[x][w] = Row("ACTIVE", "ADMIN")
      PROVE  \E v \in User : v # w /\ AdminIn(user', member', x, v)
  <2>1. x \in spaces BY <1>5 DEF PgInv, NoOrphanMember, Row, NoRow
  <2>2. PICK v \in User : ActiveAdmin(x, v) BY <2>1 DEF SerialInv, ActiveAdminRetained, ActiveAdmins
  <2>3. v # w BY <2>2 DEF ActiveAdmin, ActiveUser
  <2> QED BY <1>3, <2>2, <2>3, AdminsAgree
<1>6. \A x \in Space, v \in User : SpareIn(user, member, x, v) => SpareIn(user', member', x, v)
  <2> SUFFICES ASSUME NEW x \in Space, NEW v \in User, SpareIn(user, member, x, v),
                      AdminIn(user', member', x, v)
               PROVE  TwoIn(user', member', x)
    BY DEF SpareIn
  <2>1. CASE v = w BY <1>5, <2>1 DEF AdminIn, TwoIn
  <2>2. CASE v # w BY <1>2, <1>4, <2>2 DEF AdminIn, SpareIn
  <2> QED BY <2>1, <2>2
<1>7. \A v \in User : (user[v] = "NORMAL" => ReplaceableIn(user, member, v)) =>
                        (user'[v] = "NORMAL" => ReplaceableIn(user', member', v))
  <2> SUFFICES ASSUME NEW v \in User, user[v] = "NORMAL" => ReplaceableIn(user, member, v),
                      user'[v] = "NORMAL", NEW x \in Space, member[x][v] = Row("ACTIVE", "ADMIN")
               PROVE  \E o \in User : o # v /\ AdminIn(user', member', x, o)
    BY DEF ReplaceableIn
  <2>1. CASE v = w BY <1>5, <2>1
  <2>2. CASE v # w BY <1>2, <1>3, <2>2 DEF ReplaceableIn
  <2> QED BY <2>1, <2>2
<1>8. q.todo # <<>> => q.actor \in User /\ q.target \in User BY <1>1 DEF Sound, Arguments
<1>9. q.todo \notin AccountTodo \cup {<<>>} => q.space \in Space BY <1>1 DEF Sound, Arguments
<1> HIDE DEF q
<1>10. \A v \in User : user[v] = "NORMAL" => user'[v] = "NORMAL" BY <1>2
<1>11. KnowsUpdate(q, user', spaces', member')
  <2>1. q.todo \in GrantedTodo \cup {<<"deleteInvited">>} =>
          q.space \in Space /\ q.actor \in User /\ q.target \in User
    BY <1>8, <1>9 DEF GrantedTodo, AccountTodo
  <2>2. UpdatingTodo \subseteq GrantedTodo BY DEF UpdatingTodo, GrantedTodo
  <2>3. <<"updateRole">> \in GrantedTodo BY DEF GrantedTodo
  <2> QED BY <1>1, <1>3, <1>4, <1>10, <2>1, <2>2, <2>3 DEF Knows, KnowsUpdate
<1>12. KnowsRemoval(q, user', spaces', member')
  <2>1. q.todo \in RemovingTodo \cup {<<"deleteActive">>} =>
          q.space \in Space /\ q.actor \in User /\ q.target \in User
    BY <1>8, <1>9 DEF RemovingTodo, LeavingTodo, AccountTodo
  <2> QED BY <1>1, <1>6, <1>10, <2>1 DEF Knows, KnowsRemoval
<1>13. KnowsOther(q, user', member')
  <2>1. q.todo \in DissolvingTodo \cup {<<"archive">>} => q.actor \in User /\ q.target \in User
    BY <1>8 DEF DissolvingTodo
  <2> QED BY <1>1, <1>7, <1>10, <2>1 DEF Knows, KnowsOther
<1> QED BY <1>11, <1>12, <1>13 DEF Knows, q

-----------------------------------------------------------------------------
LEMMA SerialInitial == PgInit => SerialInv
<1> SUFFICES ASSUME PgInit PROVE SerialInv OBVIOUS
<1>1. ActiveAdminRetained BY SpaceInitInv DEF PgInit, SpaceInv
<1>2. Informed BY IdleKnows DEF PgInit, Informed
<1> QED BY <1>1, <1>2 DEF SerialInv

LEMMA SerialUnmoved ==
  ASSUME SerialInv, UNCHANGED <<spaceVars, tx>>
  PROVE  SerialInv'
<1>1. UNCHANGED <<user, spaces, member, tx>> BY DEF spaceVars
<1>2. Informed' BY <1>1 DEF SerialInv, Informed
<1>3. ActiveAdminRetained'
  BY <1>1 DEF SerialInv, ActiveAdminRetained, ActiveAdmins, ActiveAdmin, ActiveUser
<1> QED BY <1>2, <1>3 DEF SerialInv

\* Every step is a step of the serialized tables or leaves them alone.
LEMMA SerialStep ==
  ASSUME NoOverlap, NoOverlap', PgInv, SerialInv, PgNext
  PROVE  SerialInv' /\ (SpaceNext \/ UNCHANGED spaceVars)
<1>1. SpaceInv BY DEF PgInv, SerialInv, SpaceInv
<1>2. ASSUME NEW w \in User, Register(w) \/ Restore(w)
      PROVE  SerialInv' /\ SpaceNext
  <2>1. CreateUser(w) \/ RestoreUser(w) BY <1>2 DEF Register, Restore
  <2>2. SpaceNext BY <2>1 DEF SpaceNext, UserNext
  <2>3. ActiveAdminRetained' BY <1>1, <2>2, SpaceInvInductive DEF SpaceInv
  <2>4. /\ user[w] # "NORMAL" /\ user' = [user EXCEPT ![w] = "NORMAL"] /\ UNCHANGED <<spaces, member>>
        /\ tx' = tx
    BY <1>2, <2>1 DEF CreateUser, RestoreUser, Register, Restore
  <2>5. \A t \in Tx : Knows(tx[t], user', spaces', member') BY <2>4, KnowsMore
  <2> QED BY <2>2, <2>3, <2>4, <2>5 DEF SerialInv, Informed
<1>3. ASSUME NEW t \in Tx, NEW u \in User,
             \/ BeginUserTx(t, u)
             \/ \E s \in Space : BeginSpaceTx(t, s, u) \/ BeginInvitationTx(t, s, u) \/ BeginMembershipTx(t, s, u)
      PROVE  SerialInv' /\ UNCHANGED spaceVars
  BY <1>3, SerialBegins DEF BeginUserTx, BeginSpaceTx, BeginInvitationTx, BeginMembershipTx, Begin
<1>4. ASSUME NEW t \in Tx, Step(t) \/ Abort(t) PROVE SerialInv' /\ (SpaceNext \/ UNCHANGED spaceVars)
  <2>0. tx \in [Tx -> TxRow] BY DEF PgInv, TxInv
  <2>1. CASE \/ Authorize(t) \/ RequireActiveUser(t) \/ CountMemberships(t) \/ ReadStatuses(t)
             \/ AuthorizeRemoval(t) \/ ReadMember(t) \/ CountAdmins(t) \/ ValidateArchive(t)
             \/ ReadActorStatus(t) \/ ReadActorRole(t)
    <3>1. UNCHANGED spaceVars
      BY <2>1 DEF Authorize, RequireActiveUser, CountMemberships, ReadStatuses, AuthorizeRemoval,
                  ReadMember, CountAdmins, ValidateArchive, ReadActorStatus, ReadActorRole, Check
    <3> QED BY <2>1, <3>1, SerialReads
  <2>2. CASE LockActiveUser(t) \/ LockSpace(t) \/ LockUser(t)
    <3>1. UNCHANGED spaceVars BY <2>2 DEF LockActiveUser, LockSpace, LockUser, Lock
    <3> QED BY <2>2, <3>1, SerialLocks
  <2>3. CASE Abort(t) BY <2>0, <2>3, IdleKnows, QuietStep DEF Abort, End
  <2>4. CASE \/ InsertSpace(t) \/ InsertInvitation(t) \/ Activate(t) \/ DeleteInvited(t)
             \/ UpdateRole(t) \/ DeleteActive(t) \/ Archive(t) \/ DeleteSpaceRows(t) \/ DeleteUserRows(t)
    <3>1. SpaceNext \/ UNCHANGED spaceVars BY <2>4, SerialWrites
    <3>2. ActiveAdminRetained' BY <1>1, <3>1, SpaceInvInductive DEF SpaceInv
    <3>3. tx' = [tx EXCEPT ![t] = Idle]
      BY <2>4 DEF InsertSpace, InsertInvitation, Activate, DeleteInvited, UpdateRole, DeleteActive,
                  Archive, DeleteSpaceRows, DeleteUserRows, Commit, End
    <3>4. Running(t)
      BY <2>4 DEF InsertSpace, InsertInvitation, Activate, DeleteInvited, UpdateRole, DeleteActive,
                  Archive, DeleteSpaceRows, DeleteUserRows, At
    <3>5. Informed' BY <2>0, <3>3, <3>4, IdleKnows, Others, Alone
    <3> QED BY <3>1, <3>2, <3>5 DEF SerialInv
  <2>5. CASE DeleteMemberRow(t) \/ DeleteDependentRow(t)
    BY <2>5, SerialUnmoved DEF DeleteMemberRow, DeleteDependentRow, DeleteRow
  <2> QED BY <1>4, <2>1, <2>2, <2>3, <2>4, <2>5 DEF Step
<1> QED BY <1>2, <1>3, <1>4 DEF PgNext

\* Where no two transactions overlap, whatever the number of connections, those of
\* the PostgreSQL driver implement the atomic ones of module Spaces, statement by
\* statement and with users registered and restored in between: the two drivers
\* decide alike, and everything proved of the serialized tables holds of these.
THEOREM PgSerialImplementsSpaces == PgSafety /\ []NoOverlap => PgSerialized
<1>1. PgInit => SpaceInit BY DEF PgInit
<1>2. NoOverlap /\ NoOverlap' /\ PgInv /\ SerialInv /\ [PgNext]_pgVars => SerialInv' /\ [SpaceNext]_spaceVars
  <2>1. ASSUME SerialInv, UNCHANGED pgVars PROVE SerialInv' /\ UNCHANGED spaceVars
    BY <2>1, SerialUnmoved DEF pgVars, spaceVars
  <2> QED BY <2>1, SerialStep
<1>3. PgInv /\ [PgNext]_pgVars => PgInv' BY PgInductive
<1> QED BY PgInitial, SerialInitial, <1>1, <1>2, <1>3, PTL DEF PgSafety, PgSerialized, SpaceSpec

\* In particular only transactions that overlap can leave a Space without an active
\* ADMIN: the checks of the PostgreSQL driver are the right ones, and what fails when
\* two demotions run at once (the administrator count takes no lock) is nothing else.
THEOREM PgSerialKeepsActiveAdmin == PgSafety /\ []NoOverlap => []PgActiveAdminRetained
BY PgSerialImplementsSpaces, SpaceKeepsActiveAdmin, PTL DEF PgSerialized, PgActiveAdminRetained
=============================================================================
