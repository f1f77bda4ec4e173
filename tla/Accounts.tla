------------------------------ MODULE Accounts ------------------------------
(***************************************************************************)
(* Accounts and the ways to get one: registration, the setup of the first  *)
(* administrator, single sign-on (resolveSSOUser, createSSOUser), and the  *)
(* linking and unlinking of external identities.  Calls run on several     *)
(* server processes; each statement or transaction on the database is one  *)
(* step, and between two steps of a call anything may happen.              *)
(*                                                                         *)
(* A username is the subject of an identity or an opaque UUID, told apart  *)
(* by the account that has it.  GetUser by ID goes through the process's   *)
(* user cache and may return a row that has since been archived or deleted.*)
(* Whether registration is open is fixed during a behaviour.               *)
(***************************************************************************)
EXTENDS Naturals, FiniteSets

CONSTANTS Process,   \* server processes
          Call,      \* concurrent calls
          Provider,  \* identity providers
          Subject,   \* subjects the providers attest
          Username,  \* valid usernames, of which some are subjects
          Fallbacks, \* ssoUsernameFallbackAttempts
          MaxUsers,  \* bound on the accounts ever created, for TLC
          None

Kind == {"sso", "bind", "unlink", "admin", "register"}

ASSUME AccountsAssumption ==
  /\ None \notin Subject \cup Username \cup Kind
  /\ None \notin [provider : Provider, subject : Subject]
  /\ Fallbacks \in Nat \ {0} /\ MaxUsers \in Nat

VARIABLES user,      \* user[i]: the row of an account, or None
          links,     \* the rows of user_identity
          call,      \* call[c]: a call in progress
          open,      \* is registration allowed?
          next,      \* the user sequence
          born       \* born[i]: how an account was created, and by which process

accountVars == <<user, links, call, open, next, born>>

Account == 1..MaxUsers
Idle == [st |-> "idle", kind |-> None, proc |-> None, provider |-> None, subject |-> None,
         user |-> 0, name |-> None, attempt |-> 0]
Existing == {i \in Account : user[i] # None}
\* Callers are taken by their row, not by a copy in a user cache.
ByAdmin == \E i \in Existing : user[i].role = "ADMIN" /\ user[i].status = "NORMAL"
BySelfOrAdmin(i) == i \in Existing /\ (user[i].status = "NORMAL" \/ ByAdmin)
Taken(name) == \E i \in Existing : user[i].name = name

\* ListUserIdentities by identity, and by account and provider.
Linked(p, s) == {row \in links : row.provider = p /\ row.subject = s}
LinkedOf(u, p) == {row \in links : row.user = u /\ row.provider = p}

\* The two UNIQUE constraints of user_identity.
LinkConflict(row) == Linked(row.provider, row.subject) \cup LinkedOf(row.user, row.provider) # {}

Insert(row, how) ==
  /\ next <= MaxUsers
  /\ user' = [user EXCEPT ![next] = row]
  /\ born' = [born EXCEPT ![next] = how]
  /\ next' = next + 1

Goto(c, st) == call' = [call EXCEPT ![c].st = st]
Return(c) == call' = [call EXCEPT ![c] = Idle]
SameAccounts == UNCHANGED <<user, next, born>>
SameRows == SameAccounts /\ UNCHANGED <<links, open>>

\* A statement fails, or the client is gone: the call ends with an error.
Fail(c) == call[c].st # "idle" /\ Return(c) /\ SameRows

Start(c, op) == /\ call[c].st = "idle" /\ call' = [call EXCEPT ![c] = op] /\ SameRows

-----------------------------------------------------------------------------
(* SignIn with SSO credentials: resolveSSOUser without a current user.     *)

SignInSSO(c, p, s) ==
  Start(c, [Idle EXCEPT !.st = "lookup", !.kind = "sso", !.provider = p, !.subject = s])

\* getLinkedSSOUser reads the linkage; then it loads the account.
GetLinkage(c, miss) ==
  LET found == Linked(call[c].provider, call[c].subject)
  IN /\ \/ found = {} /\ Goto(c, miss)
        \/ \E row \in found : call' = [call EXCEPT ![c].st = "load", ![c].user = row.user,
                                                   ![c].attempt = 0]
     /\ SameRows

Lookup(c) == call[c].st = "lookup" /\ GetLinkage(c, "gate")

\* GetUser: the row, or the active row it was, from the cache.  A missing account
\* is an error; an archived one is refused by SignIn.
LoadUser(c) ==
  /\ call[c].st = "load" /\ call[c].kind = "sso"
  /\ \/ Goto(c, "signedIn")
     \/ /\ call[c].user \in Existing => user[call[c].user].status = "ARCHIVED"
        /\ Return(c)
  /\ SameRows

\* doSignIn is modelled by Sessions; here the call ends.
Answer(c) == call[c].st = "signedIn" /\ Return(c) /\ SameRows

\* The registration gate.
SSOGate(c) ==
  /\ call[c].st = "gate" /\ call[c].kind = "sso"
  /\ IF open THEN call' = [call EXCEPT ![c].st = "insert",
                                       ![c].attempt = IF call[c].subject \in Username THEN 0 ELSE 1]
     ELSE Return(c)
  /\ SameRows

\* (a plausible slip) the identity is linked to the account that has the name
CreateSSOUserTakingOver(c) ==
  LET op == call[c]
      name == IF op.attempt = 0 THEN op.subject ELSE <<"uuid", next>>
  IN /\ op.st = "insert"
     /\ IF Linked(op.provider, op.subject) # {} THEN Goto(c, "reread") /\ SameRows
        ELSE \E i \in Account :
             /\ IF Taken(name) THEN user[i] # None /\ user[i].name = name /\ SameAccounts
                ELSE i = next /\ Insert([name |-> name, role |-> "USER", status |-> "NORMAL"],
                                       [how |-> "sso", proc |-> None])
             /\ links' = links \cup {[user |-> i, provider |-> op.provider, subject |-> op.subject]}
             /\ call' = [call EXCEPT ![c].st = "signedIn", ![c].user = i]
             /\ UNCHANGED open

\* CreateUserWithIdentity: the account and its linkage in one transaction.  Attempt
\* 0 is the subject as username, the others are fresh UUIDs.
CreateSSOUser(c) ==
  LET op == call[c]
      name == IF op.attempt = 0 THEN op.subject ELSE <<"uuid", next>>
      conflict == Taken(name) \/ Linked(op.provider, op.subject) # {}
  IN /\ op.st = "insert"
     /\ IF conflict THEN Goto(c, "reread") /\ SameRows
        ELSE /\ Insert([name |-> name, role |-> "USER", status |-> "NORMAL"], [how |-> "sso", proc |-> None])
             /\ links' = links \cup {[user |-> next, provider |-> op.provider, subject |-> op.subject]}
             /\ call' = [call EXCEPT ![c].st = "signedIn", ![c].user = next, ![c].attempt = 0]
             /\ UNCHANGED open

\* (a plausible slip) the winner of the race is looked up by its username
RereadByName(c) ==
  /\ call[c].st = "reread"
  /\ \E i \in Existing : /\ user[i].name = call[c].subject
                         /\ call' = [call EXCEPT ![c].st = "load", ![c].user = i]
  /\ SameRows

\* Reconciled to the winner of a race, or tried again under another name.
Reread(c) == call[c].st = "reread" /\ GetLinkage(c, "retry")

RetryName(c) ==
  /\ call[c].st = "retry"
  /\ IF call[c].attempt < Fallbacks
       THEN call' = [call EXCEPT ![c].st = "insert", ![c].attempt = call[c].attempt + 1]
       ELSE Return(c)
  /\ SameRows

-----------------------------------------------------------------------------
(* Linking and unlinking: CreateLinkedIdentity, DeleteLinkedIdentity.      *)

CreateLinkedIdentity(c, u, p, s) ==
  /\ u \in Existing /\ user[u].status = "NORMAL"
  /\ Start(c, [Idle EXCEPT !.st = "existing", !.kind = "bind", !.provider = p, !.subject = s, !.user = u])

\* bindSSOIdentityToUser: an identity of the provider the account has already
\* ends the call, whether it is this one or another.
CheckExisting(c) ==
  /\ call[c].st = "existing"
  /\ IF LinkedOf(call[c].user, call[c].provider) = {} THEN Goto(c, "bind") ELSE Return(c)
  /\ SameRows

\* CreateUserIdentity; a conflict is read again and reported.
BindIdentity(c) ==
  LET row == [user |-> call[c].user, provider |-> call[c].provider, subject |-> call[c].subject]
  IN /\ call[c].st = "bind"
     /\ links' = IF LinkConflict(row) THEN links ELSE links \cup {row}
     /\ Return(c)
     /\ SameAccounts /\ UNCHANGED open

DeleteLinkedIdentity(c, u, p) ==
  /\ BySelfOrAdmin(u) /\ LinkedOf(u, p) # {}
  /\ Start(c, [Idle EXCEPT !.st = "unlink", !.kind = "unlink", !.provider = p, !.user = u])

\* Deletes by account and provider, whichever identity that is by now.
UnlinkIdentity(c) ==
  /\ call[c].st = "unlink"
  /\ links' = links \ LinkedOf(call[c].user, call[c].provider)
  /\ Return(c)
  /\ SameAccounts /\ UNCHANGED open

-----------------------------------------------------------------------------
(* CreateUser: an administrator creates any account; anybody else sets up  *)
(* the first one or registers.                                             *)

CreateUser(c, p, name) ==
  \/ /\ ByAdmin
     /\ Start(c, [Idle EXCEPT !.st = "create", !.kind = "admin", !.name = name])
  \/ /\ Existing = {}
     /\ Start(c, [Idle EXCEPT !.st = "setupLock", !.kind = "register", !.proc = p, !.name = name])
  \/ /\ Existing # {}
     /\ Start(c, [Idle EXCEPT !.st = "gate", !.kind = "register", !.name = name])

\* (a plausible slip) the count and the insertion are not under the lock
SetupUnlocked(c) ==
  /\ call[c].st = "setupLock"
  /\ Goto(c, IF Existing = {} THEN "setup" ELSE "gate")
  /\ SameRows

\* (a plausible slip) who loses the setup is registered without the gate
SetupLockUngated(c) ==
  /\ call[c].st = "setupLock"
  /\ \A d \in Call : ~(call[d].st = "setup" /\ call[d].proc = call[c].proc)
  /\ Goto(c, IF Existing = {} THEN "setup" ELSE "create")
  /\ SameRows

\* CreateUserIfNoUsers, under the process's userCreateMu.
SetupLock(c) ==
  /\ call[c].st = "setupLock"
  /\ \A d \in Call : ~(call[d].st = "setup" /\ call[d].proc = call[c].proc)
  /\ Goto(c, IF Existing = {} THEN "setup" ELSE "gate")
  /\ SameRows

SetupCreate(c) ==
  /\ call[c].st = "setup"
  /\ IF Taken(call[c].name) THEN SameAccounts
     ELSE Insert([name |-> call[c].name, role |-> "ADMIN", status |-> "NORMAL"],
                 [how |-> "setup", proc |-> call[c].proc])
  /\ Return(c)
  /\ UNCHANGED <<links, open>>

\* (DisallowPasswordAuth refuses as well, which is a Fail.)
RegisterGate(c) ==
  /\ call[c].st = "gate" /\ call[c].kind = "register"
  /\ IF open THEN Goto(c, "create") ELSE Return(c)
  /\ SameRows

\* An administrator chooses the role.
InsertUser(c) ==
  /\ call[c].st = "create"
  /\ IF Taken(call[c].name) THEN SameAccounts
     ELSE \E role \in {"USER"} \cup (IF call[c].kind = "admin" THEN {"ADMIN"} ELSE {}) :
            Insert([name |-> call[c].name, role |-> role, status |-> "NORMAL"],
                   [how |-> call[c].kind, proc |-> None])
  /\ Return(c)
  /\ UNCHANGED <<links, open>>

-----------------------------------------------------------------------------
(* UpdateUser and DeleteUser.                                              *)

\* A new username, or a new state by an administrator; one statement.  (New roles
\* are left out: an administrator may give the role when he creates an account.)
UpdateUser(i, row) ==
  /\ row # user[i]
  /\ ~Taken(row.name) \/ row.name = user[i].name
  /\ user' = [user EXCEPT ![i] = row]
  /\ UNCHANGED <<links, call, open, next, born>>

Rename(i, name) == BySelfOrAdmin(i) /\ UpdateUser(i, [user[i] EXCEPT !.name = name])
SetState(i, status) == i \in Existing /\ ByAdmin /\ UpdateUser(i, [user[i] EXCEPT !.status = status])

\* The account and its linkages go in one transaction.
DeleteUser(i) ==
  /\ BySelfOrAdmin(i)
  /\ user' = [user EXCEPT ![i] = None]
  /\ born' = [born EXCEPT ![i] = None]
  /\ links' = {row \in links : row.user # i}
  /\ UNCHANGED <<call, open, next>>

-----------------------------------------------------------------------------
AccountsInit ==
  /\ user = [i \in Account |-> None]
  /\ born = [i \in Account |-> None] /\ next = 1
  /\ links = {}
  /\ call = [c \in Call |-> Idle]
  /\ open \in BOOLEAN

Step(c) ==
  \/ Fail(c) \/ Lookup(c) \/ LoadUser(c) \/ Answer(c) \/ SSOGate(c) \/ CreateSSOUser(c) \/ Reread(c)
  \/ RetryName(c) \/ CheckExisting(c) \/ BindIdentity(c) \/ UnlinkIdentity(c)
  \/ SetupLock(c) \/ SetupCreate(c) \/ RegisterGate(c) \/ InsertUser(c)

AccountsNext ==
  \/ \E c \in Call : Step(c)
  \/ \E c \in Call, p \in Provider, s \in Subject :
       \/ SignInSSO(c, p, s)
       \/ \E u \in Account : CreateLinkedIdentity(c, u, p, s)
  \/ \E c \in Call, p \in Provider, u \in Account : DeleteLinkedIdentity(c, u, p)
  \/ \E c \in Call, p \in Process, n \in Username : CreateUser(c, p, n)
  \/ \E i \in Account : \/ DeleteUser(i)
                         \/ \E n \in Username : Rename(i, n)
                         \/ \E st \in {"NORMAL", "ARCHIVED"} : SetState(i, st)

AccountsSpec == AccountsInit /\ [][AccountsNext]_accountVars

-----------------------------------------------------------------------------
(* Properties.                                                             *)

\* What a call shows of the identity it presents and the account it is decided for.
AskedBy(op) == IF op.kind = "sso" THEN [provider |-> op.provider, subject |-> op.subject] ELSE None
DecidedFor(op) == IF op.kind = "sso" /\ op.user # 0 THEN op.user ELSE None
Asked == [c \in Call |-> AskedBy(call[c])]
Decided == [c \in Call |-> DecidedFor(call[c])]

\* Sign-on as Linkage states it: a login asks while its call is in progress and
\* is decided by the read that finds the linkage or the transaction that makes it.
Promise == INSTANCE Linkage WITH Login <- Call, asked <- Asked, decided <- Decided

\* A login by SSO signs in as the account that holds the identity at a moment
\* during the call, also when first logins of one subject race.
ImplementsLinkage == Promise!LinkageSpec

\* An identity is never linked to an account that existed before, unless that
\* account's own call links it: a same-named account is not taken over.
NoTakeover ==
  [][\A row \in links' \ links :
        \/ user[row.user] = None
        \/ \E c \in Call : call[c].kind = "bind" /\ call[c].user = row.user
                           /\ call[c].subject = row.subject]_accountVars

\* Concurrent first-user setups of one process make one administrator
\* (CreateUserIfNoUsers).
OneSetupPerProcess ==
  \A p \in Process : Cardinality({i \in Existing : born[i] = [how |-> "setup", proc |-> p]}) <= 1

\* While registration is closed, accounts come from a setup or an administrator,
\* also when a setup loses its race and goes on as a registration.
ClosedRegistration ==
  ~open => \A i \in Existing : born[i].how \in {"setup", "admin"}
=============================================================================
