------------------------------ MODULE Sessions ------------------------------
(***************************************************************************)
(* The sessions of an account: refresh tokens that are added by a sign-in, *)
(* rotated by RefreshToken and removed by SignOut, while administrators    *)
(* archive and restore the account.  Each server process keeps the row of  *)
(* the user and the list of the tokens in caches that expire by age only;  *)
(* a process knows of no write of another.  One account is enough: caches  *)
(* are keyed by account.                                                   *)
(*                                                                         *)
(* The list is read through the cache, changed, and written back whole,    *)
(* under the process's refreshTokenMu; the check of a token reads it       *)
(* without the lock.  Each statement on the database and each access to a  *)
(* cache is a step of its own.                                             *)
(***************************************************************************)
EXTENDS Naturals, FiniteSets

CONSTANTS Process,  \* server processes
          Call,     \* concurrent calls
          Token,    \* refresh token IDs (a bound on how many are issued)
          Ttl,      \* age at which a cache entry expires
          MaxUpdates, \* bound on the changes of the account's state, for TLC
          None

ASSUME SessionsAssumption == Ttl \in Nat \ {0} /\ MaxUpdates \in Nat /\ None \notin {"NORMAL", "ARCHIVED"}

VARIABLES status,     \* the state of the user row
          stored,     \* the tokens of the user_setting row, None before there is one
          userCache,  \* userCache[p]: the cached state of the user and its age
          listCache,  \* listCache[p]: the cached list of tokens and its age
          call,       \* call[c]: a call in progress
          issued,     \* tokens clients may present
          updates     \* number of changes of state

sessionVars == <<status, stored, userCache, listCache, call, issued, updates>>

Idle == [st |-> "idle", kind |-> None, proc |-> None, mode |-> None, token |-> None,
         new |-> None, list |-> {}, status |-> None]
NotCached == [value |-> None, age |-> 0]
Entry(v) == [value |-> v, age |-> 0]

\* A refresh token has a new random ID: which of the unused ones does not matter.
Fresh ==
  LET unused == Token \ (issued \cup {call[c].new : c \in Call})
  IN IF unused = {} THEN {} ELSE {CHOOSE t \in unused : TRUE}

SameStore == UNCHANGED <<status, stored, updates>>
SameCaches == UNCHANGED <<userCache, listCache>>

Start(c, op) ==
  /\ call[c].st = "idle"
  /\ call' = [call EXCEPT ![c] = op]
  /\ SameStore /\ SameCaches /\ UNCHANGED issued

\* The token a call was to issue reaches the client.
Return(c) ==
  /\ call' = [call EXCEPT ![c] = Idle]
  /\ issued' = issued \cup ({call[c].new} \ {None})

-----------------------------------------------------------------------------
(* The calls.  A sign-in has been decided (Accounts); doSignIn adds a token*)

SignIn(c, p, t) ==
  /\ t \in Fresh
  /\ Start(c, [Idle EXCEPT !.st = "lock", !.kind = "signIn", !.proc = p, !.mode = "add", !.new = t])

RefreshToken(c, p, old, t) ==
  /\ old \in issued /\ t \in Fresh
  /\ Start(c, [Idle EXCEPT !.st = "check", !.kind = "refresh", !.proc = p, !.mode = "check",
                           !.token = old, !.new = t])

\* AuthenticateToUser with an access token, which is checked by its signature
\* alone: the user is loaded.  (With the cookie, it takes the steps a refresh
\* takes up to the user.)
Authenticate(c, p) ==
  /\ issued # {}
  /\ Start(c, [Idle EXCEPT !.st = "load", !.kind = "bearer", !.proc = p])

SignOut(c, p, old) ==
  /\ old \in issued
  /\ Start(c, [Idle EXCEPT !.st = "lock", !.kind = "signOut", !.proc = p, !.mode = "remove", !.token = old])

-----------------------------------------------------------------------------
(* The list of tokens: GetUserRefreshTokens and the changes.               *)

\* What a call does with the list.  AuthenticateByRefreshToken takes a token
\* that is not listed for revoked.
WithList(op, list) ==
  IF op.mode # "check" THEN [op EXCEPT !.st = "have", !.list = list]
  ELSE IF op.token \in list THEN [op EXCEPT !.st = "load", !.list = {}] ELSE Idle

\* GetUserSetting: from the cache, or from the database and then cached.  No
\* row is no tokens, and leaves nothing in the cache.
GetList(c) ==
  LET entry == listCache[call[c].proc].value
  IN call' = [call EXCEPT ![c] =
       IF entry # None THEN WithList(call[c], entry)
       ELSE IF stored = None THEN WithList(call[c], {})
       ELSE [call[c] EXCEPT !.st = "fill", !.list = stored]]

\* The check reads the list without the lock.
CheckToken(c) ==
  /\ call[c].st = "check"
  /\ GetList(c)
  /\ SameStore /\ SameCaches /\ UNCHANGED issued

\* A change holds refreshTokenMu of the process from here to its end.
Change(c) ==
  /\ call[c].st = "lock"
  /\ \A d \in Call : call[d].proc = call[c].proc /\ call[d].mode \in {"add", "remove"}
       => call[d].st = "lock"
  /\ GetList(c)
  /\ SameStore /\ SameCaches /\ UNCHANGED issued

FillList(c) ==
  /\ call[c].st = "fill"
  /\ listCache' = [listCache EXCEPT ![call[c].proc] = Entry(call[c].list)]
  /\ call' = [call EXCEPT ![c] = WithList(call[c], call[c].list)]
  /\ SameStore /\ UNCHANGED <<userCache, issued>>

\* (a plausible slip) a rotation writes the old token too, to note when it was used
WriteListWithOld(c) ==
  LET list == IF call[c].mode = "add" THEN call[c].list \cup ({call[c].new, call[c].token} \ {None})
              ELSE call[c].list \ {call[c].token}
  IN /\ call[c].st = "have"
     /\ stored' = list
     /\ call' = [call EXCEPT ![c].list = list, ![c].st = "cache"]
     /\ SameCaches /\ UNCHANGED <<status, issued, updates>>

\* AddUserRefreshToken, RemoveUserRefreshToken: UpsertUserSetting writes, then caches.
WriteList(c) ==
  LET list == IF call[c].mode = "add" THEN call[c].list \cup {call[c].new}
              ELSE call[c].list \ {call[c].token}
  IN /\ call[c].st = "have"
     /\ stored' = list
     /\ call' = [call EXCEPT ![c].list = list, ![c].st = "cache"]
     /\ SameCaches /\ UNCHANGED <<status, issued, updates>>

\* A rotation goes on to remove the old token.
CacheList(c) ==
  /\ call[c].st = "cache"
  /\ listCache' = [listCache EXCEPT ![call[c].proc] = Entry(call[c].list)]
  /\ IF call[c].kind = "refresh" /\ call[c].mode = "add"
     THEN /\ call' = [call EXCEPT ![c].st = "lock", ![c].mode = "remove", ![c].list = {}]
          /\ UNCHANGED issued
     ELSE Return(c)
  /\ SameStore /\ UNCHANGED userCache

\* The write fails.  A rotation that could not add its token fails; a sign-in,
\* a sign-out and a rotation that could not remove the old one go on.
WriteFails(c) ==
  /\ call[c].st = "have"
  /\ IF call[c].kind = "refresh" /\ call[c].mode = "add"
     THEN call' = [call EXCEPT ![c] = Idle] /\ UNCHANGED issued
     ELSE Return(c)
  /\ SameStore /\ SameCaches

-----------------------------------------------------------------------------
(* The user row: GetUser by ID, and UpdateUser.                            *)

\* An archived user is refused; otherwise a refresh goes on to add the new token.
Admitted(op, state) == IF state = "NORMAL" /\ op.kind = "refresh" THEN [op EXCEPT !.st = "lock", !.mode = "add", !.status = None]
                       ELSE Idle

\* (a plausible slip) a hit is put back into the cache
LoadUserRenewing(c) ==
  LET entry == userCache[call[c].proc].value
  IN /\ call[c].st = "load"
     /\ call' = [call EXCEPT ![c].st = "fillUser", ![c].status = IF entry # None THEN entry ELSE status]
     /\ SameStore /\ SameCaches /\ UNCHANGED issued

\* A hit is returned as it is; its age goes on.
LoadUser(c) ==
  LET entry == userCache[call[c].proc].value
  IN /\ call[c].st = "load"
     /\ call' = [call EXCEPT ![c] = IF entry # None THEN Admitted(call[c], entry)
                                    ELSE [call[c] EXCEPT !.st = "fillUser", !.status = status]]
     /\ SameStore /\ SameCaches /\ UNCHANGED issued

\* After a miss, and after an UpdateUser.
FillUser(c) ==
  /\ call[c].st = "fillUser"
  /\ userCache' = [userCache EXCEPT ![call[c].proc] = Entry(call[c].status)]
  /\ call' = [call EXCEPT ![c] = Admitted(call[c], call[c].status)]
  /\ SameStore /\ UNCHANGED <<listCache, issued>>

\* UpdateUser with a new state: the row, and then the cache of this process.
UpdateUser(c, p, s) ==
  /\ call[c].st = "idle" /\ s # status /\ updates < MaxUpdates
  /\ updates' = updates + 1
  /\ status' = s
  /\ call' = [call EXCEPT ![c] = [Idle EXCEPT !.st = "fillUser", !.kind = "update", !.proc = p, !.status = s]]
  /\ SameCaches /\ UNCHANGED <<stored, issued>>

-----------------------------------------------------------------------------
\* (a plausible slip) the expiration is not compared
AgedNever(entry) == entry

\* Cache.Get and cleanup: an entry is gone once its expiration has passed.
Aged(entry) == IF entry.value = None \/ entry.age + 1 >= Ttl THEN NotCached
               ELSE [entry EXCEPT !.age = entry.age + 1]

Tick ==
  /\ userCache' = [p \in Process |-> Aged(userCache[p])]
  /\ listCache' = [p \in Process |-> Aged(listCache[p])]
  /\ SameStore /\ UNCHANGED <<call, issued>>

SessionsInit ==
  /\ status = "NORMAL" /\ stored = None
  /\ userCache = [p \in Process |-> NotCached] /\ listCache = [p \in Process |-> NotCached]
  /\ call = [c \in Call |-> Idle]
  /\ issued = {} /\ updates = 0

Progress(c) ==
  \/ CheckToken(c) \/ LoadUser(c) \/ FillUser(c)
  \/ Change(c) \/ FillList(c) \/ WriteList(c) \/ CacheList(c)

SessionsNext ==
  \/ \E c \in Call, p \in Process :
       \/ Authenticate(c, p)
       \/ \E t \in Token : SignIn(c, p, t) \/ SignOut(c, p, t)
       \/ \E t, n \in Token : RefreshToken(c, p, t, n)
       \/ \E s \in {"NORMAL", "ARCHIVED"} : UpdateUser(c, p, s)
  \/ \E c \in Call : Progress(c) \/ WriteFails(c)
  \/ Tick

SessionsSafety == SessionsInit /\ [][SessionsNext]_sessionVars

\* Time does not stop, and a call that has begun runs to its end.
SessionsSpec == /\ SessionsSafety
                /\ WF_sessionVars(Tick)
                /\ \A c \in Call : SF_sessionVars(Progress(c))

-----------------------------------------------------------------------------
(* Properties.                                                             *)

\* What a process that is asked now says of the user, and of a token.
Admits(p) == userCache[p].value = "NORMAL" \/ (userCache[p].value = None /\ status = "NORMAL")

Row == IF stored = None THEN {} ELSE stored
Lists(p, t) == listCache[p].value # None /\ t \in listCache[p].value

\* A user who stays archived is in the end refused by every process, also by
\* one that had him in its cache or was just reading him (GetUser, ListUsers).
ArchivedRefused ==
  <>[](status = "ARCHIVED") => \A p \in Process : <>[](~Admits(p))

\* A token that is out of the database for good is in the end not accepted by
\* any process, whatever list it had cached or was about to cache.
RevokedRefused ==
  \A t \in Token : <>[](t \notin Row) => \A p \in Process : <>[](~Lists(p, t))

\* Nobody has token t any more: it is in no list, stored, cached or in hand.
Forgotten(t) ==
  /\ t \notin Row
  /\ \A p \in Process : ~ Lists(p, t)
  /\ \A c \in Call : t \notin call[c].list

\* A token that was issued and that nobody has any more is revoked for good: only
\* a list that is still cached or in hand can bring one back, never a rotation of
\* it that passed the check before, nor a call that fails half way.
RevocationFinal == [][\A t \in issued : Forgotten(t) => Forgotten(t)']_sessionVars

\* Nobody takes the user to be in state s.
Unheard(s) ==
  /\ \A p \in Process : userCache[p].value # s
  /\ \A c \in Call : call[c].status # s

\* Once the user is archived and no cache and no call says otherwise, none does
\* until he is restored, whatever expires and is read again.
ArchivalFinal ==
  [][status = "ARCHIVED" /\ Unheard("NORMAL") => status' # "ARCHIVED" \/ Unheard("NORMAL")']_sessionVars

\* A credential that every process refuses stays refused: neither a revoked token
\* nor an archived user comes back through a cache that is filled again.
RefusalFinal == RevocationFinal /\ ArchivalFinal
=============================================================================
