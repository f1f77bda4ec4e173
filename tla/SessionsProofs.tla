--------------------------- MODULE SessionsProofs ---------------------------
(***************************************************************************)
(* What no interleaving of calls, caches and processes can undo: a refresh *)
(* token that nobody has any more is revoked for good, and an archived     *)
(* user of whom no cache says otherwise stays refused; for any number of   *)
(* processes, calls and tokens and any time to live of the cache entries.  *)
(***************************************************************************)
EXTENDS Sessions, TLAPS

Optional(S) == S \cup {None}

CallState ==
  [st : {"idle", "check", "lock", "fill", "have", "cache", "load", "fillUser"},
   kind : Optional({"signIn", "refresh", "bearer", "signOut", "update"}),
   proc : Optional(Process), mode : Optional({"check", "add", "remove"}),
   token : Optional(Token), new : Optional(Token), list : SUBSET Token,
   status : Optional({"NORMAL", "ARCHIVED"})]

UserEntry == [value : Optional({"NORMAL", "ARCHIVED"}), age : Nat]
ListEntry == [value : Optional(SUBSET Token), age : Nat]

SessionsTypeOK ==
  /\ status \in {"NORMAL", "ARCHIVED"}
  /\ stored \in Optional(SUBSET Token)
  /\ userCache \in [Process -> UserEntry]
  /\ listCache \in [Process -> ListEntry]
  /\ call \in [Call -> CallState]
  /\ issued \subseteq Token \ {None}

\* A call in progress has its process, and the token it is to add.
CallOK(q) ==
  q.st # "idle" =>
    /\ q.proc \in Process
    /\ q.kind = "refresh" => q.new \in Token
    /\ q.st \in {"check", "lock", "fill", "have", "cache"} /\ q.mode = "add" => q.new \in Token

CallsOK == \A c \in Call : CallOK(call[c])

\* A token that is being issued belongs to one call and has not been issued before.
NewIsNew ==
  \A c \in Call : call[c].new # None =>
    /\ call[c].new \notin issued
    /\ \A d \in Call \ {c} : call[d].new # call[c].new

\* The inductive invariant.
SessionsInv == SessionsTypeOK /\ CallsOK /\ NewIsNew

-----------------------------------------------------------------------------
LEMMA IdleTyped == Idle \in CallState /\ Idle.new = None /\ Idle.list = {} /\ Idle.status = None /\ Idle.st = "idle"
  <1>1. {} \in SUBSET Token
    OBVIOUS
  <1> QED
    BY <1>1 DEF Idle, CallState, Optional

LEMMA BlankEntries == NotCached \in UserEntry /\ NotCached \in ListEntry
  BY DEF NotCached, UserEntry, ListEntry, Optional

LEMMA SessionsInitInv == SessionsInit => SessionsInv
  <1> SUFFICES ASSUME SessionsInit PROVE SessionsInv
    OBVIOUS
  <1>1. SessionsTypeOK
    BY IdleTyped, BlankEntries DEF SessionsInit, SessionsTypeOK, Optional
  <1>2. CallsOK /\ NewIsNew
    BY IdleTyped DEF SessionsInit, CallsOK, CallOK, NewIsNew
  <1> QED
    BY <1>1, <1>2 DEF SessionsInv

\* Somebody has token t in a list, or is about to issue it.
Held(t) == ~ Forgotten(t) \/ \E c \in Call : call[c].new = t

\* What a step of call c to the state q does.  Its new token is the one it had,
\* handed out or given up, or fresh; the tokens it lists were held before; the row
\* gets its list, the caches what it had in hand; and the state of the user it
\* carries is the one it had or the one in the row.
StepOf(c, q) ==
  /\ q \in CallState /\ call' = [call EXCEPT ![c] = q]
  /\ CallOK(q)
  /\ \/ q.new = call[c].new /\ issued' = issued
     \/ q.new = None /\ issued' = issued
     \/ q.new = None /\ issued' = issued \cup ({call[c].new} \ {None})
     \/ q.new \in Fresh /\ issued' = issued
  /\ \A t \in q.list : Held(t)
  /\ stored' = stored \/ stored' = q.list
  /\ \/ listCache' = listCache
     \/ call[c].proc \in Process
        /\ listCache' = [listCache EXCEPT ![call[c].proc] = Entry(call[c].list)]
  /\ status' \in {"NORMAL", "ARCHIVED"} /\ q.status \in {None, call[c].status, status'}
  /\ \/ userCache' = userCache
     \/ call[c].proc \in Process
        /\ userCache' = [userCache EXCEPT ![call[c].proc] = Entry(call[c].status)]

-----------------------------------------------------------------------------
(* What a step of any call preserves.                                      *)

LEMMA FreshTokens == \A t \in Fresh : t \in Token \ issued /\ \A c \in Call : t # call[c].new
  <1> DEFINE unused == Token \ (issued \cup {call[c].new : c \in Call})
  <1> SUFFICES ASSUME NEW t \in Fresh
               PROVE  t \in unused
    OBVIOUS
  <1>1. unused # {} /\ t = CHOOSE u \in unused : TRUE
    BY DEF Fresh
  <1> QED
    BY <1>1

LEMMA StepInv ==
  ASSUME SessionsInv, NEW c \in Call, NEW q, StepOf(c, q)
  PROVE  SessionsInv'
  <1>0. call[c] \in CallState /\ q \in CallState
    BY DEF SessionsInv, SessionsTypeOK, StepOf
  <1>1. SessionsTypeOK'
    <2>1. stored' \in Optional(SUBSET Token)
      BY <1>0 DEF SessionsInv, SessionsTypeOK, StepOf, CallState, Optional
    <2>2. issued' \subseteq Token \ {None}
      BY <1>0 DEF SessionsInv, SessionsTypeOK, StepOf, CallState, Optional
    <2>3. Entry(call[c].list) \in ListEntry /\ Entry(call[c].status) \in UserEntry
      BY <1>0 DEF Entry, ListEntry, UserEntry, CallState, Optional
    <2>4. listCache' \in [Process -> ListEntry] /\ userCache' \in [Process -> UserEntry]
      BY <2>3 DEF SessionsInv, SessionsTypeOK, StepOf
    <2>5. call' \in [Call -> CallState] /\ status' \in {"NORMAL", "ARCHIVED"}
      BY DEF SessionsInv, SessionsTypeOK, StepOf
    <2> QED
      BY <2>1, <2>2, <2>4, <2>5 DEF SessionsTypeOK
  <1>2. call'[c] = q /\ \A d \in Call \ {c} : call'[d] = call[d]
    BY DEF SessionsInv, SessionsTypeOK, StepOf
  <1>3. CallsOK'
    BY <1>2 DEF SessionsInv, CallsOK, StepOf
  <1>4. NewIsNew'
    BY <1>2, FreshTokens DEF SessionsInv, SessionsTypeOK, NewIsNew, StepOf
  <1> QED
    BY <1>1, <1>3, <1>4 DEF SessionsInv

\* What is in a list after the step was held before it.
NothingRevived ==
  /\ \A t \in Row' : Held(t)
  /\ \A p \in Process : \A t \in Token : Lists(p, t)' => Held(t)
  /\ \A c \in Call : \A t \in call'[c].list : Held(t)

LEMMA StepRevivesNothing ==
  ASSUME SessionsInv, NEW c \in Call, NEW q, StepOf(c, q)
  PROVE  NothingRevived
  <1>0. /\ \A d \in Call : \A t \in call[d].list : Held(t)
        /\ \A t \in Row : Held(t)
        /\ \A p \in Process : \A t : Lists(p, t) => Held(t)
    BY DEF Held, Forgotten
  <1>1. \A t \in Row' : Held(t)
    BY <1>0 DEF Row, StepOf
  <1>2. \A p \in Process : \A t \in Token : Lists(p, t)' => Held(t)
    <2> SUFFICES ASSUME NEW p \in Process, NEW t \in Token, Lists(p, t)'
                 PROVE  Held(t)
      OBVIOUS
    <2>1. listCache'[p] = listCache[p] \/ listCache'[p].value = call[c].list
      BY DEF SessionsInv, SessionsTypeOK, StepOf, Entry
    <2> QED
      BY <1>0, <2>1 DEF Lists
  <1>3. \A d \in Call : \A t \in call'[d].list : Held(t)
    BY <1>0 DEF SessionsInv, SessionsTypeOK, StepOf
  <1> QED
    BY <1>1, <1>2, <1>3 DEF NothingRevived

\* Nobody is about to issue a token that was issued.
LEMMA ForgottenForGood ==
  ASSUME SessionsInv, NothingRevived
  PROVE  \A t \in issued : Forgotten(t) => Forgotten(t)'
  <1> SUFFICES ASSUME NEW t \in issued, Forgotten(t)
               PROVE  Forgotten(t)'
    OBVIOUS
  <1>1. ~ Held(t) /\ t \in Token
    BY DEF Held, SessionsInv, SessionsTypeOK, NewIsNew
  <1> QED
    BY <1>1 DEF NothingRevived, Forgotten

LEMMA StepKeepsArchival ==
  ASSUME SessionsInv, NEW c \in Call, NEW q, StepOf(c, q), status = "ARCHIVED", Unheard("NORMAL"),
         status' = "ARCHIVED"
  PROVE  Unheard("NORMAL")'
  <1>1. \A d \in Call : call'[d].status # "NORMAL"
    BY SessionsAssumption DEF SessionsInv, SessionsTypeOK, StepOf, Unheard
  <1>2. \A p \in Process : userCache'[p].value # "NORMAL"
    BY DEF SessionsInv, SessionsTypeOK, StepOf, Unheard, Entry
  <1> QED
    BY <1>1, <1>2 DEF Unheard

-----------------------------------------------------------------------------
(* Every action of a call is such a step.                                  *)

LEMMA StartStep ==
  ASSUME SessionsInv, NEW c \in Call, NEW q \in CallState, Start(c, q), CallOK(q),
         q.list = {}, q.status = None, q.new = None \/ q.new \in Fresh
  PROVE  StepOf(c, q)
  BY DEF StepOf, Start, SameStore, SameCaches, SessionsInv, SessionsTypeOK

LEMMA SignInStep ==
  ASSUME SessionsInv, NEW c \in Call, NEW p \in Process, NEW t \in Token, SignIn(c, p, t)
  PROVE  \E q : StepOf(c, q)
  <1> DEFINE q == [Idle EXCEPT !.st = "lock", !.kind = "signIn", !.proc = p, !.mode = "add", !.new = t]
  <1>1. q \in CallState /\ CallOK(q) /\ q.list = {} /\ q.status = None /\ q.new = t
    BY IdleTyped DEF CallState, CallOK, Optional
  <1>2. Start(c, q) /\ t \in Fresh
    BY DEF SignIn
  <1> HIDE DEF q
  <1> QED
    BY <1>1, <1>2, StartStep

LEMMA RefreshTokenStep ==
  ASSUME SessionsInv, NEW c \in Call, NEW p \in Process, NEW old \in Token, NEW t \in Token,
         RefreshToken(c, p, old, t)
  PROVE  \E q : StepOf(c, q)
  <1> DEFINE q == [Idle EXCEPT !.st = "check", !.kind = "refresh", !.proc = p, !.mode = "check",
                               !.token = old, !.new = t]
  <1>1. q \in CallState /\ CallOK(q) /\ q.list = {} /\ q.status = None /\ q.new = t
    BY IdleTyped DEF CallState, CallOK, Optional
  <1>2. Start(c, q) /\ t \in Fresh
    BY DEF RefreshToken
  <1> HIDE DEF q
  <1> QED
    BY <1>1, <1>2, StartStep

LEMMA AuthenticateStep ==
  ASSUME SessionsInv, NEW c \in Call, NEW p \in Process, Authenticate(c, p)
  PROVE  \E q : StepOf(c, q)
  <1> DEFINE q == [Idle EXCEPT !.st = "load", !.kind = "bearer", !.proc = p]
  <1>1. q \in CallState /\ CallOK(q) /\ q.list = {} /\ q.status = None /\ q.new = None
    BY IdleTyped DEF CallState, CallOK, Optional
  <1>2. Start(c, q)
    BY DEF Authenticate
  <1> HIDE DEF q
  <1> QED
    BY <1>1, <1>2, StartStep

LEMMA SignOutStep ==
  ASSUME SessionsInv, NEW c \in Call, NEW p \in Process, NEW old \in Token, SignOut(c, p, old)
  PROVE  \E q : StepOf(c, q)
  <1> DEFINE q == [Idle EXCEPT !.st = "lock", !.kind = "signOut", !.proc = p, !.mode = "remove",
                               !.token = old]
  <1>1. q \in CallState /\ CallOK(q) /\ q.list = {} /\ q.status = None /\ q.new = None
    BY IdleTyped DEF CallState, CallOK, Optional
  <1>2. Start(c, q)
    BY DEF SignOut
  <1> HIDE DEF q
  <1> QED
    BY <1>1, <1>2, StartStep

LEMMA UpdateUserStep ==
  ASSUME SessionsInv, NEW c \in Call, NEW p \in Process, NEW s \in {"NORMAL", "ARCHIVED"},
         UpdateUser(c, p, s)
  PROVE  \E q : StepOf(c, q)
  <1> DEFINE q == [Idle EXCEPT !.st = "fillUser", !.kind = "update", !.proc = p, !.status = s]
  <1>1. q \in CallState /\ CallOK(q) /\ q.list = {} /\ q.status = s /\ q.new = None
    BY IdleTyped DEF CallState, CallOK, Optional
  <1>2. /\ call' = [call EXCEPT ![c] = q] /\ status' = s
        /\ UNCHANGED <<stored, issued, userCache, listCache>>
    BY DEF UpdateUser, SameCaches
  <1> HIDE DEF q
  <1>3. StepOf(c, q)
    BY <1>1, <1>2 DEF StepOf
  <1> QED
    BY <1>3

\* A list whose tokens are held, in the hands of a call that asked for it.
LEMMA WithListStep ==
  ASSUME SessionsInv, NEW c \in Call, NEW list \in SUBSET Token, \A t \in list : Held(t),
         call[c].st \in {"check", "lock", "fill"}, call' = [call EXCEPT ![c] = WithList(call[c], list)],
         SameStore, UNCHANGED <<userCache, issued>>,
         \/ listCache' = listCache
         \/ listCache' = [listCache EXCEPT ![call[c].proc] = Entry(call[c].list)]
  PROVE  \E q : StepOf(c, q)
  <1> DEFINE q == WithList(call[c], list)
  <1>0. call[c] \in CallState /\ call[c].proc \in Process
    BY DEF SessionsInv, SessionsTypeOK, CallsOK, CallOK
  <1>a. CallOK(call[c])
    BY DEF SessionsInv, CallsOK
  <1>1. /\ q \in CallState /\ CallOK(q)
        /\ q.new \in {None, call[c].new}
        /\ \A t \in q.list : Held(t)
        /\ q.status \in {None, call[c].status}
    <2>1. CASE call[c].mode # "check"
      <3> DEFINE r == [call[c] EXCEPT !.st = "have", !.list = list]
      <3>1. /\ r \in CallState /\ CallOK(r) /\ r.new = call[c].new
            /\ r.list = list /\ r.status = call[c].status
        BY <1>0, <1>a, <2>1 DEF CallState, CallOK
      <3>2. q = r
        BY <2>1 DEF WithList
      <3> HIDE DEF r, q
      <3> QED
        BY <1>0, <3>1, <3>2
    <2>2. CASE call[c].mode = "check" /\ call[c].token \in list
      <3> DEFINE r == [call[c] EXCEPT !.st = "load", !.list = {}]
      <3>a. {} \in SUBSET Token
        OBVIOUS
      <3>1. /\ r \in CallState /\ CallOK(r) /\ r.new = call[c].new
            /\ r.list = {} /\ r.status = call[c].status
        BY <1>0, <1>a, <3>a DEF CallState, CallOK
      <3>2. q = r
        BY <2>2 DEF WithList
      <3> HIDE DEF r, q
      <3> QED
        BY <1>0, <3>1, <3>2
    <2>3. CASE call[c].mode = "check" /\ call[c].token \notin list
      <3>1. q = Idle
        BY <2>3 DEF WithList
      <3> HIDE DEF q
      <3> QED
        BY <3>1, IdleTyped DEF CallOK
    <2> QED
      BY <2>1, <2>2, <2>3
  <1>2. call' = [call EXCEPT ![c] = q]
    OBVIOUS
  <1>3. status' = status /\ stored' = stored /\ status \in {"NORMAL", "ARCHIVED"}
    BY DEF SameStore, SessionsInv, SessionsTypeOK
  <1> HIDE DEF q
  <1>4. StepOf(c, q)
    BY <1>0, <1>1, <1>2, <1>3 DEF StepOf
  <1> QED
    BY <1>4

LEMMA HeldNow ==
  /\ \A d \in Call : \A t \in call[d].list : Held(t)
  /\ \A t \in Row : Held(t)
  /\ \A p \in Process : \A t : Lists(p, t) => Held(t)
  /\ \A d \in Call : Held(call[d].new)
  BY DEF Held, Forgotten

LEMMA GetListStep ==
  ASSUME SessionsInv, NEW c \in Call, call[c].st \in {"check", "lock"}, GetList(c),
         SameStore, SameCaches, UNCHANGED issued
  PROVE  \E q : StepOf(c, q)
  <1> DEFINE entry == listCache[call[c].proc].value
  <1>0. call[c] \in CallState /\ call[c].proc \in Process
    BY DEF SessionsInv, SessionsTypeOK, CallsOK, CallOK
  <1>a. CallOK(call[c])
    BY DEF SessionsInv, CallsOK
  <1>1. CASE entry # None
    <2>1. entry \in SUBSET Token
      BY <1>0, <1>1 DEF SessionsInv, SessionsTypeOK, ListEntry, Optional
    <2>2. \A t \in entry : Held(t)
      BY <1>0, <1>1, HeldNow DEF Lists
    <2>3. call' = [call EXCEPT ![c] = WithList(call[c], entry)]
      BY <1>1 DEF GetList
    <2> HIDE DEF entry
    <2> QED
      BY <2>1, <2>2, <2>3, WithListStep DEF SameCaches
  <1>2. CASE entry = None /\ stored = None
    <2>1. {} \in SUBSET Token
      OBVIOUS
    <2>2. call' = [call EXCEPT ![c] = WithList(call[c], {})]
      BY <1>2 DEF GetList
    <2> QED
      BY <2>1, <2>2, WithListStep DEF SameCaches
  <1>3. CASE entry = None /\ stored # None
    <2> DEFINE q == [call[c] EXCEPT !.st = "fill", !.list = stored]
    <2>1. stored \in SUBSET Token
      BY <1>3 DEF SessionsInv, SessionsTypeOK, Optional
    <2>2. /\ q \in CallState /\ CallOK(q) /\ q.new = call[c].new
          /\ q.list = stored /\ q.status = call[c].status
      BY <1>0, <1>a, <2>1 DEF CallState, CallOK
    <2>3. call' = [call EXCEPT ![c] = q]
      BY <1>3 DEF GetList
    <2>4. /\ status' = status /\ stored' = stored /\ status \in {"NORMAL", "ARCHIVED"}
          /\ UNCHANGED <<userCache, listCache, issued>>
      BY DEF SameStore, SameCaches, SessionsInv, SessionsTypeOK
    <2>5. \A t \in stored : Held(t)
      BY <1>3, HeldNow DEF Row
    <2> HIDE DEF q
    <2>6. StepOf(c, q)
      BY <1>0, <2>2, <2>3, <2>4, <2>5 DEF StepOf
    <2> QED
      BY <2>6
  <1> QED
    BY <1>1, <1>2, <1>3

LEMMA CheckTokenStep ==
  ASSUME SessionsInv, NEW c \in Call, CheckToken(c)
  PROVE  \E q : StepOf(c, q)
  BY GetListStep DEF CheckToken

LEMMA ChangeStep ==
  ASSUME SessionsInv, NEW c \in Call, Change(c)
  PROVE  \E q : StepOf(c, q)
  BY GetListStep DEF Change

LEMMA FillListStep ==
  ASSUME SessionsInv, NEW c \in Call, FillList(c)
  PROVE  \E q : StepOf(c, q)
  <1>1. call[c].list \in SUBSET Token
    BY DEF SessionsInv, SessionsTypeOK, CallState
  <1> QED
    BY <1>1, HeldNow, WithListStep DEF FillList

LEMMA WriteListStep ==
  ASSUME SessionsInv, NEW c \in Call, WriteList(c)
  PROVE  \E q : StepOf(c, q)
  <1> DEFINE list == IF call[c].mode = "add" THEN call[c].list \cup {call[c].new}
                     ELSE call[c].list \ {call[c].token}
             q == [call[c] EXCEPT !.list = list, !.st = "cache"]
  <1>0. call[c] \in CallState /\ CallOK(call[c])
    BY DEF SessionsInv, SessionsTypeOK, CallsOK
  <1>1. call[c].mode = "add" => call[c].new \in Token
    BY <1>0 DEF CallOK, WriteList
  <1>2. list \in SUBSET Token /\ \A t \in list : Held(t)
    BY <1>0, <1>1, HeldNow DEF CallState
  <1>3. /\ call' = [call EXCEPT ![c] = q] /\ stored' = list
        /\ UNCHANGED <<status, issued, userCache, listCache>>
    BY DEF WriteList, SameCaches
  <1>4. /\ q \in CallState /\ CallOK(q) /\ q.list = list
        /\ q.new = call[c].new /\ q.status = call[c].status
    <2> HIDE DEF list
    <2> QED
      BY <1>0, <1>2 DEF CallState, CallOK, WriteList
  <1>5. status \in {"NORMAL", "ARCHIVED"}
    BY DEF SessionsInv, SessionsTypeOK
  <1> HIDE DEF list, q
  <1>6. StepOf(c, q)
    BY <1>2, <1>3, <1>4, <1>5 DEF StepOf
  <1> QED
    BY <1>6

\* A call ends, and its token is issued or not.
LEMMA EndStep ==
  ASSUME SessionsInv, NEW c \in Call, call[c].st # "idle", call' = [call EXCEPT ![c] = Idle], SameStore,
         issued' = issued \/ issued' = issued \cup ({call[c].new} \ {None}),
         UNCHANGED userCache,
         \/ listCache' = listCache
         \/ listCache' = [listCache EXCEPT ![call[c].proc] = Entry(call[c].list)]
  PROVE  \E q : StepOf(c, q)
  <1>1. call[c].proc \in Process /\ status' = status /\ stored' = stored /\ status \in {"NORMAL", "ARCHIVED"}
    BY DEF SameStore, SessionsInv, SessionsTypeOK, CallsOK, CallOK
  <1>2. StepOf(c, Idle)
    BY <1>1, IdleTyped DEF StepOf, CallOK
  <1> QED
    BY <1>2

LEMMA CacheListStep ==
  ASSUME SessionsInv, NEW c \in Call, CacheList(c)
  PROVE  \E q : StepOf(c, q)
  <1>1. CASE call[c].kind = "refresh" /\ call[c].mode = "add"
    <2> DEFINE q == [call[c] EXCEPT !.st = "lock", !.mode = "remove", !.list = {}]
    <2>0. call[c] \in CallState /\ CallOK(call[c]) /\ {} \in SUBSET Token
      BY DEF SessionsInv, SessionsTypeOK, CallsOK
    <2>1. /\ q \in CallState /\ CallOK(q) /\ q.list = {}
          /\ q.new = call[c].new /\ q.status = call[c].status /\ call[c].proc \in Process
      BY <2>0 DEF CallState, CallOK, Optional, CacheList
    <2>2. /\ call' = [call EXCEPT ![c] = q] /\ UNCHANGED issued
      BY <1>1 DEF CacheList
    <2>3. /\ UNCHANGED <<status, stored, userCache>> /\ status \in {"NORMAL", "ARCHIVED"}
          /\ listCache' = [listCache EXCEPT ![call[c].proc] = Entry(call[c].list)]
      BY DEF CacheList, SameStore, SessionsInv, SessionsTypeOK
    <2> HIDE DEF q
    <2>4. StepOf(c, q)
      BY <2>1, <2>2, <2>3 DEF StepOf
    <2> QED
      BY <2>4
  <1>2. CASE ~ (call[c].kind = "refresh" /\ call[c].mode = "add")
    BY <1>2, EndStep DEF CacheList, Return
  <1> QED
    BY <1>1, <1>2

LEMMA WriteFailsStep ==
  ASSUME SessionsInv, NEW c \in Call, WriteFails(c)
  PROVE  \E q : StepOf(c, q)
  BY EndStep DEF WriteFails, Return, SameCaches

\* The user has been found, by a hit or a fill of the cache.
LEMMA AdmittedStep ==
  ASSUME SessionsInv, NEW c \in Call, NEW s, call[c].st # "idle",
         call' = [call EXCEPT ![c] = Admitted(call[c], s)], SameStore, UNCHANGED <<listCache, issued>>,
         \/ userCache' = userCache
         \/ userCache' = [userCache EXCEPT ![call[c].proc] = Entry(call[c].status)]
  PROVE  \E q : StepOf(c, q)
  <1> DEFINE q == [call[c] EXCEPT !.st = "lock", !.mode = "add", !.status = None]
  <1>0. /\ call[c] \in CallState /\ CallOK(call[c]) /\ call[c].proc \in Process
        /\ UNCHANGED <<status, stored>> /\ status \in {"NORMAL", "ARCHIVED"}
    BY DEF SessionsInv, SessionsTypeOK, CallsOK, CallOK, SameStore
  <1>1. CASE s = "NORMAL" /\ call[c].kind = "refresh"
    <2>1. /\ q \in CallState /\ CallOK(q) /\ q.list = call[c].list
          /\ q.new = call[c].new /\ q.status = None
      BY <1>0, <1>1 DEF CallState, CallOK, Optional
    <2>2. call' = [call EXCEPT ![c] = q]
      BY <1>1 DEF Admitted
    <2> HIDE DEF q
    <2>3. StepOf(c, q)
      BY <1>0, <2>1, <2>2, HeldNow DEF StepOf
    <2> QED
      BY <2>3
  <1>2. CASE ~ (s = "NORMAL" /\ call[c].kind = "refresh")
    <2>1. call' = [call EXCEPT ![c] = Idle]
      BY <1>2 DEF Admitted
    <2>2. StepOf(c, Idle)
      BY <1>0, <2>1, IdleTyped DEF StepOf, CallOK
    <2> QED
      BY <2>2
  <1> QED
    BY <1>1, <1>2

LEMMA LoadUserStep ==
  ASSUME SessionsInv, NEW c \in Call, LoadUser(c)
  PROVE  \E q : StepOf(c, q)
  <1> DEFINE entry == userCache[call[c].proc].value
             q == [call[c] EXCEPT !.st = "fillUser", !.status = status]
  <1>1. CASE entry # None
    BY <1>1, AdmittedStep DEF LoadUser, SameCaches
  <1>2. CASE entry = None
    <2>0. /\ call[c] \in CallState /\ CallOK(call[c])
          /\ UNCHANGED <<status, stored, userCache, listCache, issued>>
          /\ status \in {"NORMAL", "ARCHIVED"}
      BY DEF SessionsInv, SessionsTypeOK, CallsOK, LoadUser, SameStore, SameCaches
    <2>1. /\ q \in CallState /\ CallOK(q) /\ q.list = call[c].list
          /\ q.new = call[c].new /\ q.status = status
      BY <2>0 DEF CallState, CallOK, Optional, LoadUser
    <2>2. call' = [call EXCEPT ![c] = q]
      BY <1>2 DEF LoadUser
    <2> HIDE DEF q
    <2>3. StepOf(c, q)
      BY <2>0, <2>1, <2>2, HeldNow DEF StepOf
    <2> QED
      BY <2>3
  <1> QED
    BY <1>1, <1>2

LEMMA FillUserStep ==
  ASSUME SessionsInv, NEW c \in Call, FillUser(c)
  PROVE  \E q : StepOf(c, q)
  BY AdmittedStep DEF FillUser

-----------------------------------------------------------------------------
(* Time only empties the caches.                                           *)

LEMMA AgedEntry ==
  /\ \A e \in UserEntry : Aged(e) \in UserEntry /\ Aged(e).value \in {None, e.value}
  /\ \A e \in ListEntry : Aged(e) \in ListEntry /\ Aged(e).value \in {None, e.value}
  BY BlankEntries, SessionsAssumption DEF Aged, UserEntry, ListEntry, NotCached

LEMMA TickStep ==
  ASSUME SessionsInv, Tick
  PROVE  SessionsInv' /\ NothingRevived /\ (Unheard("NORMAL") => Unheard("NORMAL")')
  <1>1. \A p \in Process : /\ userCache'[p] = Aged(userCache[p]) /\ userCache[p] \in UserEntry
                           /\ listCache'[p] = Aged(listCache[p]) /\ listCache[p] \in ListEntry
    BY DEF Tick, SessionsInv, SessionsTypeOK
  <1>2. SessionsTypeOK'
    BY <1>1, AgedEntry DEF Tick, SameStore, SessionsInv, SessionsTypeOK
  <1>3. CallsOK' /\ NewIsNew'
    BY DEF Tick, SessionsInv, CallsOK, NewIsNew
  <1>4. NothingRevived
    <2>1. \A t \in Row' : Held(t)
      BY HeldNow DEF Row, Tick, SameStore
    <2>2. \A p \in Process : \A t \in Token : Lists(p, t)' => Held(t)
      BY <1>1, AgedEntry, HeldNow DEF Lists
    <2>3. \A c \in Call : \A t \in call'[c].list : Held(t)
      BY HeldNow DEF Tick
    <2> QED
      BY <2>1, <2>2, <2>3 DEF NothingRevived
  <1>5. Unheard("NORMAL") => Unheard("NORMAL")'
    BY <1>1, AgedEntry, SessionsAssumption DEF Tick, Unheard
  <1> QED
    BY <1>2, <1>3, <1>4, <1>5 DEF SessionsInv

-----------------------------------------------------------------------------
LEMMA EveryStep ==
  ASSUME SessionsInv, SessionsNext
  PROVE  Tick \/ \E c \in Call : \E q : StepOf(c, q)
  <1>1. ASSUME NEW c \in Call, NEW p \in Process, Authenticate(c, p)
        PROVE  \E q : StepOf(c, q)
    BY <1>1, AuthenticateStep
  <1>2. ASSUME NEW c \in Call, NEW p \in Process, NEW t \in Token, SignIn(c, p, t) \/ SignOut(c, p, t)
        PROVE  \E q : StepOf(c, q)
    BY <1>2, SignInStep, SignOutStep
  <1>3. ASSUME NEW c \in Call, NEW p \in Process, NEW t \in Token, NEW n \in Token,
               RefreshToken(c, p, t, n)
        PROVE  \E q : StepOf(c, q)
    BY <1>3, RefreshTokenStep
  <1>4. ASSUME NEW c \in Call, NEW p \in Process, NEW s \in {"NORMAL", "ARCHIVED"},
               UpdateUser(c, p, s)
        PROVE  \E q : StepOf(c, q)
    BY <1>4, UpdateUserStep
  <1>5. ASSUME NEW c \in Call, Progress(c) \/ WriteFails(c)
        PROVE  \E q : StepOf(c, q)
    <2>1. CASE CheckToken(c) \/ Change(c) \/ FillList(c)
      BY <2>1, CheckTokenStep, ChangeStep, FillListStep
    <2>2. CASE WriteList(c) \/ CacheList(c) \/ WriteFails(c)
      BY <2>2, WriteListStep, CacheListStep, WriteFailsStep
    <2>3. CASE LoadUser(c) \/ FillUser(c)
      BY <2>3, LoadUserStep, FillUserStep
    <2> QED
      BY <1>5, <2>1, <2>2, <2>3 DEF Progress
  <1> QED
    BY <1>1, <1>2, <1>3, <1>4, <1>5 DEF SessionsNext

\* What the proofs need of a step.
StepKeeps ==
  /\ \A t \in issued : Forgotten(t) => Forgotten(t)'
  /\ status = "ARCHIVED" /\ Unheard("NORMAL") => status' # "ARCHIVED" \/ Unheard("NORMAL")'

LEMMA SessionsNextInv ==
  SessionsInv /\ [SessionsNext]_sessionVars => SessionsInv' /\ [StepKeeps]_sessionVars
  <1> SUFFICES ASSUME SessionsInv, [SessionsNext]_sessionVars
               PROVE  SessionsInv' /\ [StepKeeps]_sessionVars
    OBVIOUS
  <1>1. CASE UNCHANGED sessionVars
    <2>1. SessionsTypeOK' /\ CallsOK' /\ NewIsNew'
      BY <1>1 DEF SessionsInv, SessionsTypeOK, CallsOK, NewIsNew, sessionVars
    <2> QED
      BY <1>1, <2>1 DEF SessionsInv
  <1>2. CASE Tick
    BY <1>2, TickStep, ForgottenForGood DEF StepKeeps
  <1>3. ASSUME NEW c \in Call, NEW q, StepOf(c, q)
        PROVE  SessionsInv' /\ StepKeeps
    <2>1. SessionsInv' /\ NothingRevived
      BY <1>3, StepInv, StepRevivesNothing
    <2>2. status = "ARCHIVED" /\ Unheard("NORMAL") => status' # "ARCHIVED" \/ Unheard("NORMAL")'
      BY <1>3, StepKeepsArchival
    <2> QED
      BY <2>1, <2>2, ForgottenForGood DEF StepKeeps
  <1> QED
    BY <1>1, <1>2, <1>3, EveryStep

LEMMA SessionsInvariant == SessionsSafety => []SessionsInv
  BY SessionsInitInv, SessionsNextInv, PTL DEF SessionsSafety

\* Only a list that is still cached or in hand can bring a refresh token back: once
\* none holds it, no sign-in, rotation, sign-out or failure of another call does.
THEOREM RevocationIsFinal == SessionsSafety => RevocationFinal
  <1>1. SessionsInv /\ [SessionsNext]_sessionVars =>
          [\A t \in issued : Forgotten(t) => Forgotten(t)']_sessionVars
    BY SessionsNextInv DEF StepKeeps
  <1> QED
    BY <1>1, SessionsInvariant, PTL DEF SessionsSafety, RevocationFinal

\* No cache that expires and is filled again makes an archived user NORMAL.
THEOREM ArchivalIsFinal == SessionsSafety => ArchivalFinal
  <1>1. SessionsInv /\ [SessionsNext]_sessionVars =>
          [status = "ARCHIVED" /\ Unheard("NORMAL") =>
             status' # "ARCHIVED" \/ Unheard("NORMAL")']_sessionVars
    BY SessionsNextInv DEF StepKeeps
  <1> QED
    BY <1>1, SessionsInvariant, PTL DEF SessionsSafety, ArchivalFinal

\* Both together: what every process refuses, none admits again by itself.
THEOREM RefusalIsFinal == SessionsSafety => RefusalFinal
  BY RevocationIsFinal, ArchivalIsFinal, PTL DEF RefusalFinal
=============================================================================
