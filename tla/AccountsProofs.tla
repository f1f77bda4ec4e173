--------------------------- MODULE AccountsProofs ---------------------------
(***************************************************************************)
(* Proofs about accounts and sign-on, for any number of processes, calls,  *)
(* providers and subjects.                                                 *)
(*                                                                         *)
(* The invariant says of each call what it has decided by the statement it *)
(* is at: which kind of call reaches it, that a login is not decided before *)
(* it has found or made its linkage, and that registration was open.  The  *)
(* user sequence bounds everything: accounts, linkages and calls name only *)
(* accounts below it, so what is created next is new.                      *)
(***************************************************************************)
EXTENDS Accounts, FiniteSetTheorems, TLAPS

-----------------------------------------------------------------------------
(* The invariant.                                                          *)

Stage == {"idle", "lookup", "load", "signedIn", "gate", "insert", "reread", "retry",
          "existing", "bind", "unlink", "setupLock", "setup", "create"}

CallRow == [st : Stage, kind : Kind \cup {None}, proc : Process \cup {None},
            provider : Provider \cup {None}, subject : Subject \cup {None},
            user : 0..MaxUsers, name : Username \cup {None}, attempt : Nat]

UserRow == [name : Username \cup Subject \cup ({"uuid"} \X Nat), role : {"ADMIN", "USER"},
            status : {"NORMAL", "ARCHIVED"}]
BornRow == [how : {"setup", "sso", "admin", "register"}, proc : Process \cup {None}]
LinkRow == [user : Account, provider : Provider, subject : Subject]

AccountsTyped ==
  /\ user \in [Account -> UserRow \cup {None}]
  /\ born \in [Account -> BornRow \cup {None}]
  /\ links \in SUBSET LinkRow
  /\ call \in [Call -> CallRow]
  /\ next \in Nat \ {0}

\* Which kind of call is at which statement, and what it has decided by then.
CallSound(q, isOpen, n) ==
  /\ q.user < n
  /\ q.st = "idle" => q.kind = None
  /\ q.st \in {"lookup", "load", "signedIn", "insert", "reread", "retry"} => q.kind = "sso"
  /\ q.st = "gate" => q.kind \in {"sso", "register"}
  /\ q.st \in {"existing", "bind"} => q.kind = "bind" /\ q.user # 0
  /\ q.st = "unlink" => q.kind = "unlink"
  /\ q.st \in {"setupLock", "setup"} => q.kind = "register" /\ q.proc \in Process
  /\ q.st = "create" => q.kind \in {"admin", "register"}
  /\ q.kind \in {"sso", "bind"} => q.provider \in Provider /\ q.subject \in Subject
  /\ q.kind \in {"admin", "register"} => q.name \in Username
  /\ q.kind = "sso" /\ q.st \notin {"load", "signedIn"} => q.user = 0
  /\ q.st \in {"insert", "reread", "retry"} \/ (q.st = "create" /\ q.kind = "register") => isOpen

\* Accounts and linkages stay below the user sequence.
BelowSequence ==
  /\ \A i \in Account : i >= next => user[i] = None
  /\ \A row \in links : row.user < next

SetupBy(p) == [how |-> "setup", proc |-> p]

\* userCreateMu: one setup of a process at a time, and it found no account.
SetupAlone ==
  /\ \A c, d \in Call : call[c].st = "setup" /\ call[d].st = "setup" /\ call[c].proc = call[d].proc => c = d
  /\ \A c \in Call : call[c].st = "setup" => \A i \in Existing : born[i] # SetupBy(call[c].proc)

OneSetup ==
  \A p \in Process : \A i, j \in Existing : born[i] = SetupBy(p) /\ born[j] = SetupBy(p) => i = j

AccountsInv ==
  /\ AccountsTyped
  /\ \A c \in Call : CallSound(call[c], open, next)
  /\ BelowSequence /\ SetupAlone /\ OneSetup /\ ClosedRegistration

-----------------------------------------------------------------------------
(* One call moves on, the tables stay.                                     *)

LEMMA IdleRow ==
  /\ Idle \in CallRow /\ Idle.st = "idle" /\ Idle.kind = None /\ Idle.user = 0
  /\ \A n \in Nat \ {0} : CallSound(Idle, open, n)
<1>1. Idle \in CallRow BY AccountsAssumption DEF Idle, CallRow, Stage
<1>2. Idle.st = "idle" /\ Idle.kind = None /\ Idle.user = 0 BY DEF Idle
<1>3. None \notin Kind BY AccountsAssumption
<1>4. \A n \in Nat \ {0} : CallSound(Idle, open, n)
  BY <1>2, <1>3 DEF CallSound, Kind
<1> QED BY <1>1, <1>2, <1>4

\* The statement alone changes.
LEMMA StageFields ==
  ASSUME NEW p \in CallRow, NEW st \in Stage
  PROVE  LET q == [p EXCEPT !.st = st]
         IN  /\ q \in CallRow /\ q.st = st /\ q.kind = p.kind /\ q.proc = p.proc
             /\ q.provider = p.provider /\ q.subject = p.subject /\ q.user = p.user /\ q.name = p.name
BY DEF CallRow

\* The invariant after a step that changes one call and no table.
LEMMA CallStep ==
  ASSUME AccountsInv, NEW c \in Call, NEW q \in CallRow, call' = [call EXCEPT ![c] = q], SameRows,
         CallSound(q, open, next),
         q.st = "setup" =>
           /\ Existing = {}
           /\ \A d \in Call : ~ (call[d].st = "setup" /\ call[d].proc = q.proc)
  PROVE  AccountsInv'
<1>1. UNCHANGED <<user, next, born, links, open>> BY DEF SameRows, SameAccounts
<1>2. call \in [Call -> CallRow] /\ \A d \in Call : call'[d] = IF d = c THEN q ELSE call[d]
  BY DEF AccountsInv, AccountsTyped
<1>3. AccountsTyped' BY <1>1 DEF AccountsInv, AccountsTyped
<1>4. \A d \in Call : CallSound(call'[d], open', next') BY <1>1, <1>2 DEF AccountsInv
<1>5. Existing' = Existing BY <1>1 DEF Existing
<1>6. SetupAlone' BY <1>1, <1>2, <1>5 DEF AccountsInv, SetupAlone
<1>7. BelowSequence' /\ OneSetup' /\ ClosedRegistration'
  BY <1>1, <1>5 DEF AccountsInv, BelowSequence, OneSetup, ClosedRegistration
<1> QED BY <1>3, <1>4, <1>6, <1>7 DEF AccountsInv

LEMMA ReturnStep ==
  ASSUME AccountsInv, NEW c \in Call, Return(c), SameRows
  PROVE  AccountsInv'
<1>1. next \in Nat \ {0} BY DEF AccountsInv, AccountsTyped
<1> QED BY <1>1, IdleRow, CallStep DEF Return

\* A step that changes only the statement of a call.
LEMMA GotoStep ==
  ASSUME AccountsInv, NEW c \in Call, NEW st \in Stage, Goto(c, st)
  PROVE  \E q \in CallRow :
           /\ call' = [call EXCEPT ![c] = q]
           /\ q.st = st /\ q.kind = call[c].kind /\ q.proc = call[c].proc
           /\ q.provider = call[c].provider /\ q.subject = call[c].subject /\ q.user = call[c].user
           /\ q.name = call[c].name
<1> DEFINE q == [call[c] EXCEPT !.st = st]
<1>1. call' = [call EXCEPT ![c] = q] BY DEF Goto
<1>2. call[c] \in CallRow BY DEF AccountsInv, AccountsTyped
<1>3. /\ q \in CallRow /\ q.st = st /\ q.kind = call[c].kind /\ q.proc = call[c].proc
      /\ q.provider = call[c].provider /\ q.subject = call[c].subject /\ q.user = call[c].user
      /\ q.name = call[c].name
  BY <1>2, StageFields
<1> HIDE DEF q
<1> QED BY <1>1, <1>3

\* What is known of a call before its step.
LEMMA CallFacts ==
  ASSUME AccountsInv, NEW c \in Call
  PROVE  /\ call \in [Call -> CallRow] /\ call[c] \in CallRow /\ CallSound(call[c], open, next)
         /\ call[c].user \in 0..MaxUsers /\ next \in Nat \ {0}
BY DEF AccountsInv, AccountsTyped, CallRow

LEMMA GetLinkageStep ==
  ASSUME AccountsInv, NEW c \in Call, NEW miss \in {"gate", "retry"}, GetLinkage(c, miss),
         call[c].st \in {"lookup", "reread"}, miss = "retry" => call[c].st = "reread"
  PROVE  AccountsInv'
<1>1. SameRows BY DEF GetLinkage
<1>2. CallSound(call[c], open, next) /\ call[c] \in CallRow BY CallFacts
<1>3. ASSUME Goto(c, miss) PROVE AccountsInv'
  <2>1. miss \in Stage BY DEF Stage
  <2>2. PICK q \in CallRow :
          /\ call' = [call EXCEPT ![c] = q]
          /\ q.st = miss /\ q.kind = call[c].kind /\ q.proc = call[c].proc
          /\ q.provider = call[c].provider /\ q.subject = call[c].subject /\ q.user = call[c].user
          /\ q.name = call[c].name
    BY <1>3, <2>1, GotoStep
  <2>3. CallSound(q, open, next) BY <1>2, <2>2 DEF CallSound
  <2> QED BY <1>1, <2>2, <2>3, CallStep
<1>4. ASSUME NEW row \in Linked(call[c].provider, call[c].subject),
             call' = [call EXCEPT ![c].st = "load", ![c].user = row.user, ![c].attempt = 0]
      PROVE  AccountsInv'
  <2> DEFINE q == [call[c] EXCEPT !.st = "load", !.user = row.user, !.attempt = 0]
  <2>1. call' = [call EXCEPT ![c] = q] BY <1>4, CallFacts
  <2>2. row.user \in Account /\ row.user < next
    BY DEF AccountsInv, AccountsTyped, BelowSequence, Linked, LinkRow
  <2>3. row.user \in 0..MaxUsers BY <2>2, AccountsAssumption DEF Account
  <2>4. /\ q \in CallRow /\ q.st = "load" /\ q.kind = call[c].kind /\ q.user = row.user
        /\ q.provider = call[c].provider /\ q.subject = call[c].subject
    BY <1>2, <2>3 DEF CallRow, Stage
  <2> HIDE DEF q
  <2>5. CallSound(q, open, next) BY <1>2, <2>2, <2>4 DEF CallSound
  <2> QED BY <1>1, <2>1, <2>4, <2>5, CallStep
<1> QED BY <1>3, <1>4 DEF GetLinkage

\* A call goes on to a statement where the invariant asks for nothing new.
LEMMA GoOn ==
  ASSUME AccountsInv, NEW c \in Call, NEW st \in Stage \ {"setup"}, Goto(c, st), SameRows,
         \A q \in CallRow :
           /\ q.st = st /\ q.kind = call[c].kind /\ q.proc = call[c].proc
           /\ q.provider = call[c].provider /\ q.subject = call[c].subject /\ q.user = call[c].user
           /\ q.name = call[c].name
           => CallSound(q, open, next)
  PROVE  AccountsInv'
<1>1. PICK q \in CallRow :
        /\ call' = [call EXCEPT ![c] = q]
        /\ q.st = st /\ q.kind = call[c].kind /\ q.proc = call[c].proc
        /\ q.provider = call[c].provider /\ q.subject = call[c].subject /\ q.user = call[c].user
        /\ q.name = call[c].name
  BY GotoStep
<1> QED BY <1>1, CallStep

\* The statements of a call that leave the tables alone.
LEMMA ReadingSteps ==
  ASSUME AccountsInv, NEW c \in Call,
         \/ Fail(c) \/ Lookup(c) \/ LoadUser(c) \/ Answer(c) \/ SSOGate(c) \/ Reread(c)
         \/ RetryName(c) \/ CheckExisting(c) \/ RegisterGate(c) \/ SetupLock(c)
  PROVE  AccountsInv'
<1>1. CallSound(call[c], open, next) /\ call[c] \in CallRow BY CallFacts
<1>2. CASE Fail(c) \/ Answer(c) BY <1>2, ReturnStep DEF Fail, Answer
<1>3. CASE Lookup(c) \/ Reread(c)
  BY <1>3, GetLinkageStep DEF Lookup, Reread
<1>4. CASE LoadUser(c)
  <2>1. ASSUME Goto(c, "signedIn") PROVE AccountsInv'
    <3>1. \A q \in CallRow :
            /\ q.st = "signedIn" /\ q.kind = call[c].kind /\ q.proc = call[c].proc
            /\ q.provider = call[c].provider /\ q.subject = call[c].subject /\ q.user = call[c].user
            /\ q.name = call[c].name
            => CallSound(q, open, next)
      BY <1>1, <1>4 DEF CallSound, LoadUser
    <3> QED BY <1>4, <2>1, <3>1, GoOn DEF LoadUser, Stage
  <2> QED BY <1>4, <2>1, ReturnStep DEF LoadUser
<1>5. CASE SSOGate(c)
  <2>1. CASE open
    <3> DEFINE a == IF call[c].subject \in Username THEN 0 ELSE 1
               q == [call[c] EXCEPT !.st = "insert", !.attempt = a]
    <3>1. call' = [call EXCEPT ![c] = q] BY <1>5, <2>1, CallFacts DEF SSOGate
    <3>4. a \in Nat OBVIOUS
    <3> HIDE DEF a
    <3>2. /\ q \in CallRow /\ q.st = "insert" /\ q.kind = call[c].kind /\ q.user = call[c].user
          /\ q.provider = call[c].provider /\ q.subject = call[c].subject
      BY <1>1, <3>4 DEF CallRow, Stage
    <3> HIDE DEF q
    <3>3. CallSound(q, open, next) BY <1>1, <1>5, <2>1, <3>2 DEF CallSound, SSOGate
    <3> QED BY <1>5, <3>1, <3>2, <3>3, CallStep DEF SSOGate
  <2>2. CASE ~ open BY <1>5, <2>2, ReturnStep DEF SSOGate
  <2> QED BY <2>1, <2>2
<1>6. CASE RetryName(c)
  <2>1. CASE call[c].attempt < Fallbacks
    <3> DEFINE a == call[c].attempt + 1
               q == [call[c] EXCEPT !.st = "insert", !.attempt = a]
    <3>1. call' = [call EXCEPT ![c] = q] BY <1>6, <2>1, CallFacts DEF RetryName
    <3>4. a \in Nat BY <1>1 DEF CallRow
    <3> HIDE DEF a
    <3>2. /\ q \in CallRow /\ q.st = "insert" /\ q.kind = call[c].kind /\ q.user = call[c].user
          /\ q.provider = call[c].provider /\ q.subject = call[c].subject
      BY <1>1, <3>4 DEF CallRow, Stage
    <3> HIDE DEF q
    <3>3. CallSound(q, open, next) BY <1>1, <1>6, <3>2 DEF CallSound, RetryName
    <3> QED BY <1>6, <3>1, <3>2, <3>3, CallStep DEF RetryName
  <2>2. CASE ~ (call[c].attempt < Fallbacks) BY <1>6, <2>2, ReturnStep DEF RetryName
  <2> QED BY <2>1, <2>2
<1>7. CASE CheckExisting(c)
  <2>1. ASSUME Goto(c, "bind") PROVE AccountsInv'
    <3>1. \A q \in CallRow :
            /\ q.st = "bind" /\ q.kind = call[c].kind /\ q.proc = call[c].proc
            /\ q.provider = call[c].provider /\ q.subject = call[c].subject /\ q.user = call[c].user
            /\ q.name = call[c].name
            => CallSound(q, open, next)
      BY <1>1, <1>7 DEF CallSound, CheckExisting
    <3> QED BY <1>7, <2>1, <3>1, GoOn DEF CheckExisting, Stage
  <2> QED BY <1>7, <2>1, ReturnStep DEF CheckExisting
<1>8. CASE RegisterGate(c)
  <2>1. ASSUME open, Goto(c, "create") PROVE AccountsInv'
    <3>1. \A q \in CallRow :
            /\ q.st = "create" /\ q.kind = call[c].kind /\ q.proc = call[c].proc
            /\ q.provider = call[c].provider /\ q.subject = call[c].subject /\ q.user = call[c].user
            /\ q.name = call[c].name
            => CallSound(q, open, next)
      BY <1>1, <1>8, <2>1 DEF CallSound, RegisterGate
    <3> QED BY <1>8, <2>1, <3>1, GoOn DEF RegisterGate, Stage
  <2> QED BY <1>8, <2>1, ReturnStep DEF RegisterGate
<1>9. CASE SetupLock(c)
  <2>1. CASE Existing = {}
    <3>1. Goto(c, "setup") /\ "setup" \in Stage /\ SameRows BY <1>9, <2>1 DEF SetupLock, Stage
    <3>2. PICK q \in CallRow :
          /\ call' = [call EXCEPT ![c] = q]
          /\ q.st = "setup" /\ q.kind = call[c].kind /\ q.proc = call[c].proc
          /\ q.provider = call[c].provider /\ q.subject = call[c].subject /\ q.user = call[c].user
          /\ q.name = call[c].name
      BY <3>1, GotoStep
    <3>3. CallSound(q, open, next) BY <1>1, <1>9, <3>2 DEF CallSound, SetupLock
    <3>4. \A d \in Call : ~ (call[d].st = "setup" /\ call[d].proc = q.proc)
      BY <1>9, <3>2 DEF SetupLock
    <3> QED BY <2>1, <3>1, <3>2, <3>3, <3>4, CallStep
  <2>2. CASE Existing # {}
    <3>1. Goto(c, "gate") /\ SameRows BY <1>9, <2>2 DEF SetupLock
    <3>2. \A q \in CallRow :
            /\ q.st = "gate" /\ q.kind = call[c].kind /\ q.proc = call[c].proc
            /\ q.provider = call[c].provider /\ q.subject = call[c].subject /\ q.user = call[c].user
            /\ q.name = call[c].name
            => CallSound(q, open, next)
      BY <1>1, <1>9 DEF CallSound, SetupLock
    <3> QED BY <3>1, <3>2, GoOn DEF Stage
  <2> QED BY <2>1, <2>2
<1> QED BY <1>2, <1>3, <1>4, <1>5, <1>6, <1>7, <1>8, <1>9

\* A call begins.
LEMMA StartStep ==
  ASSUME AccountsInv, NEW c \in Call, NEW q \in CallRow, Start(c, q), CallSound(q, open, next), q.st # "setup"
  PROVE  AccountsInv'
BY CallStep DEF Start

LEMMA StartSteps ==
  ASSUME AccountsInv, NEW c \in Call,
         \/ \E p \in Provider, s \in Subject :
              SignInSSO(c, p, s) \/ \E u \in Account : CreateLinkedIdentity(c, u, p, s)
         \/ \E p \in Provider, u \in Account : DeleteLinkedIdentity(c, u, p)
         \/ \E p \in Process, n \in Username : CreateUser(c, p, n)
  PROVE  AccountsInv'
<1> USE DEF Stage, Kind
<1>1. next \in Nat \ {0} BY CallFacts
<1>2. \A i \in Existing : i \in 0..MaxUsers /\ i # 0 /\ i < next
  BY <1>1, AccountsAssumption DEF AccountsInv, BelowSequence, Existing, Account
<1>3. ASSUME NEW p \in Provider, NEW s \in Subject, SignInSSO(c, p, s) PROVE AccountsInv'
  <2> DEFINE q == [Idle EXCEPT !.st = "lookup", !.kind = "sso", !.provider = p, !.subject = s]
  <2>1. q.st = "lookup" /\ q.kind = "sso" /\ q.provider = p /\ q.subject = s /\ q.user = 0 BY DEF Idle
  <2>2. q \in CallRow BY IdleRow DEF CallRow
  <2>3. Start(c, q) BY <1>3 DEF SignInSSO
  <2> HIDE DEF q
  <2>4. CallSound(q, open, next) BY <1>1, <2>1 DEF CallSound
  <2> QED BY <2>1, <2>2, <2>3, <2>4, StartStep
<1>4. ASSUME NEW p \in Provider, NEW s \in Subject, NEW u \in Account, CreateLinkedIdentity(c, u, p, s)
      PROVE  AccountsInv'
  <2> DEFINE q == [Idle EXCEPT !.st = "existing", !.kind = "bind", !.provider = p, !.subject = s, !.user = u]
  <2>1. q.st = "existing" /\ q.kind = "bind" /\ q.provider = p /\ q.subject = s /\ q.user = u BY DEF Idle
  <2>2. u \in 0..MaxUsers /\ u # 0 /\ u < next BY <1>2, <1>4 DEF CreateLinkedIdentity
  <2>3. q \in CallRow BY <2>2, IdleRow DEF CallRow
  <2>4. Start(c, q) BY <1>4 DEF CreateLinkedIdentity
  <2> HIDE DEF q
  <2>5. CallSound(q, open, next) BY <2>1, <2>2 DEF CallSound
  <2> QED BY <2>1, <2>3, <2>4, <2>5, StartStep
<1>5. ASSUME NEW p \in Provider, NEW u \in Account, DeleteLinkedIdentity(c, u, p) PROVE AccountsInv'
  <2> DEFINE q == [Idle EXCEPT !.st = "unlink", !.kind = "unlink", !.provider = p, !.user = u]
  <2>1. q.st = "unlink" /\ q.kind = "unlink" /\ q.user = u BY DEF Idle
  <2>2. u \in 0..MaxUsers /\ u < next
    BY <1>2, <1>5 DEF DeleteLinkedIdentity, BySelfOrAdmin
  <2>3. q \in CallRow BY <2>2, IdleRow DEF CallRow
  <2>4. Start(c, q) BY <1>5 DEF DeleteLinkedIdentity
  <2> HIDE DEF q
  <2>5. CallSound(q, open, next) BY <2>1, <2>2 DEF CallSound
  <2> QED BY <2>1, <2>3, <2>4, <2>5, StartStep
<1>6. ASSUME NEW n \in Username, Start(c, [Idle EXCEPT !.st = "create", !.kind = "admin", !.name = n])
      PROVE  AccountsInv'
  <2> DEFINE q == [Idle EXCEPT !.st = "create", !.kind = "admin", !.name = n]
  <2>1. q.st = "create" /\ q.kind = "admin" /\ q.user = 0 /\ q.name = n BY DEF Idle
  <2>2. q \in CallRow BY IdleRow DEF CallRow
  <2>3. Start(c, q) BY <1>6
  <2> HIDE DEF q
  <2>4. CallSound(q, open, next) BY <1>1, <2>1 DEF CallSound
  <2> QED BY <2>1, <2>2, <2>3, <2>4, StartStep
<1>7. ASSUME NEW p \in Process, NEW n \in Username,
             Start(c, [Idle EXCEPT !.st = "setupLock", !.kind = "register", !.proc = p, !.name = n])
      PROVE  AccountsInv'
  <2> DEFINE q == [Idle EXCEPT !.st = "setupLock", !.kind = "register", !.proc = p, !.name = n]
  <2>1. q.st = "setupLock" /\ q.kind = "register" /\ q.proc = p /\ q.user = 0 /\ q.name = n BY DEF Idle
  <2>2. q \in CallRow BY IdleRow DEF CallRow
  <2>3. Start(c, q) BY <1>7
  <2> HIDE DEF q
  <2>4. CallSound(q, open, next) BY <1>1, <2>1 DEF CallSound
  <2> QED BY <2>1, <2>2, <2>3, <2>4, StartStep
<1>8. ASSUME NEW n \in Username, Start(c, [Idle EXCEPT !.st = "gate", !.kind = "register", !.name = n])
      PROVE  AccountsInv'
  <2> DEFINE q == [Idle EXCEPT !.st = "gate", !.kind = "register", !.name = n]
  <2>1. q.st = "gate" /\ q.kind = "register" /\ q.user = 0 /\ q.name = n BY DEF Idle
  <2>2. q \in CallRow BY IdleRow DEF CallRow
  <2>3. Start(c, q) BY <1>8
  <2> HIDE DEF q
  <2>4. CallSound(q, open, next) BY <1>1, <2>1 DEF CallSound
  <2> QED BY <2>1, <2>2, <2>3, <2>4, StartStep
<1> QED BY <1>3, <1>4, <1>5, <1>6, <1>7, <1>8 DEF CreateUser

-----------------------------------------------------------------------------
(* The tables change.                                                      *)

\* What the other calls know survives a larger sequence.
LEMMA LargerSequence ==
  ASSUME AccountsInv, NEW d \in Call
  PROVE  CallSound(call[d], open, next + 1)
<1>1. CallSound(call[d], open, next) /\ call[d].user \in 0..MaxUsers /\ next \in Nat BY CallFacts
<1>2. call[d].user < next + 1 BY <1>1, AccountsAssumption DEF CallSound
<1> QED BY <1>1, <1>2 DEF CallSound

\* A new account, with the linkages that come with it.
LEMMA NewAccount ==
  ASSUME AccountsInv, NEW c \in Call, NEW q \in CallRow, call' = [call EXCEPT ![c] = q], q.st # "setup",
         CallSound(q, open, next + 1),
         NEW row \in UserRow, NEW how \in BornRow, Insert(row, how), UNCHANGED open,
         NEW new \in SUBSET LinkRow, links' = links \cup new, \A l \in new : l.user = next,
         how.how = "setup" => call[c].st = "setup" /\ how.proc = call[c].proc,
         ~ open => how.how \in {"setup", "admin"}
  PROVE  AccountsInv'
<1> USE DEF AccountsInv
<1>1. /\ next \in Nat \ {0} /\ next <= MaxUsers /\ next' = next + 1 /\ next \in Account
      /\ user' = [user EXCEPT ![next] = row] /\ born' = [born EXCEPT ![next] = how]
  BY AccountsAssumption DEF AccountsTyped, Insert, Account
<1>2. call \in [Call -> CallRow] /\ \A d \in Call : call'[d] = IF d = c THEN q ELSE call[d]
  BY DEF AccountsTyped
<1>3. AccountsTyped' BY <1>1 DEF AccountsTyped
<1>4. \A d \in Call : CallSound(call'[d], open', next') BY <1>1, <1>2, LargerSequence
<1>5. /\ \A i \in Account : user'[i] = IF i = next THEN row ELSE user[i]
      /\ \A i \in Account : born'[i] = IF i = next THEN how ELSE born[i]
  BY <1>1 DEF AccountsTyped
<1>6. BelowSequence'
  <2>1. \A i \in Account : i >= next' => user'[i] = None
    BY <1>1, <1>5, AccountsAssumption DEF BelowSequence, Account
  <2>2. \A l \in links' : l.user < next'
    <3>1. \A l \in links : l.user \in Nat /\ l.user < next
      BY AccountsAssumption DEF AccountsTyped, BelowSequence, LinkRow, Account
    <3> QED BY <1>1, <3>1
  <2> QED BY <2>1, <2>2 DEF BelowSequence
<1>7. Existing' \subseteq Existing \cup {next} BY <1>5 DEF Existing
<1>8. ASSUME NEW p, how = SetupBy(p)
      PROVE  call[c].st = "setup" /\ p = call[c].proc
  <2>1. SetupBy(p).how = "setup" /\ SetupBy(p).proc = p BY DEF SetupBy
  <2> QED BY <1>8, <2>1
<1>9. \A i \in Existing' : i \in Account /\ (i # next => i \in Existing /\ born'[i] = born[i])
  BY <1>5, <1>7 DEF Existing
<1>10. born'[next] = how BY <1>1, <1>5
<1>11. SetupAlone'
  <2>1. \A a, d \in Call : call'[a].st = "setup" /\ call'[d].st = "setup" /\ call'[a].proc = call'[d].proc => a = d
    BY <1>2 DEF SetupAlone
  <2>2. ASSUME NEW d \in Call, call'[d].st = "setup", NEW i \in Existing'
        PROVE  born'[i] # SetupBy(call'[d].proc)
    <3>1. d # c /\ call'[d] = call[d] /\ call[d].st = "setup" BY <1>2, <2>2
    <3>2. CASE i = next
      <4>1. how # SetupBy(call[d].proc) BY <1>8, <3>1 DEF SetupAlone
      <4> QED BY <1>10, <3>1, <3>2, <4>1
    <3>3. CASE i # next BY <1>9, <3>1, <3>3 DEF SetupAlone
    <3> QED BY <3>2, <3>3
  <2> QED BY <2>1, <2>2 DEF SetupAlone
<1>12. OneSetup'
  <2> SUFFICES ASSUME NEW p \in Process, NEW i \in Existing', NEW j \in Existing',
                      born'[i] = SetupBy(p), born'[j] = SetupBy(p)
               PROVE  i = j
    BY DEF OneSetup
  <2>1. ASSUME NEW k \in Existing, born[k] = SetupBy(p), how = SetupBy(p) PROVE FALSE
    BY <1>8, <2>1 DEF SetupAlone
  <2> QED BY <1>9, <1>10, <2>1 DEF OneSetup
<1>13. ClosedRegistration' BY <1>9, <1>10 DEF ClosedRegistration
<1> QED BY <1>3, <1>4, <1>6, <1>11, <1>12, <1>13

\* Accounts stay what they are or go, linkages come or go.
LEMMA NoNewAccount ==
  ASSUME AccountsInv, UNCHANGED <<open, next>>,
         user' \in [Account -> UserRow \cup {None}], born' \in [Account -> BornRow \cup {None}],
         \A i \in Account : user[i] = None => user'[i] = None,
         \A i \in Existing' : born'[i] = born[i],
         links' \in SUBSET LinkRow, \A l \in links' : l.user < next,
         \/ UNCHANGED call
         \/ \E c \in Call : call' = [call EXCEPT ![c] = Idle]
  PROVE  AccountsInv'
<1> USE DEF AccountsInv
<1>1. next \in Nat \ {0} BY DEF AccountsTyped
<1>2. /\ call' \in [Call -> CallRow]
      /\ \A d \in Call : call'[d] = call[d] \/ call'[d] = Idle
  BY IdleRow DEF AccountsTyped
<1>3. AccountsTyped' BY <1>2 DEF AccountsTyped
<1>4. \A d \in Call : CallSound(call'[d], open', next') BY <1>1, <1>2, IdleRow
<1>5. Existing' \subseteq Existing BY DEF Existing
<1>6. \A d \in Call : call'[d].st = "setup" => call'[d] = call[d] BY <1>2, IdleRow
<1>7. BelowSequence' BY DEF BelowSequence
<1>8. SetupAlone' BY <1>5, <1>6 DEF SetupAlone
<1>9. OneSetup' BY <1>5 DEF OneSetup
<1>10. ClosedRegistration' BY <1>5 DEF ClosedRegistration
<1> QED BY <1>3, <1>4, <1>7, <1>8, <1>9, <1>10

LEMMA ReturnedSound == AccountsInv => CallSound(Idle, open, next + 1)
BY IdleRow DEF AccountsInv, AccountsTyped

\* The rows of a new account.
LEMMA NewRows ==
  /\ \A n \in Username \cup Subject \cup ({"uuid"} \X Nat), r \in {"ADMIN", "USER"} :
       [name |-> n, role |-> r, status |-> "NORMAL"] \in UserRow
  /\ \A h \in {"setup", "sso", "admin", "register"}, p \in Process \cup {None} :
       [how |-> h, proc |-> p] \in BornRow
BY DEF UserRow, BornRow

LEMMA InsertUserStep ==
  ASSUME AccountsInv, NEW c \in Call, InsertUser(c)
  PROVE  AccountsInv'
<1>1. call[c].st = "create" /\ Return(c) /\ UNCHANGED <<links, open>> BY DEF InsertUser
<1>2. /\ call[c].kind \in {"admin", "register"} /\ call[c].name \in Username
      /\ call[c].kind = "register" => open
  BY <1>1, CallFacts DEF CallSound
<1>3. ASSUME NEW role \in {"ADMIN", "USER"},
             Insert([name |-> call[c].name, role |-> role, status |-> "NORMAL"],
                    [how |-> call[c].kind, proc |-> None])
      PROVE  AccountsInv'
  <2> DEFINE row == [name |-> call[c].name, role |-> role, status |-> "NORMAL"]
             how == [how |-> call[c].kind, proc |-> None]
  <2>1. row \in UserRow /\ how \in BornRow BY <1>2, NewRows
  <2>2. how.how = call[c].kind OBVIOUS
  <2>3. Insert(row, how) BY <1>3
  <2> HIDE DEF row, how
  <2>4. links' = links \cup {} /\ {} \in SUBSET LinkRow /\ \A l \in {} : l.user = next BY <1>1
  <2>5. call' = [call EXCEPT ![c] = Idle] /\ Idle.st # "setup" /\ open' = open BY <1>1, IdleRow DEF Return
  <2>6. how.how # "setup" /\ (~ open => how.how \in {"setup", "admin"}) BY <1>2, <2>2
  <2> QED BY <2>1, <2>3, <2>4, <2>5, <2>6, IdleRow, ReturnedSound, NewAccount
<1> QED BY <1>1, <1>3, ReturnStep DEF InsertUser, SameRows

LEMMA SetupCreateStep ==
  ASSUME AccountsInv, NEW c \in Call, SetupCreate(c)
  PROVE  AccountsInv'
<1>1. call[c].st = "setup" /\ Return(c) /\ UNCHANGED <<links, open>> BY DEF SetupCreate
<1>2. call[c].name \in Username /\ call[c].proc \in Process BY <1>1, CallFacts DEF CallSound
<1>3. ASSUME Insert([name |-> call[c].name, role |-> "ADMIN", status |-> "NORMAL"],
                    [how |-> "setup", proc |-> call[c].proc])
      PROVE  AccountsInv'
  <2> DEFINE row == [name |-> call[c].name, role |-> "ADMIN", status |-> "NORMAL"]
             how == [how |-> "setup", proc |-> call[c].proc]
  <2>1. row \in UserRow /\ how \in BornRow BY <1>2, NewRows
  <2>2. how.how = "setup" /\ how.proc = call[c].proc OBVIOUS
  <2>3. Insert(row, how) BY <1>3
  <2> HIDE DEF row, how
  <2>4. links' = links \cup {} /\ {} \in SUBSET LinkRow /\ \A l \in {} : l.user = next BY <1>1
  <2>5. call' = [call EXCEPT ![c] = Idle] /\ Idle.st # "setup" /\ open' = open BY <1>1, IdleRow DEF Return
  <2>6. call[c].st = "setup" /\ how.proc = call[c].proc /\ how.how \in {"setup", "admin"} BY <1>1, <2>2
  <2> QED BY <2>1, <2>3, <2>4, <2>5, <2>6, IdleRow, ReturnedSound, NewAccount
<1> QED BY <1>1, <1>3, ReturnStep DEF SetupCreate, SameRows

\* The transaction of a first login: the account, its linkage and the decision.
LEMMA CreatedSSO ==
  ASSUME AccountsInv, NEW c \in Call, CreateSSOUser(c), ~ UNCHANGED links
  PROVE  /\ call[c].st = "insert" /\ next \in Account /\ Linked(call[c].provider, call[c].subject) = {}
         /\ \E n \in Username \cup Subject \cup ({"uuid"} \X Nat) :
              Insert([name |-> n, role |-> "USER", status |-> "NORMAL"], [how |-> "sso", proc |-> None])
         /\ links' = links \cup {[user |-> next, provider |-> call[c].provider, subject |-> call[c].subject]}
         /\ call' = [call EXCEPT ![c].st = "signedIn", ![c].user = next, ![c].attempt = 0]
         /\ UNCHANGED open
<1> DEFINE name == IF call[c].attempt = 0 THEN call[c].subject ELSE <<"uuid", next>>
<1>1. ~ SameRows BY DEF SameRows
<1>2. /\ call[c].st = "insert" /\ Linked(call[c].provider, call[c].subject) = {}
      /\ Insert([name |-> name, role |-> "USER", status |-> "NORMAL"], [how |-> "sso", proc |-> None])
      /\ links' = links \cup {[user |-> next, provider |-> call[c].provider, subject |-> call[c].subject]}
      /\ call' = [call EXCEPT ![c].st = "signedIn", ![c].user = next, ![c].attempt = 0]
      /\ UNCHANGED open
  BY <1>1 DEF CreateSSOUser
<1>3. next \in Nat \ {0} /\ call[c].subject \in Subject BY <1>2, CallFacts DEF CallSound
<1>4. name \in Username \cup Subject \cup ({"uuid"} \X Nat) BY <1>3
<1>5. next \in Account BY <1>2, <1>3, AccountsAssumption DEF Insert, Account
<1> HIDE DEF name
<1> QED BY <1>2, <1>4, <1>5

LEMMA CreateSSOUserStep ==
  ASSUME AccountsInv, NEW c \in Call, CreateSSOUser(c)
  PROVE  AccountsInv'
<1>1. call[c].st = "insert" BY DEF CreateSSOUser
<1>2. call[c] \in CallRow /\ CallSound(call[c], open, next) /\ next \in Nat \ {0} BY CallFacts
<1>3. ASSUME Goto(c, "reread"), SameRows PROVE AccountsInv'
  <2>1. \A q \in CallRow :
          /\ q.st = "reread" /\ q.kind = call[c].kind /\ q.proc = call[c].proc
          /\ q.provider = call[c].provider /\ q.subject = call[c].subject /\ q.user = call[c].user
          /\ q.name = call[c].name
          => CallSound(q, open, next)
    BY <1>1, <1>2 DEF CallSound
  <2> QED BY <1>3, <2>1, GoOn DEF Stage
<1>4. ASSUME ~ UNCHANGED links PROVE AccountsInv'
  <2> DEFINE q == [call[c] EXCEPT !.st = "signedIn", !.user = next, !.attempt = 0]
             row(n) == [name |-> n, role |-> "USER", status |-> "NORMAL"]
             how == [how |-> "sso", proc |-> None]
             l == [user |-> next, provider |-> call[c].provider, subject |-> call[c].subject]
  <2>1. call' = [call EXCEPT ![c] = q] /\ next \in Account BY <1>4, CallFacts, CreatedSSO
  <2>2. next \in 0..MaxUsers BY <2>1, AccountsAssumption DEF Account
  <2>3. /\ q \in CallRow /\ q.st = "signedIn" /\ q.kind = call[c].kind /\ q.user = next
        /\ q.provider = call[c].provider /\ q.subject = call[c].subject
    BY <1>2, <2>2 DEF CallRow, Stage
  <2> HIDE DEF q
  <2>4. next < next + 1 BY <1>2
  <2>5. CallSound(q, open, next + 1) BY <1>1, <1>2, <2>3, <2>4 DEF CallSound
  <2>6. PICK n \in Username \cup Subject \cup ({"uuid"} \X Nat) :
          Insert(row(n), how)
    BY <1>4, CreatedSSO
  <2>7. row(n) \in UserRow /\ how \in BornRow BY NewRows
  <2>8. how.how = "sso" OBVIOUS
  <2>9. l \in LinkRow /\ l.user = next BY <1>1, <1>2, <2>1 DEF LinkRow, CallSound
  <2>10. links' = links \cup {l} /\ UNCHANGED open BY <1>4, CreatedSSO
  <2>11. open BY <1>1, <1>2 DEF CallSound
  <2> HIDE DEF how, l, row
  <2>12. {l} \in SUBSET LinkRow /\ \A x \in {l} : x.user = next BY <2>9
  <2>13. how.how # "setup" /\ q.st # "setup" BY <2>3, <2>8
  <2> QED BY <2>1, <2>3, <2>5, <2>6, <2>7, <2>10, <2>11, <2>12, <2>13, NewAccount
<1>5. (Goto(c, "reread") /\ SameRows) \/ ~ UNCHANGED links
  <2> DEFINE l == [user |-> next, provider |-> call[c].provider, subject |-> call[c].subject]
  <2>1. Linked(call[c].provider, call[c].subject) = {} => l \notin links BY DEF Linked
  <2> QED BY <2>1 DEF CreateSSOUser
<1> QED BY <1>3, <1>4, <1>5

LEMMA LinkingSteps ==
  ASSUME AccountsInv, NEW c \in Call, BindIdentity(c) \/ UnlinkIdentity(c)
  PROVE  AccountsInv'
<1> DEFINE row == [user |-> call[c].user, provider |-> call[c].provider, subject |-> call[c].subject]
<1>1. UNCHANGED <<open, next, user, born>> /\ call' = [call EXCEPT ![c] = Idle]
  BY DEF BindIdentity, UnlinkIdentity, SameAccounts, Return
<1>2. ASSUME call[c].st = "bind" PROVE row \in LinkRow /\ row.user < next
  <2>1. /\ call[c].user \in Account /\ call[c].provider \in Provider /\ call[c].subject \in Subject
        /\ call[c].user < next
    BY <1>2, CallFacts, AccountsAssumption DEF CallSound, Account
  <2> QED BY <2>1 DEF LinkRow
<1> HIDE DEF row
<1>3. links' \in SUBSET links \/ (call[c].st = "bind" /\ links' = links \cup {row})
  BY DEF BindIdentity, UnlinkIdentity, row
<1>4. links' \in SUBSET LinkRow /\ \A l \in links' : l.user < next
  BY <1>2, <1>3 DEF AccountsInv, AccountsTyped, BelowSequence
<1>5. user' \in [Account -> UserRow \cup {None}] /\ born' \in [Account -> BornRow \cup {None}]
  BY <1>1 DEF AccountsInv, AccountsTyped
<1> QED BY <1>1, <1>4, <1>5, NoNewAccount

\* Renaming, archiving and restoring write one row that exists.
LEMMA UpdateUserStep ==
  ASSUME AccountsInv, NEW i \in Existing, NEW row \in UserRow, UpdateUser(i, row)
  PROVE  AccountsInv'
<1>1. i \in Account /\ user[i] # None BY DEF Existing
<1>2. user' = [user EXCEPT ![i] = row] /\ UNCHANGED <<links, call, open, next, born>> BY DEF UpdateUser
<1>3. /\ user' \in [Account -> UserRow \cup {None}] /\ born' \in [Account -> BornRow \cup {None}]
      /\ links' \in SUBSET LinkRow /\ \A l \in links' : l.user < next
  BY <1>1, <1>2 DEF AccountsInv, AccountsTyped, BelowSequence
<1>4. \A j \in Account : user[j] = None => user'[j] = None
  BY <1>1, <1>2 DEF AccountsInv, AccountsTyped
<1> QED BY <1>2, <1>3, <1>4, NoNewAccount

LEMMA AccountSteps ==
  ASSUME AccountsInv, NEW i \in Account,
         \/ DeleteUser(i)
         \/ \E n \in Username : Rename(i, n)
         \/ \E st \in {"NORMAL", "ARCHIVED"} : SetState(i, st)
  PROVE  AccountsInv'
<1>1. CASE DeleteUser(i)
  <2>1. /\ user' = [user EXCEPT ![i] = None] /\ born' = [born EXCEPT ![i] = None]
        /\ links' \in SUBSET links /\ UNCHANGED <<call, open, next>>
    BY <1>1 DEF DeleteUser
  <2>2. /\ user' \in [Account -> UserRow \cup {None}] /\ born' \in [Account -> BornRow \cup {None}]
        /\ links' \in SUBSET LinkRow /\ \A l \in links' : l.user < next
    BY <2>1 DEF AccountsInv, AccountsTyped, BelowSequence
  <2>3. /\ \A j \in Account : user[j] = None => user'[j] = None
        /\ \A j \in Existing' : born'[j] = born[j]
    BY <2>1 DEF AccountsInv, AccountsTyped, Existing
  <2> QED BY <2>1, <2>2, <2>3, NoNewAccount
<1>2. ASSUME NEW n \in Username, Rename(i, n) PROVE AccountsInv'
  <2> DEFINE row == [user[i] EXCEPT !.name = n]
  <2>1. i \in Existing /\ UpdateUser(i, row) BY <1>2 DEF Rename, BySelfOrAdmin
  <2>2. user[i] \in UserRow BY <2>1 DEF AccountsInv, AccountsTyped, Existing
  <2>3. row \in UserRow BY <2>2 DEF UserRow
  <2> QED BY <2>1, <2>3, UpdateUserStep
<1>3. ASSUME NEW st \in {"NORMAL", "ARCHIVED"}, SetState(i, st) PROVE AccountsInv'
  <2> DEFINE row == [user[i] EXCEPT !.status = st]
  <2>1. i \in Existing /\ UpdateUser(i, row) BY <1>3 DEF SetState
  <2>2. user[i] \in UserRow BY <2>1 DEF AccountsInv, AccountsTyped, Existing
  <2>3. row \in UserRow BY <2>2 DEF UserRow
  <2> QED BY <2>1, <2>3, UpdateUserStep
<1> QED BY <1>1, <1>2, <1>3

-----------------------------------------------------------------------------
(* Every reachable state.                                                  *)

LEMMA AccountsInitial == AccountsInit => AccountsInv
<1> SUFFICES ASSUME AccountsInit PROVE AccountsInv OBVIOUS
<1>1. call \in [Call -> CallRow] /\ \A c \in Call : call[c] = Idle BY IdleRow DEF AccountsInit
<1>2. AccountsTyped BY <1>1 DEF AccountsInit, AccountsTyped
<1>3. Existing = {} BY DEF AccountsInit, Existing
<1>4. \A c \in Call : CallSound(call[c], open, next) BY <1>1, IdleRow DEF AccountsInit
<1>5. BelowSequence BY DEF AccountsInit, BelowSequence
<1>6. SetupAlone BY <1>1, IdleRow DEF SetupAlone
<1>7. OneSetup /\ ClosedRegistration BY <1>3 DEF OneSetup, ClosedRegistration
<1> QED BY <1>2, <1>4, <1>5, <1>6, <1>7 DEF AccountsInv

LEMMA AccountsInductive == AccountsInv /\ [AccountsNext]_accountVars => AccountsInv'
<1>1. ASSUME AccountsInv, UNCHANGED accountVars PROVE AccountsInv'
  BY <1>1 DEF accountVars, AccountsInv, AccountsTyped, BelowSequence, SetupAlone, OneSetup,
              ClosedRegistration, Existing
<1>2. ASSUME AccountsInv, NEW c \in Call, Step(c) PROVE AccountsInv'
  BY <1>2, ReadingSteps, CreateSSOUserStep, LinkingSteps, SetupCreateStep, InsertUserStep DEF Step
<1> QED BY <1>1, <1>2, StartSteps, AccountSteps DEF AccountsNext

\* However many first-user setups race on a process, one of them makes the
\* administrator: the count and the insertion are under userCreateMu.
THEOREM OneAdministratorPerProcess == AccountsSpec => []OneSetupPerProcess
<1>1. AccountsInv => OneSetupPerProcess
  <2> SUFFICES ASSUME AccountsInv, NEW p \in Process
               PROVE  Cardinality({i \in Existing : born[i] = [how |-> "setup", proc |-> p]}) <= 1
    BY DEF OneSetupPerProcess
  <2> DEFINE S == {i \in Existing : born[i] = [how |-> "setup", proc |-> p]}
  <2>1. \A i, j \in S : i = j BY DEF AccountsInv, OneSetup, SetupBy
  <2>2. CASE S = {}
    <3>1. Cardinality(S) = 0 BY <2>2, FS_EmptySet
    <3> QED BY <3>1
  <2>3. CASE S # {}
    <3>1. PICK i \in S : TRUE BY <2>3
    <3>2. S = {i} BY <2>1, <3>1
    <3>3. Cardinality({i}) = 1 BY FS_Singleton
    <3> QED BY <3>2, <3>3
  <2> QED BY <2>2, <2>3
<1> QED BY AccountsInitial, AccountsInductive, <1>1, PTL DEF AccountsSpec

\* The registration gate has no side entrance: not the setup that lost its race,
\* not the retries of a first login under another name.
THEOREM RegistrationStaysClosed == AccountsSpec => []ClosedRegistration
<1>1. AccountsInv => ClosedRegistration BY DEF AccountsInv
<1> QED BY AccountsInitial, AccountsInductive, <1>1, PTL DEF AccountsSpec

-----------------------------------------------------------------------------
(* Linkages.                                                               *)

\* What links an identity to an account.
LEMMA WhoLinks ==
  ASSUME AccountsInv, AccountsNext
  PROVE  \/ links' \in SUBSET links
         \/ \E c \in Call : BindIdentity(c)
         \/ \E c \in Call : CreateSSOUser(c)
<1>1. ASSUME NEW c \in Call,
             \/ Fail(c) \/ Lookup(c) \/ LoadUser(c) \/ Answer(c) \/ SSOGate(c) \/ Reread(c)
             \/ RetryName(c) \/ CheckExisting(c) \/ UnlinkIdentity(c)
             \/ RegisterGate(c) \/ SetupLock(c) \/ SetupCreate(c) \/ InsertUser(c)
      PROVE  links' \in SUBSET links
  BY <1>1 DEF Fail, Lookup, LoadUser, Answer, SSOGate, Reread, RetryName, CheckExisting, UnlinkIdentity,
              RegisterGate, SetupLock, SetupCreate, InsertUser, GetLinkage, SameRows
<1>2. ASSUME NEW c \in Call,
             \/ \E p \in Provider, s \in Subject :
                  SignInSSO(c, p, s) \/ \E u \in Account : CreateLinkedIdentity(c, u, p, s)
             \/ \E p \in Provider, u \in Account : DeleteLinkedIdentity(c, u, p)
             \/ \E p \in Process, n \in Username : CreateUser(c, p, n)
      PROVE  links' \in SUBSET links
  BY <1>2 DEF SignInSSO, CreateLinkedIdentity, DeleteLinkedIdentity, CreateUser, Start, SameRows
<1>3. ASSUME NEW i \in Account,
             \/ DeleteUser(i) \/ \E n \in Username : Rename(i, n)
             \/ \E st \in {"NORMAL", "ARCHIVED"} : SetState(i, st)
      PROVE  links' \in SUBSET links
  BY <1>3 DEF DeleteUser, Rename, SetState, UpdateUser
<1> QED BY <1>1, <1>2, <1>3 DEF AccountsNext, Step

LEMMA TakeoverStep ==
  ASSUME AccountsInv, AccountsNext, NEW row \in links' \ links
  PROVE  \/ user[row.user] = None
         \/ \E c \in Call : call[c].kind = "bind" /\ call[c].user = row.user /\ call[c].subject = row.subject
<1>1. ASSUME NEW c \in Call, BindIdentity(c)
      PROVE  call[c].kind = "bind" /\ call[c].user = row.user /\ call[c].subject = row.subject
  <2>1. call[c].st = "bind"
        /\ row = [user |-> call[c].user, provider |-> call[c].provider, subject |-> call[c].subject]
    BY <1>1 DEF BindIdentity
  <2>2. call[c].kind = "bind" BY <2>1, CallFacts DEF CallSound
  <2> QED BY <2>1, <2>2
<1>2. ASSUME NEW c \in Call, CreateSSOUser(c) PROVE user[row.user] = None
  <2>1. /\ next \in Account
        /\ row = [user |-> next, provider |-> call[c].provider, subject |-> call[c].subject]
    BY <1>2, CreatedSSO
  <2>2. user[next] = None
    BY <2>1, CallFacts DEF AccountsInv, BelowSequence
  <2> QED BY <2>1, <2>2
<1> QED BY <1>1, <1>2, WhoLinks

\* A first login is never given an account that was there before, whatever that
\* account is called: only the account's own call links an identity to it.
THEOREM NeverTakenOver == AccountsSpec => NoTakeover
<1>1. AccountsInv /\ [AccountsNext]_accountVars =>
        [\A row \in links' \ links :
           \/ user[row.user] = None
           \/ \E c \in Call : call[c].kind = "bind" /\ call[c].user = row.user
                              /\ call[c].subject = row.subject]_accountVars
  BY TakeoverStep
<1> QED BY AccountsInitial, AccountsInductive, <1>1, PTL DEF AccountsSpec, NoTakeover

-----------------------------------------------------------------------------
(* Sign-on implements Linkage.                                             *)

\* Both change only at the call that takes the step.
LEMMA ViewOf ==
  ASSUME AccountsInv, NEW c \in Call, NEW q, call' = [call EXCEPT ![c] = q]
  PROVE  /\ Asked' = [Asked EXCEPT ![c] = AskedBy(q)]
         /\ Decided' = [Decided EXCEPT ![c] = DecidedFor(q)]
<1>1. \A d \in Call : call'[d] = IF d = c THEN q ELSE call[d] BY CallFacts
<1>2. \A d \in Call : /\ Asked'[d] = IF d = c THEN AskedBy(q) ELSE Asked[d]
                      /\ Decided'[d] = IF d = c THEN DecidedFor(q) ELSE Decided[d]
  BY <1>1 DEF Asked, Decided, AskedBy, DecidedFor
<1>3. /\ Asked' = [d \in Call |-> Asked'[d]] /\ Decided' = [d \in Call |-> Decided'[d]]
      /\ Asked = [d \in Call |-> Asked[d]] /\ Decided = [d \in Call |-> Decided[d]]
  BY DEF Asked, Decided
<1> QED BY <1>2, <1>3

\* What a call showed, written again, changes nothing.
LEMMA Rewrite ==
  ASSUME NEW c \in Call
  PROVE  /\ Asked = [Asked EXCEPT ![c] = AskedBy(call[c])]
         /\ Decided = [Decided EXCEPT ![c] = DecidedFor(call[c])]
BY DEF Asked, Decided

\* Nothing to be seen of a step that keeps the kind, the identity and the account.
LEMMA Unseen ==
  ASSUME AccountsInv, NEW c \in Call, NEW q, call' = [call EXCEPT ![c] = q],
         AskedBy(q) = AskedBy(call[c]), DecidedFor(q) = DecidedFor(call[c])
  PROVE  Asked' = Asked /\ Decided' = Decided
BY ViewOf DEF Asked, Decided

LEMMA GotoUnseen ==
  ASSUME AccountsInv, NEW c \in Call, NEW st \in Stage, Goto(c, st)
  PROVE  Asked' = Asked /\ Decided' = Decided
<1>1. PICK q \in CallRow :
        /\ call' = [call EXCEPT ![c] = q]
        /\ q.st = st /\ q.kind = call[c].kind /\ q.proc = call[c].proc
        /\ q.provider = call[c].provider /\ q.subject = call[c].subject /\ q.user = call[c].user
        /\ q.name = call[c].name
  BY GotoStep
<1> QED BY <1>1, Unseen DEF AskedBy, DecidedFor

\* The identity a login presents is one.
LEMMA AskedSome ==
  ASSUME AccountsInv, NEW c \in Call, call[c].kind = "sso"
  PROVE  /\ Asked[c] = [provider |-> call[c].provider, subject |-> call[c].subject]
         /\ Asked[c] # None /\ Asked[c].provider = call[c].provider /\ Asked[c].subject = call[c].subject
<1>1. call[c].provider \in Provider /\ call[c].subject \in Subject BY CallFacts DEF CallSound
<1>2. Asked[c] = [provider |-> call[c].provider, subject |-> call[c].subject] BY DEF Asked, AskedBy
<1>3. Asked[c] \in [provider : Provider, subject : Subject] BY <1>1, <1>2
<1> QED BY <1>2, <1>3, AccountsAssumption

\* A call that ends: a login leaves, any other call was not seen.
LEMMA ReturnSeen ==
  ASSUME AccountsInv, NEW c \in Call, Return(c), UNCHANGED links
  PROVE  Promise!Leave(c) \/ (Asked' = Asked /\ Decided' = Decided)
<1>1. AskedBy(Idle) = None /\ DecidedFor(Idle) = None
  BY IdleRow, AccountsAssumption DEF AskedBy, DecidedFor, Kind
<1>2. call' = [call EXCEPT ![c] = Idle] BY DEF Return
<1>3. CASE call[c].kind = "sso"
  <2>1. Asked[c] # None BY <1>3, AskedSome
  <2>2. Asked' = [Asked EXCEPT ![c] = None] /\ Decided' = [Decided EXCEPT ![c] = None]
    BY <1>1, <1>2, ViewOf
  <2> QED BY <2>1, <2>2 DEF Promise!Leave
<1>4. CASE call[c].kind # "sso"
  <2>1. AskedBy(call[c]) = None /\ DecidedFor(call[c]) = None BY <1>4 DEF AskedBy, DecidedFor
  <2> QED BY <1>1, <1>2, <2>1, Unseen
<1> QED BY <1>3, <1>4

\* A step of Linkage, or none.
Seen == Promise!LinkageNext \/ UNCHANGED Promise!linkVars

LEMMA SeenLeaving ==
  ASSUME AccountsInv, NEW c \in Call, Return(c), UNCHANGED links
  PROVE  Seen
BY ReturnSeen DEF Seen, Promise!LinkageNext, Promise!linkVars

LEMMA SeenGoing ==
  ASSUME AccountsInv, NEW c \in Call, NEW st \in Stage, Goto(c, st), UNCHANGED links
  PROVE  Seen
BY GotoUnseen DEF Seen, Promise!linkVars

\* The read that finds a linkage decides the login for its account.
LEMMA SeenReading ==
  ASSUME AccountsInv, NEW c \in Call, NEW miss \in Stage, GetLinkage(c, miss), call[c].st \in {"lookup", "reread"}
  PROVE  Seen
<1>1. UNCHANGED links BY DEF GetLinkage, SameRows
<1>2. ASSUME NEW row \in Linked(call[c].provider, call[c].subject),
             call' = [call EXCEPT ![c].st = "load", ![c].user = row.user, ![c].attempt = 0]
      PROVE  Seen
  <2> DEFINE q == [call[c] EXCEPT !.st = "load", !.user = row.user, !.attempt = 0]
  <2>1. call' = [call EXCEPT ![c] = q] BY <1>2, CallFacts
  <2>2. /\ row \in LinkRow /\ row \in links /\ row.user \in Account /\ row.user # 0
        /\ row.provider = call[c].provider /\ row.subject = call[c].subject
    BY AccountsAssumption DEF AccountsInv, AccountsTyped, Linked, LinkRow, Account
  <2>3. row.user \in 0..MaxUsers BY <2>2, AccountsAssumption DEF Account
  <2>4. call[c] \in CallRow /\ call[c].kind = "sso" /\ call[c].user = 0 BY CallFacts DEF CallSound
  <2>5. q.kind = "sso" /\ q.user = row.user /\ q.provider = call[c].provider /\ q.subject = call[c].subject
    BY <2>3, <2>4 DEF CallRow
  <2> HIDE DEF q
  <2>6. AskedBy(q) = AskedBy(call[c]) /\ DecidedFor(q) = row.user BY <2>2, <2>4, <2>5 DEF AskedBy, DecidedFor
  <2>7. Asked' = Asked /\ Decided' = [Decided EXCEPT ![c] = row.user] 
    <3>1. Asked' = [Asked EXCEPT ![c] = AskedBy(q)] /\ Decided' = [Decided EXCEPT ![c] = DecidedFor(q)]
      BY <2>1, ViewOf
    <3> QED BY <2>6, <3>1, Rewrite
  <2>8. Asked[c] # None /\ Asked[c].provider = call[c].provider /\ Asked[c].subject = call[c].subject
    BY <2>4, AskedSome
  <2>9. Decided[c] = None BY <2>4 DEF Decided, DecidedFor
  <2>10. Promise!Holds(row.user, Asked[c], links')
    <3>1. row = [user |-> row.user, provider |-> row.provider, subject |-> row.subject]
      BY <2>2 DEF LinkRow
    <3> QED BY <1>1, <2>2, <2>8, <3>1 DEF Promise!Holds
  <2>11. Promise!Decide(c, row.user) BY <1>1, <2>7, <2>8, <2>9, <2>10 DEF Promise!Decide
  <2> QED BY <2>2, <2>11 DEF Seen, Promise!LinkageNext
<1> QED BY <1>1, <1>2, SeenGoing DEF GetLinkage

\* The transaction that makes the account decides the login for it: the account
\* is new, so its linkage excludes no other.
LEMMA SeenCreating ==
  ASSUME AccountsInv, NEW c \in Call, CreateSSOUser(c)
  PROVE  Seen
<1>1. CASE UNCHANGED links
  <2>1. Goto(c, "reread")
    <3> DEFINE l == [user |-> next, provider |-> call[c].provider, subject |-> call[c].subject]
    <3>1. Linked(call[c].provider, call[c].subject) = {} => l \notin links BY DEF Linked
    <3> QED BY <1>1, <3>1 DEF CreateSSOUser
  <2> QED BY <1>1, <2>1, SeenGoing DEF Stage
<1>2. CASE ~ UNCHANGED links
  <2> DEFINE l == [user |-> next, provider |-> call[c].provider, subject |-> call[c].subject]
             q == [call[c] EXCEPT !.st = "signedIn", !.user = next, !.attempt = 0]
  <2>1. /\ call[c].st = "insert" /\ next \in Account /\ Linked(call[c].provider, call[c].subject) = {}
        /\ links' = links \cup {l}
        /\ call' = [call EXCEPT ![c].st = "signedIn", ![c].user = next, ![c].attempt = 0]
    BY <1>2, CreatedSSO
  <2>2. call' = [call EXCEPT ![c] = q] BY <2>1, CallFacts
  <2>3. next \in 0..MaxUsers /\ next # 0 BY <2>1, AccountsAssumption DEF Account
  <2>4. /\ call[c] \in CallRow /\ call[c].kind = "sso" /\ call[c].user = 0
        /\ call[c].provider \in Provider /\ call[c].subject \in Subject
    BY <2>1, CallFacts DEF CallSound
  <2>5. q.kind = "sso" /\ q.user = next /\ q.provider = call[c].provider /\ q.subject = call[c].subject
    BY <2>3, <2>4 DEF CallRow
  <2>6. /\ l \in Promise!LinkRow /\ l.user = next
        /\ l.provider = call[c].provider /\ l.subject = call[c].subject
    BY <2>1, <2>4 DEF Promise!LinkRow
  <2> HIDE DEF q
  <2>7. AskedBy(q) = AskedBy(call[c]) /\ DecidedFor(q) = next BY <2>3, <2>4, <2>5 DEF AskedBy, DecidedFor
  <2>8. Asked' = Asked /\ Decided' = [Decided EXCEPT ![c] = next] 
    <3>1. Asked' = [Asked EXCEPT ![c] = AskedBy(q)] /\ Decided' = [Decided EXCEPT ![c] = DecidedFor(q)]
      BY <2>2, ViewOf
    <3> QED BY <2>7, <3>1, Rewrite
  <2>9. Asked[c] # None /\ Asked[c].provider = call[c].provider /\ Asked[c].subject = call[c].subject
    BY <2>4, AskedSome
  <2>10. Decided[c] = None BY <2>4 DEF Decided, DecidedFor
  <2>11. Promise!Holds(next, Asked[c], links') BY <2>1, <2>9 DEF Promise!Holds
  <2> HIDE DEF l
  <2>12. ASSUME NEW other \in links PROVE ~ Promise!Excludes(l, other)
    <3>1. other.user # next BY <2>3, CallFacts DEF AccountsInv, BelowSequence, AccountsTyped, LinkRow, Account
    <3>2. ~ (other.provider = call[c].provider /\ other.subject = call[c].subject) BY <2>1 DEF Linked
    <3> QED BY <2>6, <3>1, <3>2 DEF Promise!Excludes
  <2>13. Promise!Link(l) BY <2>1, <2>12 DEF Promise!Link
  <2>14. Promise!Decide(c, next) BY <2>6, <2>8, <2>9, <2>10, <2>11, <2>13 DEF Promise!Decide
  <2> QED BY <2>1, <2>14 DEF Seen, Promise!LinkageNext
<1> QED BY <1>1, <1>2

\* A call that is no login is not seen, whatever it is started with or ends in.
LEMMA NoLogin ==
  ASSUME AccountsInv, NEW c \in Call, NEW q, call' = [call EXCEPT ![c] = q],
         call[c].kind # "sso", q.kind # "sso"
  PROVE  Asked' = Asked /\ Decided' = Decided
<1>1. AskedBy(q) = AskedBy(call[c]) /\ DecidedFor(q) = DecidedFor(call[c]) BY DEF AskedBy, DecidedFor
<1> QED BY <1>1, Unseen

LEMMA SeenLinking ==
  ASSUME AccountsInv, NEW c \in Call, BindIdentity(c) \/ UnlinkIdentity(c)
  PROVE  Seen
<1>1. call' = [call EXCEPT ![c] = Idle] BY DEF BindIdentity, UnlinkIdentity, Return
<1>2. call[c].kind \in {"bind", "unlink"} BY CallFacts DEF CallSound, BindIdentity, UnlinkIdentity
<1>3. Asked' = Asked /\ Decided' = Decided
  BY <1>1, <1>2, IdleRow, AccountsAssumption, NoLogin DEF Kind
<1>4. CASE links' \in SUBSET links
  BY <1>3, <1>4 DEF Seen, Promise!LinkageNext, Promise!Unlink
<1>5. CASE links' \notin SUBSET links
  <2> DEFINE l == [user |-> call[c].user, provider |-> call[c].provider, subject |-> call[c].subject]
  <2>1. call[c].st = "bind" /\ links' = links \cup {l} /\ ~ LinkConflict(l)
    BY <1>5 DEF BindIdentity, UnlinkIdentity
  <2>2. call[c].user \in Account /\ call[c].provider \in Provider /\ call[c].subject \in Subject
    BY <2>1, CallFacts, AccountsAssumption DEF CallSound, Account
  <2>3. l \in Promise!LinkRow BY <2>2 DEF Promise!LinkRow
  <2> HIDE DEF l
  <2>4. \A other \in links : ~ Promise!Excludes(l, other)
    BY <2>1 DEF LinkConflict, Linked, LinkedOf, Promise!Excludes
  <2>5. Promise!Bind BY <1>3, <2>1, <2>3, <2>4 DEF Promise!Bind, Promise!Link
  <2> QED BY <2>5 DEF Seen, Promise!LinkageNext
<1> QED BY <1>4, <1>5

\* The remaining statements of a call.
LEMMA SeenStatements ==
  ASSUME AccountsInv, NEW c \in Call,
         \/ Fail(c) \/ LoadUser(c) \/ Answer(c) \/ SSOGate(c) \/ RetryName(c) \/ CheckExisting(c)
         \/ RegisterGate(c) \/ SetupLock(c) \/ SetupCreate(c) \/ InsertUser(c)
  PROVE  Seen
<1>1. UNCHANGED links
  BY DEF Fail, LoadUser, Answer, SSOGate, RetryName, CheckExisting, RegisterGate, SetupLock, SetupCreate,
         InsertUser, SameRows
<1>2. ASSUME NEW a \in Nat, call' = [call EXCEPT ![c].st = "insert", ![c].attempt = a] PROVE Seen
  <2> DEFINE q == [call[c] EXCEPT !.st = "insert", !.attempt = a]
  <2>1. call' = [call EXCEPT ![c] = q] BY <1>2, CallFacts
  <2>2. q.kind = call[c].kind /\ q.user = call[c].user
        /\ q.provider = call[c].provider /\ q.subject = call[c].subject
    BY CallFacts DEF CallRow
  <2> HIDE DEF q
  <2>3. AskedBy(q) = AskedBy(call[c]) /\ DecidedFor(q) = DecidedFor(call[c])
    BY <2>2 DEF AskedBy, DecidedFor
  <2> QED BY <1>1, <2>1, <2>3, Unseen DEF Seen, Promise!linkVars
<1>3. CASE Return(c) BY <1>1, <1>3, SeenLeaving
<1>4. ASSUME NEW st \in Stage, Goto(c, st) PROVE Seen BY <1>1, <1>4, SeenGoing
<1>5. CASE Fail(c) \/ Answer(c) \/ SetupCreate(c) \/ InsertUser(c)
  BY <1>3, <1>5 DEF Fail, Answer, SetupCreate, InsertUser
<1>6. CASE LoadUser(c) BY <1>3, <1>4, <1>6 DEF LoadUser, Stage
<1>7. CASE SSOGate(c)
  <2> DEFINE a == IF call[c].subject \in Username THEN 0 ELSE 1
  <2>1. a \in Nat OBVIOUS
  <2>2. Return(c) \/ call' = [call EXCEPT ![c].st = "insert", ![c].attempt = a] BY <1>7 DEF SSOGate
  <2> HIDE DEF a
  <2> QED BY <1>2, <1>3, <2>1, <2>2
<1>8. CASE RetryName(c)
  <2> DEFINE a == call[c].attempt + 1
  <2>1. a \in Nat BY CallFacts DEF CallRow
  <2>2. Return(c) \/ call' = [call EXCEPT ![c].st = "insert", ![c].attempt = a] BY <1>8 DEF RetryName
  <2> HIDE DEF a
  <2> QED BY <1>2, <1>3, <2>1, <2>2
<1>9. CASE CheckExisting(c) BY <1>3, <1>4, <1>9 DEF CheckExisting, Stage
<1>10. CASE RegisterGate(c) BY <1>3, <1>4, <1>10 DEF RegisterGate, Stage
<1>11. CASE SetupLock(c) BY <1>4, <1>11 DEF SetupLock, Stage
<1> QED BY <1>5, <1>6, <1>7, <1>8, <1>9, <1>10, <1>11

\* A login asks for its identity; the other calls begin unseen.
LEMMA SeenStarting ==
  ASSUME AccountsInv, NEW c \in Call,
         \/ \E p \in Provider, s \in Subject :
              SignInSSO(c, p, s) \/ \E u \in Account : CreateLinkedIdentity(c, u, p, s)
         \/ \E p \in Provider, u \in Account : DeleteLinkedIdentity(c, u, p)
         \/ \E p \in Process, n \in Username : CreateUser(c, p, n)
  PROVE  Seen
<1>1. ASSUME NEW q, Start(c, q)
      PROVE  /\ UNCHANGED links /\ call' = [call EXCEPT ![c] = q]
             /\ call[c].kind # "sso" /\ Asked[c] = None /\ Decided[c] = None
  <2>1. call[c].kind # "sso" BY <1>1, CallFacts, AccountsAssumption DEF Start, CallSound, Kind
  <2> QED BY <1>1, <2>1 DEF Start, SameRows, Asked, Decided, AskedBy, DecidedFor
<1>2. ASSUME NEW q, Start(c, q), q.kind # "sso" PROVE Seen
  BY <1>1, <1>2, NoLogin DEF Seen, Promise!linkVars
<1>3. ASSUME NEW p \in Provider, NEW s \in Subject, SignInSSO(c, p, s) PROVE Seen
  <2> DEFINE q == [Idle EXCEPT !.st = "lookup", !.kind = "sso", !.provider = p, !.subject = s]
             id == [provider |-> p, subject |-> s]
  <2>1. q.kind = "sso" /\ q.provider = p /\ q.subject = s /\ q.user = 0 BY DEF Idle
  <2>2. Start(c, q) BY <1>3 DEF SignInSSO
  <2> HIDE DEF q
  <2>3. AskedBy(q) = id /\ DecidedFor(q) = None BY <2>1 DEF AskedBy, DecidedFor
  <2>4. id \in Promise!Identity BY DEF Promise!Identity
  <2> HIDE DEF id
  <2>5. Asked' = [Asked EXCEPT ![c] = id] /\ Decided' = Decided
    <3>1. Asked' = [Asked EXCEPT ![c] = AskedBy(q)] /\ Decided' = [Decided EXCEPT ![c] = DecidedFor(q)]
      BY <1>1, <2>2, ViewOf
    <3>2. DecidedFor(call[c]) = None BY <1>1, <2>2 DEF DecidedFor
    <3> QED BY <2>3, <3>1, <3>2, Rewrite
  <2>6. Promise!Ask(c, id) BY <1>1, <2>2, <2>5 DEF Promise!Ask
  <2> QED BY <2>4, <2>6 DEF Seen, Promise!LinkageNext
<1>4. ASSUME NEW p \in Provider, NEW s \in Subject, NEW u \in Account, CreateLinkedIdentity(c, u, p, s)
      PROVE  Seen
  <2> DEFINE q == [Idle EXCEPT !.st = "existing", !.kind = "bind", !.provider = p, !.subject = s, !.user = u]
  <2>1. q.kind = "bind" /\ Start(c, q) BY <1>4 DEF CreateLinkedIdentity, Idle
  <2> HIDE DEF q
  <2> QED BY <1>2, <2>1
<1>5. ASSUME NEW p \in Provider, NEW u \in Account, DeleteLinkedIdentity(c, u, p) PROVE Seen
  <2> DEFINE q == [Idle EXCEPT !.st = "unlink", !.kind = "unlink", !.provider = p, !.user = u]
  <2>1. q.kind = "unlink" /\ Start(c, q) BY <1>5 DEF DeleteLinkedIdentity, Idle
  <2> HIDE DEF q
  <2> QED BY <1>2, <2>1
<1>6. ASSUME NEW p \in Process, NEW n \in Username, CreateUser(c, p, n) PROVE Seen
  <2> DEFINE q1 == [Idle EXCEPT !.st = "create", !.kind = "admin", !.name = n]
             q2 == [Idle EXCEPT !.st = "setupLock", !.kind = "register", !.proc = p, !.name = n]
             q3 == [Idle EXCEPT !.st = "gate", !.kind = "register", !.name = n]
  <2>1. q1.kind = "admin" /\ q2.kind = "register" /\ q3.kind = "register" BY DEF Idle
  <2>2. Start(c, q1) \/ Start(c, q2) \/ Start(c, q3) BY <1>6 DEF CreateUser
  <2> HIDE DEF q1, q2, q3
  <2> QED BY <1>2, <2>1, <2>2
<1> QED BY <1>3, <1>4, <1>5, <1>6

\* Changes of an account only ever drop linkages.
LEMMA SeenAccounts ==
  ASSUME AccountsInv, NEW i \in Account,
         \/ DeleteUser(i)
         \/ \E n \in Username : Rename(i, n)
         \/ \E st \in {"NORMAL", "ARCHIVED"} : SetState(i, st)
  PROVE  Seen
<1>1. UNCHANGED call /\ links' \in SUBSET links BY DEF DeleteUser, Rename, SetState, UpdateUser
<1>2. Asked' = Asked /\ Decided' = Decided BY <1>1 DEF Asked, Decided
<1> QED BY <1>1, <1>2 DEF Seen, Promise!LinkageNext, Promise!Unlink

\* Sign-on implements Linkage: a login is decided once, for the account that holds
\* the identity at that moment, and an identity never has two accounts.
THEOREM SignOnImplementsLinkage == AccountsSpec => ImplementsLinkage
<1>1. AccountsInit => Promise!LinkageInit
  <2> SUFFICES ASSUME AccountsInit PROVE Promise!LinkageInit OBVIOUS
  <2>1. \A c \in Call : call[c] = Idle BY DEF AccountsInit
  <2>2. AskedBy(Idle) = None /\ DecidedFor(Idle) = None
    BY IdleRow, AccountsAssumption DEF AskedBy, DecidedFor, Kind
  <2>3. Asked = [c \in Call |-> None] /\ Decided = [c \in Call |-> None]
    BY <2>1, <2>2 DEF Asked, Decided
  <2> QED BY <2>3 DEF AccountsInit, Promise!LinkageInit
<1>2. AccountsInv /\ [AccountsNext]_accountVars => [Promise!LinkageNext]_Promise!linkVars
  <2>1. ASSUME UNCHANGED accountVars PROVE UNCHANGED Promise!linkVars
    BY <2>1 DEF accountVars, Promise!linkVars, Asked, Decided
  <2>2. ASSUME AccountsInv, NEW c \in Call, Step(c) PROVE Seen
    <3>1. CASE Lookup(c) \/ Reread(c) BY <2>2, <3>1, SeenReading DEF Lookup, Reread, Stage
    <3> QED BY <2>2, <3>1, SeenCreating, SeenLinking, SeenStatements DEF Step
  <2>3. ASSUME AccountsInv, AccountsNext PROVE Seen
    BY <2>2, <2>3, SeenStarting, SeenAccounts DEF AccountsNext
  <2> QED BY <2>1, <2>3 DEF Seen
<1> QED BY AccountsInitial, AccountsInductive, <1>1, <1>2, PTL
    DEF AccountsSpec, ImplementsLinkage, Promise!LinkageSpec
=============================================================================
