-------------------------- MODULE AuthConfigProofs --------------------------
(***************************************************************************)
(* No mutation of the sign-in configuration locks regular users out, for   *)
(* any number of processes, calls, providers and attempts, among the       *)
(* processes that go by the same deployment files.                         *)
(***************************************************************************)
EXTENDS AuthConfig, TLAPS

Row == [uid : Uid, id : Nat]
Op == [st : {"idle", "lock", "tx"}, proc : Process \cup {None},
       kind : {None, "general", "delete"}, value : Setting \cup {None}, id : Nat,
       general : Setting \cup {None}, idps : SUBSET Row, stale : BOOLEAN, attempt : Nat]

AuthTypeOK ==
  /\ general \in Setting \cup {None}
  /\ idps \subseteq Row
  /\ proc \in [Process -> [st : {"down", "general", "providers", "publish", "up"}, files : Files]]
  /\ call \in [Call -> Op]
  /\ nextId \in Nat

\* IDs come from the sequence; a call deletes by an ID it has looked up.
IdsIssued ==
  /\ \A row \in idps : row.id < nextId
  /\ \A c \in Call : call[c].kind = "delete" => call[c].id < nextId

\* A transaction whose snapshot no commit has overtaken has read the GENERAL row
\* as it is, misses providers created since alone, and knows the row it deletes.
SnapshotHolds(op) ==
  op.st = "tx" /\ ~op.stale =>
    /\ op.general = general
    /\ op.idps \subseteq idps
    /\ op.kind = "delete" => \A row \in idps : row.id = op.id => row \in op.idps

SnapshotsHold == \A c \in Call : SnapshotHolds(call[c])

\* A call that waits for the lock is a mutation, on a process that serves.
Mutates(op) ==
  op.st \in {"lock", "tx"} =>
    /\ op.kind \in {"general", "delete"} /\ (op.kind = "general" => op.value \in Setting)
    /\ op.proc \in Process /\ Serves(op.proc)

CallsMutate == \A c \in Call : Mutates(call[c])

\* The inductive invariant.
AuthInv == AuthTypeOK /\ IdsIssued /\ CallsMutate /\ SnapshotsHold

-----------------------------------------------------------------------------
(* Facts about the calls.                                                  *)

LEMMA IdleTyped == Idle \in Op /\ Idle.st = "idle" /\ Idle.kind = None
  BY DEF Idle, Op

\* A step that moves one call on, to a state that is in order, and leaves the
\* rows alone.
LEMMA CallStep ==
  ASSUME AuthInv, NEW c \in Call, NEW op \in Op,
         call' = [call EXCEPT ![c] = op],
         UNCHANGED <<general, idps, proc, nextId>>,
         op.kind = "delete" => op.id < nextId, Mutates(op), SnapshotHolds(op)
  PROVE  AuthInv'
  <1>1. AuthTypeOK'
    BY DEF AuthInv, AuthTypeOK
  <1>2. IdsIssued'
    BY DEF AuthInv, AuthTypeOK, IdsIssued
  <1>3. CallsMutate'
    BY DEF AuthInv, AuthTypeOK, CallsMutate, Mutates, Serves
  <1>4. SnapshotsHold'
    <2> SUFFICES ASSUME NEW d \in Call PROVE SnapshotHolds(call[d])'
      BY DEF SnapshotsHold
    <2>1. call'[d] = IF d = c THEN op ELSE call[d]
      BY DEF AuthInv, AuthTypeOK
    <2>2. SnapshotHolds(call[d])
      BY DEF AuthInv, SnapshotsHold
    <2> QED
      BY <2>1, <2>2 DEF SnapshotHolds
  <1> QED
    BY <1>1, <1>2, <1>3, <1>4 DEF AuthInv

\* A call that ends without a write.
LEMMA EndStep ==
  ASSUME AuthInv, NEW c \in Call, call' = [call EXCEPT ![c] = Idle],
         UNCHANGED <<general, idps, proc, nextId>>
  PROVE  AuthInv'
  <1>1. SnapshotHolds(Idle) /\ Mutates(Idle)
    BY IdleTyped DEF SnapshotHolds, Mutates
  <1>2. None \notin {"general", "delete"}
    BY AuthConfigAssumption
  <1> QED
    BY <1>1, <1>2, IdleTyped, CallStep

\* A snapshot is of the rows as they are.
LEMMA SnapshotStep ==
  ASSUME AuthInv, NEW c \in Call, NEW n \in Nat, call[c].st \in {"lock", "tx"},
         call' = [call EXCEPT ![c] = Snapshot(call[c], n)],
         UNCHANGED <<general, idps, proc, nextId>>
  PROVE  AuthInv'
  <1> DEFINE op == Snapshot(call[c], n)
  <1>1. call[c] \in Op
    BY DEF AuthInv, AuthTypeOK
  <1>2. /\ op \in Op /\ op.st = "tx" /\ op.general = general /\ op.idps = idps
        /\ op.kind = call[c].kind /\ op.value = call[c].value /\ op.id = call[c].id
        /\ op.proc = call[c].proc
    BY <1>1 DEF AuthInv, AuthTypeOK, Snapshot, Op
  <1>3. op.kind \in {"general", "delete"} /\ Mutates(op)
    BY <1>2 DEF AuthInv, CallsMutate, Mutates
  <1>4. op.kind = "delete" => op.id < nextId
    BY <1>2 DEF AuthInv, IdsIssued
  <1>5. SnapshotHolds(op)
    BY <1>2, <1>3 DEF SnapshotHolds
  <1> HIDE DEF op
  <1> QED
    BY <1>2, <1>3, <1>4, <1>5, CallStep DEF op

-----------------------------------------------------------------------------
(* The two steps that write.                                               *)

\* A provider more.
LEMMA CreateStep ==
  ASSUME AuthInv, NEW p \in Process, NEW u \in Uid, CreateProvider(p, u)
  PROVE  AuthInv'
  <1>1. AuthTypeOK'
    BY DEF AuthInv, AuthTypeOK, CreateProvider, Row
  <1>2. IdsIssued'
    BY DEF AuthInv, AuthTypeOK, IdsIssued, CreateProvider, Row, Op
  <1>3. CallsMutate'
    BY DEF AuthInv, CallsMutate, Mutates, Serves, CreateProvider
  <1>4. SnapshotsHold'
    <2> SUFFICES ASSUME NEW c \in Call PROVE SnapshotHolds(call[c])'
      BY DEF SnapshotsHold
    <2>1. SnapshotHolds(call[c])
      BY DEF AuthInv, SnapshotsHold
    <2>2. call[c] \in Op /\ (call[c].kind = "delete" => call[c].id < nextId)
      BY DEF AuthInv, AuthTypeOK, IdsIssued
    <2>3. call[c].kind = "delete" => call[c].id # nextId
      BY <2>2 DEF AuthInv, AuthTypeOK, Op
    <2> QED
      BY <2>1, <2>3 DEF SnapshotHolds, CreateProvider
  <1> QED
    BY <1>1, <1>2, <1>3, <1>4 DEF AuthInv

\* A commit that writes nothing changes nothing that is stored; one that writes
\* overtakes every other snapshot.
LEMMA CommitStep ==
  ASSUME AuthInv, NEW c \in Call, CommitTx(c)
  PROVE  AuthInv'
  <1> DEFINE op == call[c]
  <1>1. /\ op \in Op /\ op.st = "tx" /\ ~op.stale
        /\ op.kind \in {"general", "delete"}
        /\ op.kind = "general" => op.value \in Setting
    BY DEF AuthInv, AuthTypeOK, CallsMutate, Mutates, CommitTx
  <1>2. /\ idps' \subseteq idps
        /\ UNCHANGED <<proc, nextId>>
        /\ ~Writes(op) => idps' = idps /\ general' = general
    BY <1>1 DEF AuthInv, SnapshotsHold, SnapshotHolds, Writes, CommitTx
  <1>4. ASSUME NEW d \in Call, d # c
        PROVE  /\ call'[d] \in Op /\ call'[d].st = call[d].st /\ call'[d].kind = call[d].kind
               /\ call'[d].value = call[d].value /\ call'[d].id = call[d].id
               /\ call'[d].proc = call[d].proc
               /\ SnapshotHolds(call[d])'
    <2>1. call'[d] = IF call[d].st = "tx" /\ Writes(op) THEN [call[d] EXCEPT !.stale = TRUE]
                     ELSE call[d]
      BY <1>4 DEF CommitTx
    <2>2. call[d] \in Op /\ SnapshotHolds(call[d])
      BY DEF AuthInv, AuthTypeOK, SnapshotsHold
    <2>3. CASE call[d].st = "tx" /\ Writes(op)
      <3> DEFINE new == [call[d] EXCEPT !.stale = TRUE]
      <3>1. /\ new \in Op /\ new.st = call[d].st /\ new.kind = call[d].kind
            /\ new.value = call[d].value /\ new.id = call[d].id /\ new.proc = call[d].proc
        BY <2>2 DEF Op
      <3>2. new.stale = TRUE
        BY <2>2 DEF Op
      <3>3. call'[d] = new
        BY <2>1, <2>3
      <3> HIDE DEF new
      <3> QED
        BY <3>1, <3>2, <3>3 DEF SnapshotHolds
    <2>4. CASE call[d].st # "tx"
      BY <2>1, <2>2, <2>4 DEF SnapshotHolds
    <2>5. CASE ~Writes(op)
      BY <1>2, <2>1, <2>2, <2>5 DEF SnapshotHolds
    <2> QED
      BY <2>3, <2>4, <2>5
  <1>3. call'[c] = Idle
    BY DEF CommitTx
  <1> HIDE DEF op
  <1>5. AuthTypeOK'
    <2>1. call' \in [Call -> Op]
      BY <1>3, <1>4, IdleTyped DEF CommitTx
    <2>2. general' \in Setting \cup {None}
      BY <1>1 DEF AuthInv, AuthTypeOK, CommitTx, op
    <2> QED
      BY <1>2, <2>1, <2>2 DEF AuthInv, AuthTypeOK
  <1>6. IdsIssued'
    BY <1>2, <1>3, <1>4, IdleTyped, AuthConfigAssumption DEF AuthInv, IdsIssued
  <1>7. CallsMutate'
    BY <1>2, <1>3, <1>4, IdleTyped DEF AuthInv, CallsMutate, Mutates, Serves
  <1>8. SnapshotsHold'
    BY <1>3, <1>4, IdleTyped DEF SnapshotsHold, SnapshotHolds
  <1> QED
    BY <1>5, <1>6, <1>7, <1>8 DEF AuthInv

-----------------------------------------------------------------------------
(* The invariant is inductive.                                             *)

LEMMA AuthInitial == AuthInit => AuthInv
  <1> SUFFICES ASSUME AuthInit PROVE AuthInv
    OBVIOUS
  <1>1. \A c \in Call : call[c] = Idle
    BY DEF AuthInit
  <1>2. AuthTypeOK
    BY IdleTyped DEF AuthInit, AuthTypeOK, Files, NoFiles
  <1>3. IdsIssued /\ CallsMutate /\ SnapshotsHold
    BY <1>1, IdleTyped, AuthConfigAssumption
       DEF AuthInit, IdsIssued, CallsMutate, Mutates, SnapshotsHold, SnapshotHolds
  <1> QED
    BY <1>2, <1>3 DEF AuthInv

\* A process that does not serve moves on: it has no calls.
LEMMA ProcessStep ==
  ASSUME AuthInv, AuthTypeOK', NEW p \in Process, ~Serves(p),
         \A q \in Process : q # p => proc'[q] = proc[q],
         UNCHANGED <<general, idps, call, nextId>>
  PROVE  AuthInv'
  <1>1. CallsMutate'
    BY DEF AuthInv, CallsMutate, Mutates, Serves
  <1>2. IdsIssued' /\ SnapshotsHold'
    BY DEF AuthInv, IdsIssued, SnapshotsHold, SnapshotHolds
  <1> QED
    BY <1>1, <1>2 DEF AuthInv

LEMMA AuthStep == AuthInv /\ [AuthNext]_authVars => AuthInv'
  <1> SUFFICES ASSUME AuthInv, [AuthNext]_authVars PROVE AuthInv'
    OBVIOUS
  <1>1. ASSUME NEW c \in Call, NEW p \in Process, NEW v \in Setting, UpdateGeneral(c, p, v)
        PROVE  AuthInv'
    <2> DEFINE op == [Idle EXCEPT !.st = "lock", !.proc = p, !.kind = "general", !.value = v]
    <2>1. op \in Op /\ op.st = "lock" /\ op.kind = "general" /\ op.value = v /\ op.proc = p
      BY DEF Idle, Op
    <2>2. call' = [call EXCEPT ![c] = op] /\ Serves(p) /\ UNCHANGED <<general, idps, proc, nextId>>
      BY <1>1 DEF UpdateGeneral, Enter
    <2> HIDE DEF op
    <2>3. SnapshotHolds(op) /\ Mutates(op)
      BY <2>1, <2>2 DEF SnapshotHolds, Mutates
    <2> QED
      BY <2>1, <2>2, <2>3, CallStep
  <1>2. ASSUME NEW c \in Call, NEW p \in Process, NEW row \in idps, DeleteProvider(c, p, row)
        PROVE  AuthInv'
    <2> DEFINE op == [Idle EXCEPT !.st = "lock", !.proc = p, !.kind = "delete", !.id = row.id]
    <2>1. row.id \in Nat /\ row.id < nextId
      BY DEF AuthInv, AuthTypeOK, IdsIssued, Row
    <2>2. op \in Op /\ op.st = "lock" /\ op.kind = "delete" /\ op.id = row.id /\ op.proc = p
      BY <2>1 DEF Idle, Op
    <2>3. call' = [call EXCEPT ![c] = op] /\ Serves(p) /\ UNCHANGED <<general, idps, proc, nextId>>
      BY <1>2 DEF DeleteProvider, Enter
    <2> HIDE DEF op
    <2>4. SnapshotHolds(op) /\ Mutates(op)
      BY <2>2, <2>3 DEF SnapshotHolds, Mutates
    <2> QED
      BY <2>1, <2>2, <2>3, <2>4, CallStep
  <1>3. ASSUME NEW c \in Call, BeginTx(c)
        PROVE  AuthInv'
    BY <1>3, SnapshotStep DEF BeginTx
  <1>4. ASSUME NEW c \in Call, RefuseTx(c)
        PROVE  AuthInv'
    BY <1>4, EndStep DEF RefuseTx
  <1>5. ASSUME NEW c \in Call, CommitTx(c)
        PROVE  AuthInv'
    BY <1>5, CommitStep
  <1>6. ASSUME NEW c \in Call, RetryTx(c)
        PROVE  AuthInv'
    <2>1. CASE call[c].attempt < MaxAttempts
      <3>1. call[c].attempt + 1 \in Nat
        BY DEF AuthInv, AuthTypeOK, Op
      <3> QED
        BY <1>6, <2>1, <3>1, SnapshotStep DEF RetryTx
    <2>2. CASE ~(call[c].attempt < MaxAttempts)
      BY <1>6, <2>2, EndStep DEF RetryTx
    <2> QED
      BY <2>1, <2>2
  <1>7. ASSUME NEW p \in Process, NEW u \in Uid, CreateProvider(p, u)
        PROVE  AuthInv'
    BY <1>7, CreateStep
  <1>8. ASSUME NEW p \in Process, NEW f \in Files, Start(p, f)
        PROVE  AuthInv'
    <2>1. /\ proc' = [proc EXCEPT ![p] = [st |-> "general", files |-> f]]
          /\ UNCHANGED <<general, idps, call, nextId>> /\ proc[p].st = "down"
      BY <1>8 DEF Start
    <2>2. AuthTypeOK'
      BY <2>1 DEF AuthInv, AuthTypeOK
    <2> QED
      BY <2>1, <2>2, ProcessStep DEF Serves
  <1>9. ASSUME NEW p \in Process, ReadGeneral(p) \/ ReadProviders(p) \/ Publish(p)
        PROVE  AuthInv'
    <2>1. PICK st \in {"down", "publish", "providers", "up"} :
            /\ proc' = [proc EXCEPT ![p].st = st]
            /\ UNCHANGED <<general, idps, call, nextId>> /\ proc[p].st # "up"
      BY <1>9 DEF ReadGeneral, ReadProviders, Publish, Moves
    <2>2. AuthTypeOK'
      BY <2>1 DEF AuthInv, AuthTypeOK
    <2> QED
      BY <2>1, <2>2, ProcessStep DEF Serves
  <1>10. ASSUME NEW p \in Process, Stop(p)
         PROVE  AuthInv'
    <2>1. /\ proc' = [proc EXCEPT ![p].st = "down"]
          /\ call' = [c \in Call |-> IF call[c].proc = p THEN Idle ELSE call[c]]
          /\ UNCHANGED <<general, idps, nextId>>
      BY <1>10 DEF Stop, Moves
    <2>2. AuthTypeOK'
      BY <2>1, IdleTyped DEF AuthInv, AuthTypeOK
    <2>3. \A c \in Call : call'[c] = IF call[c].proc = p THEN Idle ELSE call[c]
      BY <2>1
    <2>4. \A q \in Process : q # p => proc'[q] = proc[q]
      BY <2>1 DEF AuthInv, AuthTypeOK
    <2>5. IdsIssued'
      BY <2>1, <2>3, IdleTyped, AuthConfigAssumption DEF AuthInv, IdsIssued
    <2>6. CallsMutate'
      BY <2>3, <2>4, IdleTyped DEF AuthInv, CallsMutate, Mutates, Serves
    <2>7. SnapshotsHold'
      BY <2>1, <2>3, IdleTyped DEF AuthInv, SnapshotsHold, SnapshotHolds
    <2> QED
      BY <2>2, <2>5, <2>6, <2>7 DEF AuthInv
  <1>11. CASE UNCHANGED authVars
    BY <1>11 DEF authVars, AuthInv, AuthTypeOK, IdsIssued, CallsMutate, Mutates, Serves, SnapshotsHold,
                 SnapshotHolds
  <1> QED
    BY <1>1, <1>2, <1>3, <1>4, <1>5, <1>6, <1>7, <1>8, <1>9, <1>10, <1>11 DEF AuthNext

-----------------------------------------------------------------------------
(* The way in.                                                             *)

\* What a commit leaves is unsafe, for processes that go by the files it was
\* validated with, only if it was unsafe before: its snapshot agrees with what is
\* stored but for providers that have been added.
LEMMA CommitKeepsAWayIn ==
  ASSUME AuthInv, NEW c \in Call, CommitTx(c), NEW f, f = FilesOf(call[c]), ~Unsafe(f)
  PROVE  ~Unsafe(f)'
  <1> DEFINE op == call[c]
             kept == {row \in op.idps : op.kind # "delete" \/ row.id # op.id}
  <1>1. /\ op.st = "tx" /\ ~op.stale /\ ~Refuses(op)
        /\ general' = IF op.kind = "general" THEN op.value ELSE general
        /\ idps' = {row \in idps : op.kind # "delete" \/ row.id # op.id}
    BY DEF CommitTx
  <1>2. /\ op.kind \in {"general", "delete"} /\ op.general = general /\ op.idps \subseteq idps
        /\ op.kind = "delete" => \A row \in idps : row.id = op.id => row \in op.idps
    BY <1>1 DEF AuthInv, CallsMutate, Mutates, SnapshotsHold, SnapshotHolds
  <1>3. kept \subseteq idps'
    BY <1>1, <1>2
  <1>4. CASE op.kind = "general"
    <2>1. idps' = idps
      BY <1>1, <1>4
    <2>2. CASE f.general # None
      BY <1>1, <2>1, <2>2 DEF Unsafe, IsUnsafe, EffectiveGeneral, EffectiveUids, Uids
    <2>3. CASE f.general = None
      <3>1. ~IsUnsafe(op.value, EffectiveUids(f, kept)) \/ IsUnsafe(general, EffectiveUids(f, op.idps))
        BY <1>1, <1>2, <1>4, <2>3 DEF Refuses, EffectiveGeneral
      <3> QED
        BY <1>1, <1>2, <1>3, <1>4, <2>1, <2>3, <3>1
           DEF Unsafe, IsUnsafe, EffectiveGeneral, EffectiveUids, Uids
    <2> QED
      BY <2>2, <2>3
  <1>5. CASE op.kind = "delete"
    <2>1. general' = general
      BY <1>1, <1>5
    <2>2. \/ ~IsUnsafe(EffectiveGeneral(f, general), EffectiveUids(f, kept))
          \/ IsUnsafe(EffectiveGeneral(f, general), EffectiveUids(f, op.idps))
      BY <1>1, <1>2, <1>5 DEF Refuses
    <2>3. CASE ~IsUnsafe(EffectiveGeneral(f, general), EffectiveUids(f, kept))
      BY <1>1, <1>3, <2>1, <2>3 DEF Unsafe, IsUnsafe, EffectiveGeneral, EffectiveUids, Uids
    <2>4. CASE IsUnsafe(EffectiveGeneral(f, general), EffectiveUids(f, op.idps))
      <3>1. op.idps = {}
        BY <2>4 DEF IsUnsafe, EffectiveUids, Uids
      <3>2. idps' = idps
        BY <1>1, <1>2, <1>5, <3>1
      <3> QED
        BY <1>1, <2>1, <3>2 DEF Unsafe, IsUnsafe, EffectiveGeneral, EffectiveUids, Uids
    <2> QED
      BY <2>2, <2>3, <2>4
  <1> QED
    BY <1>2, <1>4, <1>5

\* Only a commit validated with other files closes the last way in.
LEMMA StepKeepsAWayIn ==
  ASSUME AuthInv, [AuthNext]_authVars, NEW f, ~Unsafe(f),
         \A c \in Call : CommitTx(c) => FilesOf(call[c]) = f
  PROVE  ~Unsafe(f)'
  <1>1. ASSUME NEW c \in Call, CommitTx(c)
        PROVE  ~Unsafe(f)'
    BY <1>1, CommitKeepsAWayIn
  <1>2. ASSUME NEW p \in Process, NEW u \in Uid, CreateProvider(p, u)
        PROVE  ~Unsafe(f)'
    BY <1>2 DEF CreateProvider, Unsafe, IsUnsafe, EffectiveGeneral, EffectiveUids, Uids
  <1>3. ASSUME UNCHANGED <<general, idps>>
        PROVE  ~Unsafe(f)'
    BY <1>3 DEF Unsafe, IsUnsafe, EffectiveGeneral, EffectiveUids, Uids
  <1> QED
    BY <1>1, <1>2, <1>3
       DEF AuthNext, authVars, UpdateGeneral, DeleteProvider, Enter, BeginTx, RefuseTx, RetryTx,
           Start, ReadGeneral, ReadProviders, Publish, Stop

\* On any number of server processes, no change of the GENERAL setting and no
\* deletion of a provider takes the last way in from the regular users of a process
\* with the same files: the retried SERIALIZABLE transactions of
\* applyAuthenticationConfigMutation suffice.
THEOREM MutationsLeaveAWayIn == AuthSpec => MutationsKeepAWayIn
  <1> DEFINE Kept == \A p \in Process :
               Serves(p) /\ proc'[p] = proc[p] /\ ~Unsafe(proc[p].files) /\ ~MutatedElsewhere(p)
                 => ~Unsafe(proc[p].files)'
  <1>1. AuthInv /\ [AuthNext]_authVars => [Kept]_authVars
    <2> SUFFICES ASSUME AuthInv, [AuthNext]_authVars, NEW p \in Process, proc'[p] = proc[p],
                        ~Unsafe(proc[p].files), ~MutatedElsewhere(p)
                 PROVE  ~Unsafe(proc[p].files)'
      OBVIOUS
    <2> DEFINE f == proc[p].files
    <2>1. ASSUME NEW c \in Call, CommitTx(c) PROVE FilesOf(call[c]) = f
      BY <2>1 DEF CommitTx, MutatedElsewhere
    <2>2. ASSUME NEW g, g = f PROVE ~Unsafe(g)'
      BY <2>1, <2>2, StepKeepsAWayIn
    <2>3. Unsafe(proc[p].files)' <=>
            IsUnsafe(EffectiveGeneral(f, general'), EffectiveUids(f, idps'))
      BY DEF Unsafe, IsUnsafe, EffectiveGeneral, EffectiveUids, Uids
    <2> QED
      BY <2>2, <2>3 DEF Unsafe, IsUnsafe, EffectiveGeneral, EffectiveUids, Uids
  <1> QED
    BY <1>1, AuthInitial, AuthStep, PTL DEF AuthSpec, MutationsKeepAWayIn

\* Where the files are never mixed, all running processes have the same, and they
\* are safe from the moment they have been checked.
OneGeneration ==
  rollout = "recreate" =>
    /\ \A p, q \in Process : proc[p].st # "down" /\ proc[q].st # "down" => proc[p].files = proc[q].files
    /\ \A p \in Process :
         proc[p].st \in {"publish", "up"} /\ proc[p].files # NoFiles => ~Unsafe(proc[p].files)

LEMMA OneGenerationStep == AuthInv /\ OneGeneration /\ [AuthNext]_authVars => OneGeneration'
  <1> SUFFICES ASSUME AuthInv, OneGeneration, [AuthNext]_authVars, rollout' = "recreate"
               PROVE  /\ \A p, q \in Process : proc'[p].st # "down" /\ proc'[q].st # "down"
                                                 => proc'[p].files = proc'[q].files
                      /\ \A p \in Process : proc'[p].st \in {"publish", "up"} /\ proc'[p].files # NoFiles
                                              => ~Unsafe(proc[p].files)'
    BY DEF OneGeneration
  <1>1. rollout = "recreate"
    BY DEF AuthNext, authVars, UpdateGeneral, DeleteProvider, Enter, BeginTx, RefuseTx, CommitTx, RetryTx,
           CreateProvider, Start, ReadGeneral, ReadProviders, Publish, Stop
  <1>2. ASSUME NEW p \in Process, proc[p].st \in {"publish", "up"}, proc[p].files # NoFiles,
               proc'[p].files = proc[p].files
        PROVE  ~Unsafe(proc[p].files)'
    <2> DEFINE f == proc[p].files
    <2>1. ASSUME NEW c \in Call, CommitTx(c) PROVE FilesOf(call[c]) = f
      <3>1. call[c].proc \in Process /\ proc[call[c].proc].st = "up"
        BY <2>1 DEF CommitTx, AuthInv, CallsMutate, Mutates, Serves
      <3> QED
        BY <1>1, <1>2, <3>1 DEF OneGeneration, FilesOf
    <2>2. ~Unsafe(f)
      BY <1>1, <1>2 DEF OneGeneration
    <2>3. ASSUME NEW g, g = f PROVE ~Unsafe(g)'
      BY <2>1, <2>2, <2>3, StepKeepsAWayIn
    <2> QED
      BY <1>2, <2>3 DEF Unsafe, IsUnsafe, EffectiveGeneral, EffectiveUids, Uids
  <1>3. CASE proc' = proc
    BY <1>1, <1>2, <1>3 DEF OneGeneration
  <1>4. ASSUME NEW p \in Process, NEW f \in Files, Start(p, f)
        PROVE  /\ \A q, r \in Process : proc'[q].st # "down" /\ proc'[r].st # "down"
                                          => proc'[q].files = proc'[r].files
               /\ \A q \in Process : proc'[q].st \in {"publish", "up"} /\ proc'[q].files # NoFiles
                                       => ~Unsafe(proc[q].files)'
    <2>1. /\ proc[p].st = "down" /\ \A q \in Process : proc[q].st # "down" => proc[q].files = f
          /\ proc' = [proc EXCEPT ![p] = [st |-> "general", files |-> f]]
      BY <1>1, <1>4 DEF Start
    <2>2. /\ proc'[p].st = "general" /\ proc'[p].files = f
          /\ \A q \in Process : q # p => proc'[q] = proc[q]
      BY <2>1 DEF AuthInv, AuthTypeOK
    <2> QED
      BY <1>2, <2>1, <2>2
  <1>5. ASSUME NEW p \in Process, ReadGeneral(p) \/ ReadProviders(p) \/ Publish(p) \/ Stop(p)
        PROVE  /\ \A q, r \in Process : proc'[q].st # "down" /\ proc'[r].st # "down"
                                          => proc'[q].files = proc'[r].files
               /\ \A q \in Process : proc'[q].st \in {"publish", "up"} /\ proc'[q].files # NoFiles
                                       => ~Unsafe(proc[q].files)'
    <2>1. PICK st : proc' = [proc EXCEPT ![p].st = st] /\ proc[p].st # "down" /\ UNCHANGED <<general, idps>>
      BY <1>5 DEF ReadGeneral, ReadProviders, Publish, Stop, Moves
    <2>2. /\ proc'[p].st = st /\ \A q \in Process : proc'[q].files = proc[q].files
          /\ \A q \in Process : q # p => proc'[q] = proc[q]
      BY <2>1 DEF AuthInv, AuthTypeOK
    <2>3. ASSUME st \in {"publish", "up"}, proc[p].files # NoFiles PROVE ~Unsafe(proc[p].files)
      <3>1. CASE ReadGeneral(p)
        BY <2>2, <2>3, <3>1 DEF ReadGeneral, Moves, AuthInv, AuthTypeOK, Unsafe, IsUnsafe
      <3>2. CASE ReadProviders(p)
        BY <2>2, <2>3, <3>2 DEF ReadProviders, Moves, AuthInv, AuthTypeOK, Unsafe, IsUnsafe
      <3>3. CASE Publish(p)
        BY <1>1, <2>3, <3>3 DEF Publish, OneGeneration
      <3>4. CASE Stop(p)
        BY <2>2, <2>3, <3>4 DEF Stop, Moves, AuthInv, AuthTypeOK
      <3> QED
        BY <1>5, <3>1, <3>2, <3>3, <3>4
    <2>4. \A q \in Process : Unsafe(proc[q].files)' <=> Unsafe(proc[q].files)
      BY <2>1, <2>2 DEF Unsafe, IsUnsafe, EffectiveGeneral, EffectiveUids, Uids
    <2> QED
      BY <1>1, <2>1, <2>2, <2>3, <2>4 DEF OneGeneration
  <1> QED
    BY <1>3, <1>4, <1>5
       DEF AuthNext, authVars, UpdateGeneral, DeleteProvider, Enter, BeginTx, RefuseTx, CommitTx, RetryTx,
           CreateProvider

\* Deployment files that were accepted leave regular users a way in for as long
\* as they are in force, whatever administrators change while they are checked and
\* afterwards, as long as no process goes by other files at the same time.
THEOREM FilesLeaveAWayIn == AuthSpec => []ManagedHasAWayIn
  <1>1. AuthInit => OneGeneration
    BY DEF AuthInit, OneGeneration
  <1>2. OneGeneration => ManagedHasAWayIn
    BY DEF OneGeneration, ManagedHasAWayIn, Serves
  <1> QED
    BY <1>1, <1>2, OneGenerationStep, AuthInitial, AuthStep, PTL DEF AuthSpec
=============================================================================
