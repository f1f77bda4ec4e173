----------------------------- MODULE AuthConfig -----------------------------
(***************************************************************************)
(* The sign-in configuration of an installation: the GENERAL setting, which*)
(* can close password sign-in for regular users, and the identity providers*)
(* that are then the only way in.  Administrators change both at once, on  *)
(* several server processes that share one PostgreSQL database; deployment *)
(* files can supply either and shadow what is stored.  Every process loads *)
(* its files once, when it starts, and checks them in reads of their own,  *)
(* outside any transaction, while the other processes go on.               *)
(*                                                                         *)
(* A GENERAL setting is "allow" or "disallow", after DisallowPasswordAuth. *)
(* A SERIALIZABLE transaction works on the snapshot of its first statement *)
(* and is aborted when a serializable transaction that committed meanwhile *)
(* has written: both have read all that the other writes.  The insertion of*)
(* a provider is a single statement outside this protocol.                 *)
(***************************************************************************)
EXTENDS Naturals, FiniteSets

CONSTANTS Process,      \* server processes
          Call,         \* concurrent administrator calls
          Uid,          \* identity provider UIDs
          MaxAttempts,  \* authenticationMutationMaxAttempts
          MaxIds,       \* bound on the providers ever stored, for TLC
          MaxChanges,   \* bound on the mutations that are started, for TLC
          None

ASSUME AuthConfigAssumption == /\ MaxAttempts \in Nat \ {0}
                               /\ MaxIds \in Nat /\ MaxChanges \in Nat
                               /\ None \notin {"allow", "disallow", "general", "delete"}

VARIABLES general,  \* the stored GENERAL row, or None
          idps,     \* the rows of idp: records of uid and id
          proc,     \* proc[p]: how far process p is, and the deployment files it goes by
          rollout,  \* how new files are rolled out: "recreate" or "rolling"
          call,     \* call[c]: an administrator call
          nextId,   \* the idp sequence
          changes   \* number of mutations started

authVars == <<general, idps, proc, rollout, call, nextId, changes>>

Setting == {"allow", "disallow"}
Idle == [st |-> "idle", proc |-> None, kind |-> None, value |-> None, id |-> 0,
         general |-> None, idps |-> {}, stale |-> FALSE, attempt |-> 0]

Uids(rows) == {row.uid : row \in rows}

\* isUnsafeAuthenticationState: regular users have no way in.
IsUnsafe(setting, uids) == setting = "disallow" /\ uids = {}

Files == [general : Setting \cup {None}, uids : SUBSET Uid]
NoFiles == [general |-> None, uids |-> {}]

\* What a process with files f goes by, given what is stored.
EffectiveGeneral(f, stored) == IF f.general # None THEN f.general ELSE stored
EffectiveUids(f, rows) == Uids(rows) \cup f.uids
Unsafe(f) == IsUnsafe(EffectiveGeneral(f, general), EffectiveUids(f, idps))

Serves(p) == proc[p].st = "up"
FilesOf(op) == proc[op.proc].files

-----------------------------------------------------------------------------
(* The mutations.                                                          *)

Enter(c, p, op) ==
  /\ Serves(p) /\ call[c].st = "idle" /\ changes < MaxChanges
  /\ call' = [call EXCEPT ![c] = op]
  /\ changes' = changes + 1
  /\ UNCHANGED <<general, idps, proc, rollout, nextId>>

\* UpdateInstanceSetting on GENERAL: refused while a file supplies it.
UpdateGeneral(c, p, v) ==
  /\ proc[p].files.general = None
  /\ Enter(c, p, [Idle EXCEPT !.st = "lock", !.proc = p, !.kind = "general", !.value = v])

\* DeleteIdentityProvider: looks the stored row up by UID, deletes it by ID.
DeleteProvider(c, p, row) ==
  /\ row \in idps /\ row.uid \notin proc[p].files.uids
  /\ Enter(c, p, [Idle EXCEPT !.st = "lock", !.proc = p, !.kind = "delete", !.id = row.id])

\* CreateIdentityProvider.
CreateProvider(p, u) ==
  /\ Serves(p) /\ u \notin proc[p].files.uids /\ u \notin Uids(idps)
  /\ nextId <= MaxIds
  /\ idps' = idps \cup {[uid |-> u, id |-> nextId]}
  /\ nextId' = nextId + 1
  /\ UNCHANGED <<general, proc, rollout, call, changes>>

Snapshot(op, n) == [op EXCEPT !.st = "tx", !.general = general, !.idps = idps,
                              !.stale = FALSE, !.attempt = n]

\* applyAuthenticationConfigMutation takes the process's authConfigMu.
BeginTx(c) ==
  /\ call[c].st = "lock"
  /\ \A d \in Call : ~(call[d].st = "tx" /\ call[d].proc = call[c].proc)
  /\ call' = [call EXCEPT ![c] = Snapshot(@, 1)]
  /\ UNCHANGED <<general, idps, proc, rollout, nextId, changes>>

\* (a plausible slip) the provider that goes is counted, and a shadowed GENERAL not checked
RefusesDeploymentOnly(op) ==
  LET f == FilesOf(op)
      old == EffectiveGeneral(f, op.general)
      new == IF op.kind = "general" THEN op.value ELSE old
  IN IsUnsafe(new, EffectiveUids(f, op.idps)) /\ ~IsUnsafe(old, EffectiveUids(f, op.idps))

\* validateAuthenticationMutationState, on what the transaction has read.
Refuses(op) ==
  LET f == FilesOf(op)
      proposed == op.kind = "general"
      kept == {row \in op.idps : op.kind # "delete" \/ row.id # op.id}
      old == EffectiveGeneral(f, op.general)
      new == IF proposed THEN op.value ELSE old
  IN IF proposed /\ f.general # None
     THEN /\ IsUnsafe(op.value, Uids(op.idps))
          /\ ~IsUnsafe(op.general, Uids(op.idps))
     ELSE /\ IsUnsafe(new, EffectiveUids(f, kept))
          /\ ~IsUnsafe(old, EffectiveUids(f, op.idps))

RefuseTx(c) ==
  /\ call[c].st = "tx" /\ Refuses(call[c])
  /\ call' = [call EXCEPT ![c] = Idle]
  /\ UNCHANGED <<general, idps, proc, rollout, nextId, changes>>

\* Does the transaction write anything?  A row that is gone is deleted by nothing.
Writes(op) == op.kind = "general" \/ \E row \in op.idps : row.id = op.id

\* (a plausible slip) the transaction runs at READ COMMITTED
CommitTxReadCommitted(c) ==
  LET op == call[c]
  IN /\ op.st = "tx" /\ ~Refuses(op)
     /\ general' = IF op.kind = "general" THEN op.value ELSE general
     /\ idps' = {row \in idps : op.kind # "delete" \/ row.id # op.id}
     /\ call' = [call EXCEPT ![c] = Idle]
     /\ UNCHANGED <<proc, rollout, nextId, changes>>

\* applyAuthenticationConfigMutation, committed.
CommitTx(c) ==
  LET op == call[c]
  IN /\ op.st = "tx" /\ ~Refuses(op) /\ ~op.stale
     /\ general' = IF op.kind = "general" THEN op.value ELSE general
     /\ idps' = {row \in idps : op.kind # "delete" \/ row.id # op.id}
     /\ call' = [d \in Call |->
                   IF d = c THEN Idle
                   ELSE IF call[d].st = "tx" /\ Writes(op) THEN [call[d] EXCEPT !.stale = TRUE]
                   ELSE call[d]]
     /\ UNCHANGED <<proc, rollout, nextId, changes>>

\* A serialization failure or a deadlock: tried again, MaxAttempts times in all.
RetryTx(c) ==
  /\ call[c].st = "tx" /\ ~Refuses(call[c])
  /\ call' = [call EXCEPT ![c] = IF @.attempt < MaxAttempts THEN Snapshot(@, @.attempt + 1)
                                 ELSE Idle]
  /\ UNCHANGED <<general, idps, proc, rollout, nextId, changes>>

-----------------------------------------------------------------------------
(* LoadDeploymentConfiguration, step by step.                              *)

Moves(p, st) == proc' = [proc EXCEPT ![p].st = st]

\* A process starts and finds these files.  The documentation asks that old and
\* new files are never in use side by side, a rolling update does just that.
Start(p, f) ==
  /\ proc[p].st = "down"
  /\ rollout = "recreate" => \A q \in Process : proc[q].st # "down" => proc[q].files = f
  /\ proc' = [proc EXCEPT ![p] = [st |-> "general", files |-> f]]
  /\ UNCHANGED <<general, idps, rollout, call, nextId, changes>>

\* validateDeploymentAuthenticationState reads GENERAL.  Without a GENERAL or a
\* provider file, an unsafe stored configuration is only warned of.
ReadGeneral(p) ==
  LET f == proc[p].files
  IN /\ proc[p].st = "general"
     /\ Moves(p, IF f # NoFiles /\ EffectiveGeneral(f, general) = "disallow" THEN "providers"
                 ELSE "publish")
     /\ UNCHANGED <<general, idps, rollout, call, nextId, changes>>

\* Then it reads the providers; with none at all the process gives up.
ReadProviders(p) ==
  /\ proc[p].st = "providers"
  /\ Moves(p, IF EffectiveUids(proc[p].files, idps) = {} THEN "down" ELSE "publish")
  /\ UNCHANGED <<general, idps, rollout, call, nextId, changes>>

\* setDeploymentConfiguration; from then on the process serves.
Publish(p) ==
  /\ proc[p].st = "publish" /\ Moves(p, "up")
  /\ UNCHANGED <<general, idps, rollout, call, nextId, changes>>

\* A process ends, for a redeployment or by itself, and its calls with it.
Stop(p) ==
  /\ proc[p].st # "down" /\ Moves(p, "down")
  /\ call' = [c \in Call |-> IF call[c].proc = p THEN Idle ELSE call[c]]
  /\ UNCHANGED <<general, idps, rollout, nextId, changes>>

-----------------------------------------------------------------------------
AuthInit ==
  /\ general \in Setting \cup {None}
  /\ idps = {} /\ nextId = 1
  /\ proc = [p \in Process |-> [st |-> "down", files |-> NoFiles]]
  /\ rollout \in {"recreate", "rolling"}
  /\ call = [c \in Call |-> Idle]
  /\ changes = 0

AuthNext ==
  \/ \E c \in Call, p \in Process : \/ \E v \in Setting : UpdateGeneral(c, p, v)
                                    \/ \E row \in idps : DeleteProvider(c, p, row)
  \/ \E c \in Call : BeginTx(c) \/ RefuseTx(c) \/ CommitTx(c) \/ RetryTx(c)
  \/ \E p \in Process, u \in Uid : CreateProvider(p, u)
  \/ \E p \in Process, f \in Files : Start(p, f)
  \/ \E p \in Process : ReadGeneral(p) \/ ReadProviders(p) \/ Publish(p) \/ Stop(p)

AuthSpec == AuthInit /\ [][AuthNext]_authVars

-----------------------------------------------------------------------------
(* Properties.                                                             *)

\* A mutation that a process with other files commits.
MutatedElsewhere(p) ==
  \E c \in Call : /\ call[c].st = "tx" /\ call'[c] = Idle
                  /\ FilesOf(call[c]) # proc[p].files

\* No mutation of the stored configuration takes the last way in from the regular
\* users of a process that serves (ErrUnsafeAuthenticationConfiguration), whichever
\* process commits it, unless that one goes by other files.
MutationsKeepAWayIn ==
  [][\A p \in Process :
       Serves(p) /\ proc'[p] = proc[p] /\ ~Unsafe(proc[p].files) /\ ~MutatedElsewhere(p)
         => ~Unsafe(proc[p].files)']_authVars

\* Where old and new files are never in use side by side ("All replicas in one
\* deployment must mount identical files", docs/configuration-provisioning.md), a
\* process that serves with a GENERAL or provider file leaves regular users a way
\* in: the files are refused otherwise, and no mutation closes it between the reads
\* that check them and their publication, or later.
ManagedHasAWayIn ==
  rollout = "recreate" =>
    \A p \in Process : Serves(p) /\ proc[p].files # NoFiles => ~Unsafe(proc[p].files)
=============================================================================
