------------------------------- MODULE Linkage -------------------------------
(***************************************************************************)
(* What single sign-on promises: an external identity belongs to at most   *)
(* one account and an account to at most one identity of a provider, and a *)
(* login is decided for the account that holds the identity at the moment  *)
(* of the decision, which is taken once.                                   *)
(***************************************************************************)
CONSTANTS Login,     \* concurrent logins
          Account,   \* accounts
          Provider, Subject,
          None

VARIABLES links,     \* who holds which identity
          asked,     \* asked[l]: the identity a login presents, or None
          decided    \* decided[l]: the account it is decided for, or None

linkVars == <<links, asked, decided>>

LinkRow == [user : Account, provider : Provider, subject : Subject]
Identity == [provider : Provider, subject : Subject]

\* The rows a new one excludes: same identity, or same account and provider.
Excludes(row, other) == /\ row.provider = other.provider
                        /\ row.subject = other.subject \/ row.user = other.user

Holds(user, identity, rows) == [user |-> user, provider |-> identity.provider,
                                subject |-> identity.subject] \in rows

LinkageInit == /\ links = {}
               /\ asked = [l \in Login |-> None]
               /\ decided = [l \in Login |-> None]

Link(row) == /\ \A other \in links : ~Excludes(row, other)
             /\ links' = links \cup {row}

Ask(l, identity) == /\ asked[l] = None
                    /\ asked' = [asked EXCEPT ![l] = identity]
                    /\ UNCHANGED <<links, decided>>

\* A login is decided for the holder, who may have been linked in this step.
Decide(l, user) == /\ asked[l] # None /\ decided[l] = None
                   /\ decided' = [decided EXCEPT ![l] = user]
                   /\ UNCHANGED asked
                   /\ links' = links \/ \E row \in LinkRow : Link(row)
                   /\ Holds(user, asked[l], links')

Leave(l) == /\ asked[l] # None
            /\ asked' = [asked EXCEPT ![l] = None]
            /\ decided' = [decided EXCEPT ![l] = None]
            /\ UNCHANGED links

Bind == UNCHANGED <<asked, decided>> /\ \E row \in LinkRow : Link(row)
Unlink == links' \in SUBSET links /\ UNCHANGED <<asked, decided>>

LinkageNext == \/ Unlink \/ Bind
               \/ \E l \in Login : \/ Leave(l)
                                   \/ \E i \in Identity : Ask(l, i)
                                   \/ \E u \in Account : Decide(l, u)

LinkageSpec == LinkageInit /\ [][LinkageNext]_linkVars
=============================================================================
