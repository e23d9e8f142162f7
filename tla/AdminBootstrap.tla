--------------------------- MODULE AdminBootstrap ---------------------------
(***************************************************************************)
(* bootstrapFirstAdmin (apps/auth): gives an organization its first        *)
(* administrator in one transaction, under an advisory lock of the         *)
(* organization.  The identity (rhia.auth_user) it links is unique by      *)
(* email over all organizations, so the transactions of two organizations  *)
(* still meet there.  Transactions are READ COMMITTED: each statement sees *)
(* what is committed when it runs.                                         *)
(***************************************************************************)
EXTENDS FiniteSets

CONSTANTS Organizations, Emails, Bootstraps, NoOne

\* Users are unique by organization and email.
Users == Organizations \X Emails
ASSUME BootstrapAssumption == NoOne \notin Users

VARIABLES
  userStatus,    \* rhia.app_user: its status, "NONE" if there is no row
  identity,      \* rhia.auth_user, by email: the user it belongs to
  credential,    \* rhia.auth_account of that identity: whether it has a password
  admins,        \* rhia.user_role with the role ADMIN
  bootstrap,     \* the calls, each with its transaction
  lapsed         \* history: organizations whose administrator was revoked

bootstrapVars == <<userStatus, identity, credential, admins, bootstrap, lapsed>>

Open == {"LOCKED", "NO_ADMIN", "USER_FOUND", "LINKED"}
Refused == {"ALREADY_BOOTSTRAPPED", "IDENTITY_CONFLICT", "UNIQUE_VIOLATION", "ROLLED_BACK"}
Answered == Refused \cup {"CREATED", "EXISTING"}

Call(b) == <<bootstrap[b].org, bootstrap[b].email>>
At(b, location) == bootstrap[b].at = location
Goes(b, location) == bootstrap' = [bootstrap EXCEPT ![b].at = location]

\* Organizations are active.  One user may be there before, with an identity under
\* his own email or another, with or without a password, administrator or not.
BootstrapInit ==
  /\ \E u \in Users, status \in {"NONE", "ACTIVE", "DISABLED"}, e \in Emails \cup {NoOne},
        password \in {"NONE", "EMPTY", "SET"}, isAdmin \in BOOLEAN :
       /\ status = "NONE" => e = NoOne /\ ~isAdmin
       /\ e = NoOne => password = "NONE"
       /\ userStatus = [v \in Users |-> IF v = u THEN status ELSE "NONE"]
       /\ identity = [f \in Emails |-> IF f = e THEN u ELSE NoOne]
       /\ credential = [f \in Emails |-> IF f = e THEN password ELSE "NONE"]
       /\ admins = IF isAdmin THEN {u} ELSE {}
  /\ bootstrap \in [Bootstraps -> [at : {"START"}, org : Organizations, email : Emails]]
  /\ lapsed = {}

\* The advisory lock is held to the end of the transaction.
LockFree_perEmail(b) ==
  \A c \in Bootstraps : bootstrap[c].at \in Open => Call(c) # Call(b)
LockFree(b) ==
  \A c \in Bootstraps : bootstrap[c].at \in Open => bootstrap[c].org # bootstrap[b].org

Lock(b) ==
  /\ At(b, "START") /\ LockFree(b)
  /\ Goes(b, "LOCKED")
  /\ UNCHANGED <<userStatus, identity, credential, admins, lapsed>>

\* Administrators who can sign in: with an identity and a password.
Authenticatable(org) ==
  {e \in Emails : /\ identity[e] \in admins \cap ({org} \X Emails)
                  /\ credential[e] = "SET"}

\* LIMIT 1: the oldest of them decides; any may be the oldest.
FindAdmin(b) ==
  LET org == bootstrap[b].org IN
  /\ At(b, "LOCKED")
  /\ \/ Authenticatable(org) = {} /\ Goes(b, "NO_ADMIN")
     \/ \E e \in Authenticatable(org) :
          Goes(b, CASE e # bootstrap[b].email -> "ALREADY_BOOTSTRAPPED"
                    [] e = bootstrap[b].email /\ userStatus[identity[e]] = "ACTIVE" -> "EXISTING"
                    [] OTHER -> "IDENTITY_CONFLICT")
  /\ UNCHANGED <<userStatus, identity, credential, admins, lapsed>>

\* The row inserted here is seen by others only when the transaction commits.
FindUser(b) ==
  LET taken == identity[bootstrap[b].email] IN
  /\ At(b, "NO_ADMIN")
  /\ Goes(b, IF userStatus[Call(b)] = "DISABLED" \/ taken \notin {NoOne, Call(b)}
             THEN "IDENTITY_CONFLICT" ELSE "USER_FOUND")
  /\ UNCHANGED <<userStatus, identity, credential, admins, lapsed>>

\* An insert waits for the transaction that inserted the same email; if that one
\* has committed it breaks the unique key.
LinkIdentity(b) ==
  LET linked == {e \in Emails : identity[e] = Call(b)} IN
  /\ At(b, "USER_FOUND")
  /\ \/ linked \ {bootstrap[b].email} # {} /\ Goes(b, "IDENTITY_CONFLICT")
     \/ linked = {bootstrap[b].email} /\ Goes(b, "LINKED")
     \/ /\ linked = {}
        /\ ~\E c \in Bootstraps : At(c, "LINKED") /\ bootstrap[c].email = bootstrap[b].email
        /\ Goes(b, IF identity[bootstrap[b].email] # NoOne THEN "UNIQUE_VIOLATION" ELSE "LINKED")
  /\ UNCHANGED <<userStatus, identity, credential, admins, lapsed>>

\* Credential, role and membership follow in the same transaction.  A password
\* that is already there is kept.
Commit(b) ==
  /\ At(b, "LINKED") /\ Goes(b, "CREATED")
  /\ userStatus' = [userStatus EXCEPT ![Call(b)] = IF @ = "NONE" THEN "ACTIVE" ELSE @]
  /\ identity' = [identity EXCEPT ![bootstrap[b].email] = Call(b)]
  /\ credential' = [credential EXCEPT ![bootstrap[b].email] = "SET"]
  /\ admins' = admins \cup {Call(b)}
  /\ UNCHANGED lapsed

\* A query fails or the process dies.
Rollback(b) ==
  /\ bootstrap[b].at \in Open /\ Goes(b, "ROLLED_BACK")
  /\ UNCHANGED <<userStatus, identity, credential, admins, lapsed>>

\* Whoever manages users, outside this repository.
Suspend(u) ==
  /\ userStatus[u] = "ACTIVE"
  /\ userStatus' = [userStatus EXCEPT ![u] = "DISABLED"]
  /\ UNCHANGED <<identity, credential, admins, bootstrap, lapsed>>
RevokeAdmin(u) ==
  /\ u \in admins
  /\ admins' = admins \ {u} /\ lapsed' = lapsed \cup {u[1]}
  /\ UNCHANGED <<userStatus, identity, credential, bootstrap>>

BootstrapNext ==
  \/ \E b \in Bootstraps :
       Lock(b) \/ FindAdmin(b) \/ FindUser(b) \/ LinkIdentity(b) \/ Commit(b) \/ Rollback(b)
  \/ \E u \in Users : Suspend(u) \/ RevokeAdmin(u)

BootstrapSpec == BootstrapInit /\ [][BootstrapNext]_bootstrapVars

-----------------------------------------------------------------------------

BootstrapTypeOK ==
  /\ userStatus \in [Users -> {"NONE", "ACTIVE", "DISABLED"}]
  /\ identity \in [Emails -> Users \cup {NoOne}]
  /\ credential \in [Emails -> {"NONE", "EMPTY", "SET"}]
  /\ admins \subseteq Users
  /\ bootstrap \in [Bootstraps -> [at : {"START"} \cup Open \cup Answered,
                                   org : Organizations, email : Emails]]

\* However the calls of several people and organizations overlap, only one of them
\* makes a first administrator of an organization, unless he was revoked in
\* between, and one that was told so can sign in: his identity is that of a user of
\* this organization, with a password and the role.
FirstAdministratorIsOne ==
  \A b \in Bootstraps : bootstrap[b].at \in {"CREATED", "EXISTING"} =>
    LET org == bootstrap[b].org
        email == bootstrap[b].email IN
    /\ identity[email] \in {org} \X Emails /\ credential[email] = "SET"
    /\ org \notin lapsed =>
         /\ identity[email] \in admins
         /\ \A c \in Bootstraps \ {b} :
              At(b, "CREATED") /\ At(c, "CREATED") => bootstrap[c].org # org
         /\ \A c \in Bootstraps \ {b} :
              bootstrap[c].at \in {"CREATED", "EXISTING"} /\ bootstrap[c].org = org =>
                bootstrap[c].email = email
=============================================================================
