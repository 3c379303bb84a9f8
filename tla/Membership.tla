----------------------------- MODULE Membership -----------------------------
(***************************************************************************)
(* Firms, memberships and invitations (convex/access/membership), the      *)
(* cleanup that follows a revocation, and the operator mode that may       *)
(* onboard a firm, restore its administrator or recover an account         *)
(* (convex/access/gm), over the persons and sessions of SignIn.            *)
(*                                                                         *)
(* Every operation resolves its context (live session, earliest active     *)
(* membership) in the transaction that writes, so a guard is never stale.  *)
(* An invitation names an address, and whoever holds the address then.     *)
(***************************************************************************)
EXTENDS SignIn

CONSTANTS
  Companies,    \* identities of firms
  Memberships,  \* identities of membership rows, in order of creation
  Invitations,  \* identities of invitations
  Operators,    \* persons on the deployment's operator list
  NoCompany, NoMembership

ASSUME MembershipsAssumption == Memberships \subseteq Nat
ASSUME OperatorsAssumption == Operators \subseteq People
ASSUME NoRowAssumption == NoCompany \notin Companies /\ NoMembership \notin Memberships

VARIABLES
  firms,        \* companies
  memberships,
  invitations,
  grants,       \* persons with an open gmAccessGrants row
  alpha,        \* firms with an open gmCompanyActivations row
  cleanups      \* queued access.cleanup_revocation jobs, by membership

memberVars == <<firms, memberships, invitations, grants, alpha, cleanups>>
vars == <<signInVars, memberVars>>

Roles == {"admin", "member"}
MembershipRows == [company : Companies \union {NoCompany}, user : People \union {NoOne},
                   role : Roles, state : {"none", "active", "revoked"}]
InvitationRows == [company : Companies \union {NoCompany},
                   email : Addresses \union {NoAddress}, role : Roles,
                   state : {"none", "pending", "accepted", "revoked", "expired", "rejected"},
                   due : BOOLEAN, admitted : Memberships \union {NoMembership}]
NoMember == [company |-> NoCompany, user |-> NoOne, role |-> "member", state |-> "none"]
NoInvitation == [company |-> NoCompany, email |-> NoAddress, role |-> "member",
                 state |-> "none", due |-> FALSE, admitted |-> NoMembership]

TypeOK ==
  /\ SignInTypeOK
  /\ firms \subseteq Companies
  /\ memberships \in [Memberships -> MembershipRows]
  /\ invitations \in [Invitations -> InvitationRows]
  /\ grants \subseteq Operators
  /\ alpha \subseteq firms
  /\ cleanups \subseteq Memberships

Active(m)     == memberships[m].state = "active"
RowsOf(u)     == {m \in Memberships : Active(m) /\ memberships[m].user = u}
StaffOf(c)    == {m \in Memberships : Active(m) /\ memberships[m].company = c}
AdminsOf(c)   == {m \in StaffOf(c) : memberships[m].role = "admin"}

(* resolveRequestContext: the earliest active membership of a live session.*)
ActsAs(u, m) ==
  /\ Live(u) /\ m \in RowsOf(u)
  /\ \A k \in RowsOf(u) : m <= k
Administers(u, c) == \E m \in AdminsOf(c) : ActsAs(u, m)

NextRow(m) ==
  /\ memberships[m] = NoMember
  /\ \A k \in Memberships : memberships[k] = NoMember => m <= k

-----------------------------------------------------------------------------
CreateCompany(u, c, m) ==
  /\ Live(u) /\ RowsOf(u) = {}
  /\ c \notin firms /\ firms' = firms \union {c}
  /\ NextRow(m)
  /\ memberships' = [memberships EXCEPT ![m] =
       [company |-> c, user |-> u, role |-> "admin", state |-> "active"]]
  /\ UNCHANGED <<signInVars, invitations, grants, alpha, cleanups>>

Invited(c, a, role) ==
  [company |-> c, email |-> a, role |-> role, state |-> "pending",
   due |-> FALSE, admitted |-> NoMembership]

(* One live invitation per address; stale pending ones close first.        *)
CreateInvitation(u, c, a, role, i) ==
  LET same == {j \in Invitations : /\ invitations[j].state = "pending"
                                   /\ invitations[j].company = c /\ invitations[j].email = a}
  IN /\ Administers(u, c)
     /\ \A j \in same : invitations[j].due
     /\ invitations[i] = NoInvitation
     /\ invitations' = [j \in Invitations |->
          IF j = i THEN Invited(c, a, role)
          ELSE IF j \in same THEN [invitations[j] EXCEPT !.state = "expired"]
          ELSE invitations[j]]
     /\ UNCHANGED <<signInVars, firms, memberships, grants, alpha, cleanups>>

InvitationFallsDue(i) ==
  /\ invitations[i].state = "pending" /\ ~invitations[i].due
  /\ invitations' = [invitations EXCEPT ![i].due = TRUE]
  /\ UNCHANGED <<signInVars, firms, memberships, grants, alpha, cleanups>>

RevokeInvitation(u, i) ==
  /\ invitations[i].state = "pending" /\ Administers(u, invitations[i].company)
  /\ invitations' = [invitations EXCEPT ![i].state = "revoked"]
  /\ UNCHANGED <<signInVars, firms, memberships, grants, alpha, cleanups>>

RejectInvitation(u, i) ==
  /\ invitations[i].state = "pending"
  /\ Live(u) /\ invitations[i].email = people[u].email
  /\ invitations' = [invitations EXCEPT ![i].state = "rejected"]
  /\ UNCHANGED <<signInVars, firms, memberships, grants, alpha, cleanups>>

(* A fault: the one-active-company rule is left to the admission form.     *)
AdmissibleAnywhere(u, i) ==
  /\ invitations[i].email = people[u].email
  /\ people[u].subject = NoSubject \/ people[u].verified
  /\ invitations[i].state = "pending" /\ ~invitations[i].due

(* decideInvitationAdmission, with the code of the invitation.             *)
Admissible(u, i) ==
  /\ invitations[i].email = people[u].email
  /\ people[u].subject = NoSubject \/ people[u].verified
  /\ invitations[i].state = "pending" /\ ~invitations[i].due
  /\ RowsOf(u) = {}

AcceptInvitation(u, i, m) ==
  /\ Live(u) /\ Admissible(u, i)
  /\ NextRow(m)
  /\ memberships' = [memberships EXCEPT ![m] =
       [company |-> invitations[i].company, user |-> u,
        role |-> invitations[i].role, state |-> "active"]]
  /\ invitations' = [invitations EXCEPT ![i].state = "accepted", ![i].admitted = m]
  /\ UNCHANGED <<signInVars, firms, grants, alpha, cleanups>>

-----------------------------------------------------------------------------
(* A fault: the firm's rows are counted, revoked ones too.                 *)
MayStepDownCounted(m) ==
  memberships[m].role = "admin" =>
    \E k \in Memberships \ {m} : /\ memberships[k].company = memberships[m].company
                                 /\ memberships[k].role = "admin"

(* decideLastAdminChange.                                                  *)
MayStepDown(m) ==
  memberships[m].role = "admin" => AdminsOf(memberships[m].company) \ {m} # {}

ChangeMembershipRole(u, m, role) ==
  /\ Active(m) /\ Administers(u, memberships[m].company)
  /\ role # memberships[m].role
  /\ role = "member" => MayStepDown(m)
  /\ memberships' = [memberships EXCEPT ![m].role = role]
  /\ UNCHANGED <<signInVars, firms, invitations, grants, alpha, cleanups>>

(* decideAdministrationTransfer.                                           *)
MayTransfer(u, from, to) ==
  /\ memberships[from].role = "admin"
  /\ to \in StaffOf(memberships[from].company) /\ memberships[to].user # u

TransferAdministration(u, from, to) ==
  /\ ActsAs(u, from) /\ MayTransfer(u, from, to)
  /\ memberships' = [memberships EXCEPT ![from].role = "member", ![to].role = "admin"]
  /\ UNCHANGED <<signInVars, firms, invitations, grants, alpha, cleanups>>

(* The row, the event and the cleanup job are one transaction.             *)
RevokeMembership(u, m) ==
  /\ Active(m)
  /\ \/ Administers(u, memberships[m].company)
     \/ ActsAs(u, m)
  /\ MayStepDown(m)
  /\ memberships' = [memberships EXCEPT ![m].state = "revoked"]
  /\ cleanups' = cleanups \union {m}
  /\ UNCHANGED <<signInVars, firms, invitations, grants, alpha>>

(* The executor of access.cleanup_revocation reads the person's sessions   *)
(* when it runs, whatever happened since the revocation.                   *)
CleanupRevocation(m) ==
  /\ m \in cleanups
  /\ cleanups' = cleanups \ {m}
  /\ sessions' = RevokedBut(memberships[m].user, {})
  /\ UNCHANGED <<people, credentials, attempts, change, firms, memberships,
                 invitations, grants, alpha>>

-----------------------------------------------------------------------------
(* The operator mode: an open grant, and an open activation of the firm.   *)

(* A fault: the operator list of the deployment is not asked.              *)
EnterUnlisted(u) ==
  /\ Live(u) /\ u \notin grants
  /\ grants' = grants \union {u}
  /\ UNCHANGED <<signInVars, firms, memberships, invitations, alpha, cleanups>>

MayEnterGm(u) == u \in Operators /\ u \notin grants

EnterGmMode(u) ==
  /\ Live(u) /\ MayEnterGm(u)
  /\ grants' = grants \union {u}
  /\ UNCHANGED <<signInVars, firms, memberships, invitations, alpha, cleanups>>

ExitGmMode(u) ==
  /\ Live(u) /\ u \in grants
  /\ grants' = grants \ {u}
  /\ UNCHANGED <<signInVars, firms, memberships, invitations, alpha, cleanups>>

GmActs(u) == Live(u) /\ u \in grants

(* decideGmCompanyAccess: the firm is open to operators.                   *)
GmReaches(c) == c \in alpha

(* The onboarded firm has no member until its first administrator accepts. *)
GmOnboardCompany(u, c, a, i) ==
  /\ GmActs(u) /\ c \notin firms /\ invitations[i] = NoInvitation
  /\ firms' = firms \union {c}
  /\ alpha' = alpha \union {c}
  /\ invitations' = [invitations EXCEPT ![i] = Invited(c, a, "admin")]
  /\ UNCHANGED <<signInVars, memberships, grants, cleanups>>

GmActivateCompany(u, c) ==
  /\ GmActs(u) /\ c \in firms \ alpha
  /\ alpha' = alpha \union {c}
  /\ UNCHANGED <<signInVars, firms, memberships, invitations, grants, cleanups>>

GmRestoreAdministrator(u, m) ==
  /\ GmActs(u) /\ Active(m) /\ GmReaches(memberships[m].company)
  /\ memberships[m].role # "admin"
  /\ memberships' = [memberships EXCEPT ![m].role = "admin"]
  /\ UNCHANGED <<signInVars, firms, invitations, grants, alpha, cleanups>>

GmEndCompanyAlpha(u, c) ==
  /\ GmActs(u) /\ GmReaches(c)
  /\ alpha' = alpha \ {c}
  /\ UNCHANGED <<signInVars, firms, memberships, invitations, grants, cleanups>>

GmRecoverAccount(u, v) ==
  /\ GmActs(u) /\ Recover(v)
  /\ UNCHANGED memberVars

Init ==
  /\ SignInInit
  /\ firms = {} /\ grants = {} /\ alpha = {} /\ cleanups = {}
  /\ memberships = [m \in Memberships |-> NoMember]
  /\ invitations = [i \in Invitations |-> NoInvitation]

FirmNext ==
  \/ \E u \in People, c \in Companies, m \in Memberships : CreateCompany(u, c, m)
  \/ \E u \in People, c \in Companies, a \in Addresses, r \in Roles, i \in Invitations :
       CreateInvitation(u, c, a, r, i)
  \/ \E i \in Invitations : InvitationFallsDue(i)
  \/ \E u \in People, i \in Invitations :
       \/ RevokeInvitation(u, i) \/ RejectInvitation(u, i)
       \/ \E m \in Memberships : AcceptInvitation(u, i, m)
  \/ \E u \in People, m \in Memberships :
       \/ RevokeMembership(u, m)
       \/ \E r \in Roles : ChangeMembershipRole(u, m, r)
       \/ \E k \in Memberships : TransferAdministration(u, m, k)
  \/ \E m \in Memberships : CleanupRevocation(m)

GmNext ==
  \E u \in People :
    \/ EnterGmMode(u) \/ ExitGmMode(u)
    \/ \E c \in Companies : GmActivateCompany(u, c) \/ GmEndCompanyAlpha(u, c)
    \/ \E c \in Companies, a \in Addresses, i \in Invitations : GmOnboardCompany(u, c, a, i)
    \/ \E m \in Memberships : GmRestoreAdministrator(u, m)
    \/ \E v \in People : GmRecoverAccount(u, v)

Next == (SignInNext /\ UNCHANGED memberVars) \/ FirmNext \/ GmNext

Spec == Init /\ [][Next]_vars

-----------------------------------------------------------------------------
(* A firm with anybody in it has an administrator in it: two who leave, a  *)
(* demotion against a transfer or an operator's restoration never strand   *)
(* the others (decideLastAdminChange).                                     *)
StaffedFirmHasAdministrator ==
  \A c \in Companies : StaffOf(c) # {} => AdminsOf(c) # {}

(* A person is in one firm at most, founded or joined, and a membership    *)
(* that an invitation admitted to is the one the invitation's row names:   *)
(* no invitation admits twice.                                             *)
OneFirmOneAdmission ==
  /\ \A u \in People : \A m, k \in RowsOf(u) : m = k
  /\ \A i, j \in Invitations :
       invitations[i].state = "accepted" /\ invitations[j].state = "accepted"
         /\ invitations[i].admitted = invitations[j].admitted => i = j
=============================================================================
