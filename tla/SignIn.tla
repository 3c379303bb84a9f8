------------------------------- MODULE SignIn -------------------------------
(***************************************************************************)
(* Identity and method linking (convex/access/identity, access/linking):   *)
(* the person rows, the provider credentials and device sessions they sign *)
(* in with, the linking ceremony that attaches a second sign-in method,    *)
(* the change of the address, and what a recovery clears.                  *)
(*                                                                         *)
(* Every action is one transaction.  The one-time codes are not data here: *)
(* "staged" says that a code of the pending leg was mailed, and a step     *)
(* that verifies it is taken by whoever received it.  All windows of a     *)
(* ceremony are 15 minutes from a moment inside the ceremony, so its own   *)
(* expiry is the one that matters.                                         *)
(***************************************************************************)
EXTENDS Naturals, FiniteSets

CONSTANTS
  People,         \* identities of person rows
  Addresses,      \* normalized mail addresses
  Subjects,       \* Google account ids
  GoogleEmail,    \* the address a Google account claims
  Verified,       \* Google accounts whose address Google marks verified
  Authoritative,  \* Google accounts whose claim Google is authoritative for
  Devices,        \* identities of device sessions
  Ceremonies,     \* identities of linking attempts, in order of creation
  NoOne, NoAddress, NoSubject

ASSUME GoogleEmailAssumption == GoogleEmail \in [Subjects -> Addresses]
ASSUME ClaimsAssumption == Verified \subseteq Subjects /\ Authoritative \subseteq Subjects
ASSUME CeremoniesAssumption == Ceremonies \subseteq Nat
ASSUME NothingAssumption ==
  NoOne \notin People /\ NoAddress \notin Addresses /\ NoSubject \notin Subjects

VARIABLES
  people,       \* users
  credentials,  \* authAccounts of the two providers
  sessions,     \* sessions, with the authSessions they mirror
  attempts,     \* linkingAttempts
  change        \* the unconfirmed emailChangeRequests row of each person

signInVars == <<people, credentials, sessions, attempts, change>>

Methods == {"google", "email_code"}
PersonRows == [email : Addresses \union {NoAddress},
               subject : Subjects \union {NoSubject}, verified : BOOLEAN]
CredentialRows == [method : Methods, key : Addresses \union Subjects, owner : People]
SessionRows == [user : People \union {NoOne},
                state : {"none", "live", "lapsed", "revoked"}]
AttemptRows == [owner : People \union {NoOne}, email : Addresses \union {NoAddress},
                initiating : Methods, target : Methods,
                state : {"none", "awaiting_first_proof", "awaiting_target_proof",
                         "committed", "rejected"},
                first : BOOLEAN, staged : BOOLEAN, expired : BOOLEAN]
ChangeRows == [email : Addresses \union {NoAddress}, previous : Addresses \union {NoAddress},
               expired : BOOLEAN]

NoPerson  == [email |-> NoAddress, subject |-> NoSubject, verified |-> FALSE]
NoSession == [user |-> NoOne, state |-> "none"]
NoAttempt == [owner |-> NoOne, email |-> NoAddress, initiating |-> "google",
              target |-> "google", state |-> "none",
              first |-> FALSE, staged |-> FALSE, expired |-> FALSE]
NoChange  == [email |-> NoAddress, previous |-> NoAddress, expired |-> FALSE]

SignInTypeOK ==
  /\ people \in [People -> PersonRows]
  /\ credentials \subseteq CredentialRows
  /\ sessions \in [Devices -> SessionRows]
  /\ attempts \in [Ceremonies -> AttemptRows]
  /\ change \in [People -> ChangeRows]

Credential(method, key, owner) == [method |-> method, key |-> key, owner |-> owner]
Owner(method, key) == {c.owner : c \in {x \in credentials : x.method = method /\ x.key = key}}
PeopleAt(a)        == {u \in People : people[u].email = a}
PeopleWith(s)      == {u \in People : people[u].subject = s}
Live(u)   == \E d \in Devices : sessions[d] = [user |-> u, state |-> "live"]
Fresh(u)  == people[u] = NoPerson

SignInInit ==
  /\ people = [u \in People |-> NoPerson]
  /\ credentials = {}
  /\ sessions = [d \in Devices |-> NoSession]
  /\ attempts = [n \in Ceremonies |-> NoAttempt]
  /\ change = [u \in People |-> NoChange]

-----------------------------------------------------------------------------
(* Signing in.  The library finds the credential, asks createOrUpdateUser  *)
(* for the person, stores the credential and opens the session; the first  *)
(* request of the session provisions its registry row.                     *)

OpenSession(d, u) ==
  /\ sessions[d] = NoSession
  /\ sessions' = [sessions EXCEPT ![d] = [user |-> u, state |-> "live"]]

(* decideCreateOrUpdateUser without a credential: a code resumes the one   *)
(* person at the address who has no Google method, or founds a person; a   *)
(* Google account only founds, where nobody holds its address, so that no  *)
(* method is ever linked silently.                                         *)
CodeResumes(a, u)  == PeopleAt(a) = {u} /\ people[u].subject = NoSubject
FoundsPerson(a, u) == PeopleAt(a) = {} /\ Fresh(u)

(* The request of a mailed code (the issuance budget may only refuse it).  *)
RequestCode(a, u) ==
  /\ Owner("email_code", a) = {}
  /\ \/ CodeResumes(a, u) /\ UNCHANGED people
     \/ FoundsPerson(a, u) /\ people' = [people EXCEPT ![u].email = a]
  /\ credentials' = credentials \union {Credential("email_code", a, u)}
  /\ UNCHANGED <<sessions, attempts, change>>

(* The code came back: its owner's mailbox is proven.                      *)
SignInWithCode(a, u, d) ==
  /\ Owner("email_code", a) = {u}
  /\ people' = [people EXCEPT ![u].verified = TRUE]
  /\ OpenSession(d, u)
  /\ UNCHANGED <<credentials, attempts, change>>

SignUpWithGoogle(s, u, d) ==
  /\ Owner("google", s) = {}
  /\ FoundsPerson(GoogleEmail[s], u)
  /\ people' = [people EXCEPT ![u] =
       [email |-> GoogleEmail[s], subject |-> s, verified |-> s \in Verified]]
  /\ credentials' = credentials \union {Credential("google", s, u)}
  /\ OpenSession(d, u)
  /\ UNCHANGED <<attempts, change>>

SessionLapses(d) ==
  /\ sessions[d].state = "live"
  /\ sessions' = [sessions EXCEPT ![d].state = "lapsed"]
  /\ UNCHANGED <<people, credentials, attempts, change>>

(* revokeSession on one of the actor's devices; revokeOtherSessions.       *)
RevokeSession(u, d) ==
  /\ Live(u) /\ sessions[d].user = u /\ sessions[d].state # "revoked"
  /\ sessions' = [sessions EXCEPT ![d].state = "revoked"]
  /\ UNCHANGED <<people, credentials, attempts, change>>

RevokedBut(u, keep) ==
  [d \in Devices |-> IF sessions[d].user = u /\ d \notin keep
                       THEN [sessions[d] EXCEPT !.state = "revoked"] ELSE sessions[d]]

RevokeOtherSessions(u, d) ==
  /\ sessions[d] = [user |-> u, state |-> "live"]
  /\ sessions' = RevokedBut(u, {d})
  /\ UNCHANGED <<people, credentials, attempts, change>>

-----------------------------------------------------------------------------
(* The linking ceremony.                                                   *)

AttemptOpen(n)   == attempts[n].state \in {"awaiting_first_proof", "awaiting_target_proof"}
AttemptActive(n) == AttemptOpen(n) /\ ~attempts[n].expired

(* activeAttemptByUser: the newest active one.                             *)
ActiveAttempt(u) ==
  {n \in Ceremonies : /\ AttemptActive(n) /\ attempts[n].owner = u
                      /\ \A m \in Ceremonies :
                           AttemptActive(m) /\ attempts[m].owner = u => m <= n}

(* decideBeginLinking.                                                     *)
MayBegin(u, target) ==
  /\ IF target = "google" THEN people[u].subject = NoSubject
     ELSE Owner("email_code", people[u].email) = {}
  /\ \A n \in Ceremonies : attempts[n].email = people[u].email => ~AttemptActive(n)

BeginLinking(u, target) ==
  /\ Live(u) /\ MayBegin(u, target)
  /\ \E n \in Ceremonies :
       /\ attempts[n] = NoAttempt
       /\ \A m \in Ceremonies : attempts[m] = NoAttempt => n <= m
       /\ attempts' = [attempts EXCEPT ![n] =
            [owner |-> u, email |-> people[u].email,
             initiating |-> IF people[u].subject # NoSubject THEN "google" ELSE "email_code",
             target |-> target, state |-> "awaiting_first_proof",
             first |-> FALSE, staged |-> FALSE, expired |-> FALSE]]
  /\ UNCHANGED <<people, credentials, sessions, change>>

AwaitsCode(n) ==
  \/ attempts[n].state = "awaiting_first_proof" /\ attempts[n].initiating = "email_code"
  \/ attempts[n].state = "awaiting_target_proof" /\ attempts[n].target = "email_code"

StageProofCode(u) ==
  /\ Live(u)
  /\ \E n \in ActiveAttempt(u) :
       /\ AwaitsCode(n)
       /\ attempts' = [attempts EXCEPT ![n].staged = TRUE]
  /\ UNCHANGED <<people, credentials, sessions, change>>

(* verifyProofCode on the first leg.                                       *)
VerifyFirstProof(u) ==
  /\ Live(u)
  /\ \E n \in ActiveAttempt(u) :
       /\ attempts[n].state = "awaiting_first_proof"
       /\ attempts[n].initiating = "email_code" /\ attempts[n].staged
       /\ attempts' = [attempts EXCEPT ![n].state = "awaiting_target_proof",
                                       ![n].first = TRUE, ![n].staged = FALSE]
  /\ UNCHANGED <<people, credentials, sessions, change>>

(* decideConfirmEmailLink.                                                 *)
MayLinkEmail(u, n) ==
  /\ attempts[n].state = "awaiting_target_proof" /\ attempts[n].target = "email_code"
  /\ people[u].subject # NoSubject
  /\ attempts[n].first /\ attempts[n].staged
  /\ Owner("email_code", attempts[n].email) = {}

(* verifyProofCode on the target leg commits the email method.             *)
CommitEmailLink(u) ==
  /\ Live(u)
  /\ \E n \in ActiveAttempt(u) :
       /\ MayLinkEmail(u, n)
       /\ credentials' = credentials \union
            {Credential("email_code", attempts[n].email, u)}
       /\ people' = [people EXCEPT ![u].verified = TRUE]
       /\ attempts' = [attempts EXCEPT ![n].state = "committed", ![n].staged = FALSE]
  /\ UNCHANGED <<sessions, change>>

(* A Google resume also proves the Google leg of its own ceremony          *)
(* (recordGoogleProof).                                                    *)
ResumeWithGoogle(s, u, d) ==
  /\ Owner("google", s) = {u}
  /\ people' = [people EXCEPT ![u].verified = @ \/ s \in Verified]
  /\ OpenSession(d, u)
  /\ attempts' = [n \in Ceremonies |->
       IF /\ n \in ActiveAttempt(u) /\ people[u].subject = s
          /\ attempts[n].target = "email_code" /\ attempts[n].initiating = "google"
          /\ attempts[n].email = GoogleEmail[s]
         THEN [attempts[n] EXCEPT !.state = "awaiting_target_proof", !.first = TRUE]
         ELSE attempts[n]]
  /\ UNCHANGED <<credentials, change>>

(* openAttemptsByEmail of the callback's store, oldest first: the ceremony *)
(* that is committed is the person's oldest open one.                      *)
OpenAt(a) == {n \in Ceremonies : AttemptOpen(n) /\ attempts[n].email = a}
FirstOpen(u, a) ==
  CHOOSE n \in OpenAt(a) :
    /\ attempts[n].owner = u
    /\ \A m \in OpenAt(a) : attempts[m].owner = u => n <= m

(* decideGoogleCallbackLink.                                               *)
MayLinkGoogle(s, u) ==
  LET a == GoogleEmail[s]
      candidates == {n \in OpenAt(a) : /\ attempts[n].target = "google"
                                       /\ attempts[n].state = "awaiting_target_proof"
                                       /\ attempts[n].owner = u}
  IN /\ PeopleAt(a) = {u} /\ people[u].subject = NoSubject
     /\ s \in Authoritative
     /\ Owner("google", s) = {} /\ PeopleWith(s) = {}
     /\ Cardinality(candidates) = 1
     /\ \A n \in candidates : attempts[n].first /\ ~attempts[n].expired

(* The OAuth callback that would collide commits the link instead; the     *)
(* library attaches the credential and opens the session.                  *)
LinkWithGoogle(s, u, d) ==
  /\ Owner("google", s) = {}
  /\ MayLinkGoogle(s, u)
  /\ attempts' = [attempts EXCEPT ![FirstOpen(u, GoogleEmail[s])].state = "committed"]
  /\ people' = [people EXCEPT ![u].subject = s]
  /\ credentials' = credentials \union {Credential("google", s, u)}
  /\ OpenSession(d, u)
  /\ UNCHANGED change

Rejected(N) ==
  [n \in Ceremonies |-> IF n \in N
     THEN [attempts[n] EXCEPT !.state = "rejected", !.staged = FALSE] ELSE attempts[n]]

CancelLinking(u) ==
  /\ Live(u) /\ ActiveAttempt(u) # {}
  /\ attempts' = Rejected(ActiveAttempt(u))
  /\ UNCHANGED <<people, credentials, sessions, change>>

(* No sweeper closes an expired ceremony: its row stays open.              *)
CeremonyExpires(n) ==
  /\ AttemptActive(n)
  /\ attempts' = [attempts EXCEPT ![n].expired = TRUE]
  /\ UNCHANGED <<people, credentials, sessions, change>>

-----------------------------------------------------------------------------
(* The change of the address.                                              *)

(* decideEmailChangeRequest: any unconfirmed request blocks, an expired    *)
(* one too.  Whether another person holds the address is not asked.        *)
MayRequestChange(u, a) == a # people[u].email /\ change[u] = NoChange

RequestEmailChange(u, a) ==
  /\ Live(u) /\ MayRequestChange(u, a)
  /\ change' = [change EXCEPT ![u] =
       [email |-> a, previous |-> people[u].email, expired |-> FALSE]]
  /\ UNCHANGED <<people, credentials, sessions, attempts>>

EmailChangeExpires(u) ==
  /\ change[u] # NoChange /\ ~change[u].expired
  /\ change' = [change EXCEPT ![u].expired = TRUE]
  /\ UNCHANGED <<people, credentials, sessions, attempts>>

(* decideEmailChangeConfirm.                                               *)
MayConfirmChange(u) ==
  /\ change[u] # NoChange /\ people[u].email # change[u].email
  /\ ~change[u].expired

(* repointEmailCodeCredential: only a credential of the person moves.  Its *)
(* lookup throws, and the change with it, where two rows hold the address. *)
Repointed(u) ==
  LET old == Credential("email_code", change[u].previous, u)
  IN IF Owner("email_code", change[u].previous) = {u}
       THEN (credentials \ {old}) \union {Credential("email_code", change[u].email, u)}
       ELSE credentials

(* A fault: the pending ceremony of the old address survives the change.   *)
ConfirmKeepsCeremony(u) ==
  /\ Live(u) /\ MayConfirmChange(u)
  /\ Cardinality(Owner("email_code", change[u].previous)) <= 1
  /\ people' = [people EXCEPT ![u].email = change[u].email, ![u].verified = TRUE]
  /\ credentials' = Repointed(u)
  /\ change' = [change EXCEPT ![u] = NoChange]
  /\ UNCHANGED <<sessions, attempts>>

ConfirmEmailChange(u) ==
  /\ Live(u) /\ MayConfirmChange(u)
  /\ Cardinality(Owner("email_code", change[u].previous)) <= 1
  /\ people' = [people EXCEPT ![u].email = change[u].email, ![u].verified = TRUE]
  /\ credentials' = Repointed(u)
  /\ attempts' = Rejected(ActiveAttempt(u))
  /\ change' = [change EXCEPT ![u] = NoChange]
  /\ UNCHANGED sessions

-----------------------------------------------------------------------------
(* A fault: the linked subject survives the recovery.                      *)
RecoverKeepsSubject(u) ==
  /\ ~Fresh(u)
  /\ sessions' = RevokedBut(u, {})
  /\ credentials' = {c \in credentials : c.owner # u}
  /\ attempts' = Rejected(ActiveAttempt(u))
  /\ UNCHANGED <<people, change>>

(* recoverAccountCore: sessions, credentials and the linked subject go,    *)
(* the person row stays.                                                   *)
Recover(u) ==
  /\ ~Fresh(u)
  /\ sessions' = RevokedBut(u, {})
  /\ credentials' = {c \in credentials : c.owner # u}
  /\ people' = [people EXCEPT ![u].subject = NoSubject]
  /\ attempts' = Rejected(ActiveAttempt(u))
  /\ UNCHANGED change

SignInNext ==
  \/ \E a \in Addresses, u \in People : RequestCode(a, u)
  \/ \E a \in Addresses, u \in People, d \in Devices : SignInWithCode(a, u, d)
  \/ \E s \in Subjects, u \in People, d \in Devices :
       \/ SignUpWithGoogle(s, u, d)
       \/ ResumeWithGoogle(s, u, d)
       \/ LinkWithGoogle(s, u, d)
  \/ \E d \in Devices : SessionLapses(d)
  \/ \E u \in People, d \in Devices : RevokeSession(u, d) \/ RevokeOtherSessions(u, d)
  \/ \E u \in People, m \in Methods : BeginLinking(u, m)
  \/ \E u \in People :
       \/ StageProofCode(u) \/ VerifyFirstProof(u) \/ CommitEmailLink(u)
       \/ CancelLinking(u) \/ EmailChangeExpires(u) \/ ConfirmEmailChange(u)
  \/ \E n \in Ceremonies : CeremonyExpires(n)
  \/ \E u \in People, a \in Addresses : RequestEmailChange(u, a)

-----------------------------------------------------------------------------
(* A Google account signs in one person: the subject is carried by one     *)
(* person row at most, and its credential is that person's, however        *)
(* sign-ups, links, changes of address and recoveries interleave.          *)
OneOwnerPerSubject ==
  \A s \in Subjects :
    /\ \A u, v \in PeopleWith(s) : u = v
    /\ Owner("google", s) = PeopleWith(s)

(* A mailed code signs in whoever holds the mailbox: the code credential   *)
(* of a person is at the person's present address, whatever ceremonies     *)
(* were open when the address changed.                                     *)
CredentialFollowsAddress ==
  \A c \in credentials : c.method = "email_code" => people[c.owner].email = c.key
=============================================================================
