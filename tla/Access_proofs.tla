---------------------------- MODULE Access_proofs ----------------------------
(***************************************************************************)
(* What identity, linking and membership guarantee for every set of        *)
(* persons, addresses, Google accounts, devices, ceremonies and firms.     *)
(***************************************************************************)
EXTENDS Membership, FiniteSetTheorems, TLAPS

-----------------------------------------------------------------------------
(* The invariant of the sign-in half.  A code credential follows the       *)
(* address only because every live ceremony is at its owner's present      *)
(* address, a person has one live ceremony at most (so that the change of  *)
(* the address ends them all), an unconfirmed change remembers the present *)
(* address, and whoever has a live session is a person with an address.    *)

Known(u) == people[u].email \in Addresses

CodesAreAtAddresses ==
  \A c \in credentials : c.method = "email_code" => c.key \in Addresses
PersonsAreKnown == \A u \in People : Fresh(u) \/ Known(u)
SessionsAreOfKnown ==
  \A d \in Devices : sessions[d].state = "live" =>
    sessions[d].user \in People /\ Known(sessions[d].user)
CeremoniesAreAtAddress ==
  \A n \in Ceremonies : AttemptActive(n) =>
    /\ attempts[n].owner \in People /\ Known(attempts[n].owner)
    /\ attempts[n].email = people[attempts[n].owner].email
OneCeremonyPerPerson ==
  \A n, m \in Ceremonies :
    AttemptActive(n) /\ AttemptActive(m) /\ attempts[n].owner = attempts[m].owner => n = m
ChangesStartFromPresent ==
  \A u \in People : change[u] # NoChange =>
    Known(u) /\ change[u].email \in Addresses /\ change[u].previous = people[u].email

SignInInv ==
  /\ SignInTypeOK
  /\ IsFiniteSet(credentials)
  /\ OneOwnerPerSubject
  /\ CredentialFollowsAddress
  /\ CodesAreAtAddresses
  /\ PersonsAreKnown
  /\ SessionsAreOfKnown
  /\ CeremoniesAreAtAddress
  /\ OneCeremonyPerPerson
  /\ ChangesStartFromPresent

-----------------------------------------------------------------------------
(* Operators of SignIn.                                                    *)

LEMMA Members ==
  ASSUME NEW method, NEW key
  PROVE  \A u : u \in Owner(method, key) <=>
           \E c \in credentials : c.method = method /\ c.key = key /\ c.owner = u
BY DEF Owner

LEMMA OwnersAreFinite ==
  ASSUME IsFiniteSet(credentials), NEW method, NEW key
  PROVE  IsFiniteSet(Owner(method, key))
<1> DEFINE S == {x \in credentials : x.method = method /\ x.key = key}
           f == [c \in S |-> c.owner]
<1>1. IsFiniteSet(S)
  BY FS_Subset
<1>2. f \in Surjection(S, Owner(method, key))
  BY DEF Surjection, Owner
<1> QED
  BY <1>1, <1>2, FS_Surjection

LEMMA CredentialFields ==
  ASSUME NEW method, NEW key, NEW u
  PROVE  /\ Credential(method, key, u).method = method
         /\ Credential(method, key, u).key = key
         /\ Credential(method, key, u).owner = u
BY DEF Credential

LEMMA FreshHasNothing ==
  ASSUME SignInInv, NEW u \in People, Fresh(u)
  PROVE  /\ people[u].subject = NoSubject /\ ~Known(u)
         /\ \A c \in credentials : c.method = "email_code" => c.owner # u
         /\ \A d \in Devices : sessions[d].state = "live" => sessions[d].user # u
         /\ \A n \in Ceremonies : AttemptActive(n) => attempts[n].owner # u
         /\ change[u] = NoChange
<1>1. people[u].subject = NoSubject /\ ~Known(u)
  BY NothingAssumption DEF Fresh, NoPerson, Known
<1>2. \A c \in credentials : c.method = "email_code" => c.owner # u
  BY <1>1 DEF SignInInv, CredentialFollowsAddress, CodesAreAtAddresses, Known
<1>3. \A d \in Devices : sessions[d].state = "live" => sessions[d].user # u
  BY <1>1 DEF SignInInv, SessionsAreOfKnown
<1>4. \A n \in Ceremonies : AttemptActive(n) => attempts[n].owner # u
  BY <1>1 DEF SignInInv, CeremoniesAreAtAddress
<1>5. change[u] = NoChange
  BY <1>1 DEF SignInInv, ChangesStartFromPresent
<1> QED
  BY <1>1, <1>2, <1>3, <1>4, <1>5

LEMMA LiveIsKnown ==
  ASSUME SignInInv, NEW u \in People, Live(u)
  PROVE  Known(u)
<1>1. PICK d \in Devices : sessions[d] = [user |-> u, state |-> "live"]
  BY DEF Live
<1> QED
  BY <1>1 DEF SignInInv, SessionsAreOfKnown

(* Who acts on a ceremony acts on a live one of their own.                 *)
LEMMA ActiveAttempts ==
  ASSUME NEW u, NEW n \in ActiveAttempt(u)
  PROVE  n \in Ceremonies /\ AttemptActive(n) /\ attempts[n].owner = u
BY DEF ActiveAttempt

LEMMA OnlyActiveAttempt ==
  ASSUME SignInInv, NEW u \in People, NEW n \in Ceremonies, AttemptActive(n),
         attempts[n].owner = u
  PROVE  n \in ActiveAttempt(u)
<1>1. \A m \in Ceremonies : AttemptActive(m) /\ attempts[m].owner = u => m = n
  BY DEF SignInInv, OneCeremonyPerPerson
<1> QED
  BY <1>1, CeremoniesAssumption DEF ActiveAttempt

-----------------------------------------------------------------------------
(* What a step may do without disturbing the parts of the invariant.       *)

(* No known person's address moves, and nobody is forgotten.               *)
AddressesStand ==
  \A u \in People : /\ Known(u) => people'[u].email = people[u].email
                    /\ ~Known(u) => people'[u] = people[u] \/ people'[u].email \in Addresses

(* A ceremony that is live after the step was live, of the same person.    *)
CeremoniesStand ==
  \A n \in Ceremonies : AttemptActive(n)' =>
    /\ AttemptActive(n)
    /\ attempts'[n].owner = attempts[n].owner /\ attempts'[n].email = attempts[n].email

LEMMA StandingAddresses ==
  ASSUME SignInInv, AddressesStand
  PROVE  /\ PersonsAreKnown'
         /\ CeremoniesStand => CeremoniesAreAtAddress'
         /\ change' = change => ChangesStartFromPresent'
         /\ sessions' = sessions => SessionsAreOfKnown'
<1>1. \A u \in People : Known(u) => Known(u)'
  BY DEF AddressesStand, Known
<1>2. PersonsAreKnown'
  BY <1>1 DEF SignInInv, PersonsAreKnown, AddressesStand, Known, Fresh
<1>3. CeremoniesStand => CeremoniesAreAtAddress'
  BY <1>1 DEF SignInInv, CeremoniesAreAtAddress, CeremoniesStand, AddressesStand
<1>4. change' = change => ChangesStartFromPresent'
  BY <1>1 DEF SignInInv, ChangesStartFromPresent, AddressesStand
<1>5. sessions' = sessions => SessionsAreOfKnown'
  BY <1>1 DEF SignInInv, SessionsAreOfKnown
<1> QED
  BY <1>2, <1>3, <1>4, <1>5

LEMMA StandingCeremonies ==
  ASSUME SignInInv, CeremoniesStand
  PROVE  OneCeremonyPerPerson'
BY DEF SignInInv, OneCeremonyPerPerson, CeremoniesStand

LEMMA UnchangedCeremonies == attempts' = attempts => CeremoniesStand
BY DEF CeremoniesStand, AttemptActive, AttemptOpen

LEMMA OpenedSession ==
  ASSUME SignInInv, NEW d \in Devices, NEW u \in People, OpenSession(d, u), Known(u)',
         AddressesStand
  PROVE  sessions' \in [Devices -> SessionRows] /\ SessionsAreOfKnown'
<1>1. \A v \in People : Known(v) => Known(v)'
  BY DEF AddressesStand, Known
<1>2. sessions' \in [Devices -> SessionRows]
  BY DEF OpenSession, SignInInv, SignInTypeOK, SessionRows
<1>3. SessionsAreOfKnown'
  BY <1>1 DEF OpenSession, SignInInv, SignInTypeOK, SessionsAreOfKnown
<1> QED
  BY <1>2, <1>3

(* The revocation of sessions.                                             *)
LEMMA RevokedSessions ==
  ASSUME SignInInv, NEW u, NEW keep, sessions' = RevokedBut(u, keep), AddressesStand
  PROVE  sessions' \in [Devices -> SessionRows] /\ SessionsAreOfKnown'
<1>1. sessions' \in [Devices -> SessionRows]
  BY DEF RevokedBut, SignInInv, SignInTypeOK, SessionRows
<1>2. \A v \in People : Known(v) => Known(v)'
  BY DEF AddressesStand, Known
<1>3. SessionsAreOfKnown'
  BY <1>2 DEF RevokedBut, SignInInv, SignInTypeOK, SessionsAreOfKnown, SessionRows
<1> QED
  BY <1>1, <1>3

LEMMA RejectedCeremonies ==
  ASSUME SignInInv, NEW N, attempts' = Rejected(N)
  PROVE  /\ attempts' \in [Ceremonies -> AttemptRows] /\ CeremoniesStand
         /\ \A n \in N \intersect Ceremonies : ~AttemptActive(n)'
<1>1. attempts' \in [Ceremonies -> AttemptRows]
  <2>1. attempts \in [Ceremonies -> AttemptRows]
    BY DEF SignInInv, SignInTypeOK
  <2>2. \A row \in AttemptRows :
          [row EXCEPT !.state = "rejected", !.staged = FALSE] \in AttemptRows
    BY DEF AttemptRows
  <2> QED
    BY <2>1, <2>2 DEF Rejected
<1>2. \A n \in Ceremonies : \/ attempts'[n].state = "rejected"
                            \/ n \notin N /\ attempts'[n] = attempts[n]
  BY DEF Rejected, SignInInv, SignInTypeOK, AttemptRows
<1> QED
  BY <1>1, <1>2 DEF CeremoniesStand, AttemptActive, AttemptOpen

(* A ceremony's row that moves on.                                         *)
LEMMA AttemptEdits ==
  ASSUME NEW r \in AttemptRows
  PROVE  /\ [r EXCEPT !.state = "awaiting_target_proof", !.first = TRUE] \in AttemptRows
         /\ [r EXCEPT !.state = "awaiting_target_proof", !.first = TRUE, !.staged = FALSE]
              \in AttemptRows
         /\ [r EXCEPT !.state = "committed"] \in AttemptRows
         /\ [r EXCEPT !.state = "committed", !.staged = FALSE] \in AttemptRows
         /\ [r EXCEPT !.staged = TRUE] \in AttemptRows
         /\ [r EXCEPT !.expired = TRUE] \in AttemptRows
BY DEF AttemptRows

LEMMA Attempts ==
  ASSUME SignInInv, NEW n \in Ceremonies
  PROVE  attempts[n] \in AttemptRows
BY DEF SignInInv, SignInTypeOK

(* One ceremony moves, and stays the ceremony it was.                      *)
LEMMA MovedCeremony ==
  ASSUME SignInInv, NEW n \in Ceremonies, AttemptActive(n),
         attempts' \in [Ceremonies -> AttemptRows],
         \A m \in Ceremonies \ {n} : attempts'[m] = attempts[m],
         attempts'[n].owner = attempts[n].owner, attempts'[n].email = attempts[n].email
  PROVE  CeremoniesStand
BY DEF CeremoniesStand, AttemptActive, AttemptOpen
-----------------------------------------------------------------------------
(* The steps of the sign-in half.                                          *)

LEMMA SignInInvInit == SignInInit => SignInInv
<1> SUFFICES ASSUME SignInInit PROVE SignInInv
  OBVIOUS
<1>1. SignInTypeOK
  BY DEF SignInInit, SignInTypeOK, NoPerson, NoSession, NoAttempt, NoChange,
         PersonRows, SessionRows, AttemptRows, ChangeRows, Methods
<1>2. OneOwnerPerSubject
  <2>1. \A s \in Subjects : PeopleWith(s) = {} /\ Owner("google", s) = {}
    BY NothingAssumption DEF SignInInit, NoPerson, PeopleWith, Owner
  <2> QED
    BY <2>1 DEF OneOwnerPerSubject
<1>3. IsFiniteSet(credentials) /\ CredentialFollowsAddress /\ CodesAreAtAddresses
  BY FS_EmptySet DEF SignInInit, CredentialFollowsAddress, CodesAreAtAddresses
<1>4. PersonsAreKnown /\ ChangesStartFromPresent
  BY DEF SignInInit, PersonsAreKnown, ChangesStartFromPresent, Fresh
<1>5. SessionsAreOfKnown
  BY DEF SignInInit, SessionsAreOfKnown, NoSession
<1>6. CeremoniesAreAtAddress /\ OneCeremonyPerPerson
  BY DEF SignInInit, CeremoniesAreAtAddress, OneCeremonyPerPerson, AttemptActive,
         AttemptOpen, NoAttempt
<1> QED
  BY <1>1, <1>2, <1>3, <1>4, <1>5, <1>6 DEF SignInInv

(* A new code credential at the present address of its owner.              *)
LEMMA CodeAdded ==
  ASSUME SignInInv, AddressesStand, NEW u \in People, NEW a \in Addresses,
         people'[u].email = a,
         \A v \in People : people'[v].subject = people[v].subject,
         credentials' = credentials \union {Credential("email_code", a, u)}
  PROVE  /\ credentials' \subseteq CredentialRows /\ IsFiniteSet(credentials')
         /\ OneOwnerPerSubject' /\ CredentialFollowsAddress' /\ CodesAreAtAddresses'
<1>1. Credential("email_code", a, u) \in CredentialRows
  BY DEF Credential, CredentialRows, Methods
<1>2. IsFiniteSet(credentials')
  BY FS_AddElement DEF SignInInv
<1>3. OneOwnerPerSubject'
  <2>1. \A s \in Subjects : Owner("google", s)' = Owner("google", s)
    BY CredentialFields DEF Owner
  <2>2. \A s \in Subjects : PeopleWith(s)' = PeopleWith(s)
    BY DEF PeopleWith
  <2> QED
    BY <2>1, <2>2 DEF SignInInv, OneOwnerPerSubject
<1>4. CredentialFollowsAddress' /\ CodesAreAtAddresses'
  <2>1. \A c \in credentials : c.owner \in People
    BY DEF SignInInv, SignInTypeOK, CredentialRows
  <2>2. \A c \in credentials : c.method = "email_code" => people'[c.owner].email = c.key
    BY <2>1 DEF SignInInv, CredentialFollowsAddress, CodesAreAtAddresses, AddressesStand, Known
  <2> QED
    BY <2>2, CredentialFields DEF SignInInv, CredentialFollowsAddress, CodesAreAtAddresses
<1> QED
  BY <1>1, <1>2, <1>3, <1>4 DEF SignInInv, SignInTypeOK

(* A new Google credential, and its subject on the person who owns it.     *)
LEMMA GoogleAdded ==
  ASSUME SignInInv, AddressesStand, NEW u \in People, NEW s \in Subjects,
         people[u].subject = NoSubject, people'[u].subject = s,
         \A v \in People \ {u} : people'[v].subject = people[v].subject,
         Owner("google", s) = {},
         credentials' = credentials \union {Credential("google", s, u)}
  PROVE  /\ credentials' \subseteq CredentialRows /\ IsFiniteSet(credentials')
         /\ OneOwnerPerSubject' /\ CredentialFollowsAddress' /\ CodesAreAtAddresses'
<1>1. Credential("google", s, u) \in CredentialRows
  BY DEF Credential, CredentialRows, Methods
<1>2. IsFiniteSet(credentials')
  BY FS_AddElement DEF SignInInv
<1>3. OneOwnerPerSubject'
  <2>1. PeopleWith(s) = {}
    BY DEF SignInInv, OneOwnerPerSubject
  <2>2. PeopleWith(s)' = {u} /\ Owner("google", s)' = {u}
    BY <2>1, CredentialFields DEF PeopleWith, Owner
  <2>3. \A t \in Subjects \ {s} :
          PeopleWith(t)' = PeopleWith(t) /\ Owner("google", t)' = Owner("google", t)
    BY NothingAssumption, CredentialFields DEF PeopleWith, Owner
  <2>4. ASSUME NEW t \in Subjects
        PROVE  /\ \A x, y \in PeopleWith(t)' : x = y
               /\ Owner("google", t)' = PeopleWith(t)'
    <3>1. CASE t = s
      BY <2>2, <3>1
    <3>2. CASE t # s
      BY <2>3, <3>2 DEF SignInInv, OneOwnerPerSubject
    <3> QED
      BY <3>1, <3>2
  <2> QED
    BY <2>4 DEF OneOwnerPerSubject
<1>4. CredentialFollowsAddress' /\ CodesAreAtAddresses'
  <2>1. \A c \in credentials : c.owner \in People
    BY DEF SignInInv, SignInTypeOK, CredentialRows
  <2>2. \A c \in credentials : c.method = "email_code" => people'[c.owner].email = c.key
    BY <2>1 DEF SignInInv, CredentialFollowsAddress, CodesAreAtAddresses, AddressesStand, Known
  <2> QED
    BY <2>2, CredentialFields DEF SignInInv, CredentialFollowsAddress, CodesAreAtAddresses
<1> QED
  BY <1>1, <1>2, <1>3, <1>4 DEF SignInInv, SignInTypeOK

(* A step that leaves credentials, subjects and the code addresses alone.  *)
LEMMA CredentialsStand ==
  ASSUME SignInInv, AddressesStand, credentials' = credentials,
         \A v \in People : people'[v].subject = people[v].subject
  PROVE  /\ credentials' \subseteq CredentialRows /\ IsFiniteSet(credentials')
         /\ OneOwnerPerSubject' /\ CredentialFollowsAddress' /\ CodesAreAtAddresses'
<1>1. OneOwnerPerSubject'
  <2>1. \A s \in Subjects : Owner("google", s)' = Owner("google", s) /\ PeopleWith(s)' = PeopleWith(s)
    BY DEF Owner, PeopleWith
  <2> QED
    BY <2>1 DEF SignInInv, OneOwnerPerSubject
<1>2. CredentialFollowsAddress'
  <2>1. \A c \in credentials : c.owner \in People
    BY DEF SignInInv, SignInTypeOK, CredentialRows
  <2> QED
    BY <2>1 DEF SignInInv, CredentialFollowsAddress, CodesAreAtAddresses, AddressesStand, Known
<1> QED
  BY <1>1, <1>2 DEF SignInInv, SignInTypeOK, CodesAreAtAddresses

LEMMA RequestCodeKeeps ==
  ASSUME SignInInv, NEW a \in Addresses, NEW u \in People, RequestCode(a, u)
  PROVE  SignInInv'
<1>1. /\ people' \in [People -> PersonRows] /\ AddressesStand /\ people'[u].email = a
      /\ \A v \in People : people'[v].subject = people[v].subject
  <2>1. CASE CodeResumes(a, u) /\ UNCHANGED people
    BY <2>1 DEF SignInInv, SignInTypeOK, CodeResumes, PeopleAt, AddressesStand
  <2>2. CASE FoundsPerson(a, u) /\ people' = [people EXCEPT ![u].email = a]
    <3>1. ~Known(u)
      BY <2>2, FreshHasNothing DEF FoundsPerson
    <3> QED
      BY <2>2, <3>1 DEF SignInInv, SignInTypeOK, PersonRows, AddressesStand
  <2> QED
    BY <2>1, <2>2 DEF RequestCode
<1>2. /\ credentials' \subseteq CredentialRows /\ IsFiniteSet(credentials')
      /\ OneOwnerPerSubject' /\ CredentialFollowsAddress' /\ CodesAreAtAddresses'
  BY <1>1, CodeAdded DEF RequestCode
<1>3. CeremoniesStand
  BY UnchangedCeremonies DEF RequestCode
<1> QED
  BY <1>1, <1>2, <1>3, StandingAddresses, StandingCeremonies
     DEF RequestCode, SignInInv, SignInTypeOK

LEMMA SignInWithCodeKeeps ==
  ASSUME SignInInv, NEW a \in Addresses, NEW u \in People, NEW d \in Devices,
         SignInWithCode(a, u, d)
  PROVE  SignInInv'
<1>1. people[u].email = a
  <2>1. u \in Owner("email_code", a)
    BY DEF SignInWithCode
  <2> QED
    BY <2>1, Members DEF SignInInv, CredentialFollowsAddress
<1>2. /\ people' \in [People -> PersonRows] /\ AddressesStand /\ Known(u)'
      /\ \A v \in People : people'[v].subject = people[v].subject
  BY <1>1 DEF SignInWithCode, SignInInv, SignInTypeOK, PersonRows, AddressesStand, Known
<1>3. CeremoniesStand
  BY UnchangedCeremonies DEF SignInWithCode
<1> QED
  BY <1>2, <1>3, StandingAddresses, StandingCeremonies, CredentialsStand, OpenedSession
     DEF SignInWithCode, SignInInv, SignInTypeOK

LEMMA SignUpWithGoogleKeeps ==
  ASSUME SignInInv, NEW s \in Subjects, NEW u \in People, NEW d \in Devices,
         SignUpWithGoogle(s, u, d)
  PROVE  SignInInv'
<1>1. GoogleEmail[s] \in Addresses
  BY GoogleEmailAssumption
<1>2. people[u].subject = NoSubject /\ ~Known(u)
  BY FreshHasNothing DEF SignUpWithGoogle, FoundsPerson
<1>3. /\ people' \in [People -> PersonRows] /\ AddressesStand /\ Known(u)'
      /\ people'[u].subject = s
      /\ \A v \in People \ {u} : people'[v].subject = people[v].subject
  BY <1>1, <1>2 DEF SignUpWithGoogle, SignInInv, SignInTypeOK, PersonRows, AddressesStand, Known
<1>4. /\ credentials' \subseteq CredentialRows /\ IsFiniteSet(credentials')
      /\ OneOwnerPerSubject' /\ CredentialFollowsAddress' /\ CodesAreAtAddresses'
  BY <1>2, <1>3, GoogleAdded DEF SignUpWithGoogle
<1>5. CeremoniesStand
  BY UnchangedCeremonies DEF SignUpWithGoogle
<1> QED
  BY <1>3, <1>4, <1>5, StandingAddresses, StandingCeremonies, OpenedSession
     DEF SignUpWithGoogle, SignInInv, SignInTypeOK

LEMMA ResumeWithGoogleKeeps ==
  ASSUME SignInInv, NEW s \in Subjects, NEW u \in People, NEW d \in Devices,
         ResumeWithGoogle(s, u, d)
  PROVE  SignInInv'
<1>1. people[u].subject = s
  <2>1. u \in Owner("google", s)
    BY DEF ResumeWithGoogle
  <2> QED
    BY <2>1 DEF SignInInv, OneOwnerPerSubject, PeopleWith
<1>2. Known(u)
  <2>1. ~Fresh(u)
    BY <1>1, NothingAssumption DEF Fresh, NoPerson
  <2> QED
    BY <2>1 DEF SignInInv, PersonsAreKnown
<1>3. /\ people' \in [People -> PersonRows] /\ AddressesStand /\ Known(u)'
      /\ \A v \in People : people'[v].subject = people[v].subject
  BY <1>2 DEF ResumeWithGoogle, SignInInv, SignInTypeOK, PersonRows, AddressesStand, Known
<1>4. attempts' \in [Ceremonies -> AttemptRows] /\ CeremoniesStand
  <2>1. \A n \in Ceremonies :
          \/ attempts'[n] = attempts[n]
          \/ /\ n \in ActiveAttempt(u)
             /\ attempts'[n] = [attempts[n] EXCEPT !.state = "awaiting_target_proof", !.first = TRUE]
    BY DEF ResumeWithGoogle
  <2>2. ASSUME NEW n \in Ceremonies
        PROVE  attempts'[n] \in AttemptRows
    <3>1. /\ attempts[n] \in AttemptRows
          /\ [attempts[n] EXCEPT !.state = "awaiting_target_proof", !.first = TRUE] \in AttemptRows
      BY Attempts, AttemptEdits
    <3> QED
      BY <2>1, <3>1
  <2>3. attempts' \in [Ceremonies -> AttemptRows]
    BY <2>2 DEF ResumeWithGoogle
  <2>4. ASSUME NEW n \in Ceremonies, AttemptActive(n)'
        PROVE  /\ AttemptActive(n)
               /\ attempts'[n].owner = attempts[n].owner
               /\ attempts'[n].email = attempts[n].email
    <3>1. CASE attempts'[n] = attempts[n]
      BY <2>4, <3>1 DEF AttemptActive, AttemptOpen
    <3>2. CASE /\ n \in ActiveAttempt(u)
               /\ attempts'[n] = [attempts[n] EXCEPT !.state = "awaiting_target_proof", !.first = TRUE]
      <4>1. AttemptActive(n)
        BY <3>2, ActiveAttempts
      <4>2. attempts[n] \in AttemptRows
        BY Attempts
      <4> QED
        BY <3>2, <4>1, <4>2 DEF AttemptRows
    <3> QED
      BY <2>1, <3>1, <3>2
  <2> QED
    BY <2>3, <2>4 DEF CeremoniesStand
<1> QED
  BY <1>3, <1>4, StandingAddresses, StandingCeremonies, CredentialsStand, OpenedSession
     DEF ResumeWithGoogle, SignInInv, SignInTypeOK

LEMMA LinkWithGoogleKeeps ==
  ASSUME SignInInv, NEW s \in Subjects, NEW u \in People, NEW d \in Devices,
         LinkWithGoogle(s, u, d)
  PROVE  SignInInv'
<1>1. Known(u) /\ people[u].subject = NoSubject
  BY GoogleEmailAssumption DEF LinkWithGoogle, MayLinkGoogle, PeopleAt, Known
<1>2. /\ people' \in [People -> PersonRows] /\ AddressesStand /\ Known(u)'
      /\ people'[u].subject = s
      /\ \A v \in People \ {u} : people'[v].subject = people[v].subject
  BY <1>1 DEF LinkWithGoogle, SignInInv, SignInTypeOK, PersonRows, AddressesStand, Known
<1>3. /\ credentials' \subseteq CredentialRows /\ IsFiniteSet(credentials')
      /\ OneOwnerPerSubject' /\ CredentialFollowsAddress' /\ CodesAreAtAddresses'
  BY <1>1, <1>2, GoogleAdded DEF LinkWithGoogle
<1>4. attempts' \in [Ceremonies -> AttemptRows] /\ CeremoniesStand
  <2>1. PICK n : attempts' = [attempts EXCEPT ![n].state = "committed"]
    BY DEF LinkWithGoogle
  <2>2. \A m \in Ceremonies : \/ attempts'[m] = attempts[m]
                               \/ attempts'[m] = [attempts[m] EXCEPT !.state = "committed"]
    BY <2>1 DEF SignInInv, SignInTypeOK
  <2>3. attempts' = [m \in Ceremonies |-> attempts'[m]]
    BY <2>1 DEF SignInInv, SignInTypeOK
  <2>4. ASSUME NEW m \in Ceremonies PROVE attempts'[m] \in AttemptRows
    <3>1. attempts[m] \in AttemptRows
      BY Attempts
    <3>2. [attempts[m] EXCEPT !.state = "committed"] \in AttemptRows
      BY <3>1, AttemptEdits
    <3> QED
      BY <2>2, <3>1, <3>2
  <2>5. attempts' \in [Ceremonies -> AttemptRows]
    BY <2>3, <2>4
  <2>6. ASSUME NEW m \in Ceremonies, AttemptActive(m)'
        PROVE  attempts'[m] = attempts[m]
    <3>1. attempts[m] \in AttemptRows
      BY Attempts
    <3>2. attempts'[m].state # "committed"
      BY <2>6 DEF AttemptActive, AttemptOpen
    <3> QED
      BY <2>2, <3>1, <3>2 DEF AttemptRows
  <2>7. CeremoniesStand
    BY <2>6 DEF CeremoniesStand, AttemptActive, AttemptOpen
  <2> QED
    BY <2>5, <2>7
<1> QED
  BY <1>2, <1>3, <1>4, StandingAddresses, StandingCeremonies, OpenedSession
     DEF LinkWithGoogle, SignInInv, SignInTypeOK
(* The steps that move sessions only, or one ceremony only.                *)
LEMMA SessionsOnly ==
  ASSUME SignInInv, UNCHANGED <<people, credentials, attempts, change>>,
         sessions' \in [Devices -> SessionRows],
         SessionsAreOfKnown'
  PROVE  SignInInv'
<1>1. AddressesStand
  BY DEF AddressesStand
<1>2. CeremoniesStand
  BY UnchangedCeremonies
<1> QED
  BY <1>1, <1>2, StandingAddresses, StandingCeremonies, CredentialsStand
     DEF SignInInv, SignInTypeOK

LEMMA CeremoniesOnly ==
  ASSUME SignInInv, UNCHANGED <<people, credentials, sessions, change>>,
         attempts' \in [Ceremonies -> AttemptRows], CeremoniesStand
  PROVE  SignInInv'
<1>1. AddressesStand
  BY DEF AddressesStand
<1> QED
  BY <1>1, StandingAddresses, StandingCeremonies, CredentialsStand DEF SignInInv, SignInTypeOK

LEMMA ChangesOnly ==
  ASSUME SignInInv, UNCHANGED <<people, credentials, sessions, attempts>>,
         change' \in [People -> ChangeRows], ChangesStartFromPresent'
  PROVE  SignInInv'
<1>1. AddressesStand
  BY DEF AddressesStand
<1>2. CeremoniesStand
  BY UnchangedCeremonies
<1> QED
  BY <1>1, <1>2, StandingAddresses, StandingCeremonies, CredentialsStand
     DEF SignInInv, SignInTypeOK

LEMMA SessionStepsKeep ==
  ASSUME SignInInv, NEW u \in People, NEW d \in Devices,
         SessionLapses(d) \/ RevokeSession(u, d) \/ RevokeOtherSessions(u, d)
  PROVE  SignInInv'
<1>1. UNCHANGED <<people, credentials, attempts, change>>
  BY DEF SessionLapses, RevokeSession, RevokeOtherSessions
<1>2. sessions' \in [Devices -> SessionRows] /\ SessionsAreOfKnown'
  <2>1. CASE SessionLapses(d)
    BY <1>1, <2>1 DEF SessionLapses, SignInInv, SignInTypeOK, SessionRows, SessionsAreOfKnown, Known
  <2>2. CASE RevokeSession(u, d)
    BY <1>1, <2>2 DEF RevokeSession, SignInInv, SignInTypeOK, SessionRows, SessionsAreOfKnown, Known
  <2>3. CASE RevokeOtherSessions(u, d)
    <3>1. AddressesStand
      BY <1>1 DEF AddressesStand
    <3> QED
      BY <2>3, <3>1, RevokedSessions DEF RevokeOtherSessions
  <2> QED
    BY <2>1, <2>2, <2>3
<1> QED
  BY <1>1, <1>2, SessionsOnly

LEMMA CeremonyStepsKeep ==
  ASSUME SignInInv, NEW u \in People,
         \/ StageProofCode(u) \/ VerifyFirstProof(u) \/ CancelLinking(u)
         \/ \E n \in Ceremonies : CeremonyExpires(n)
  PROVE  SignInInv'
<1>1. UNCHANGED <<people, credentials, sessions, change>>
  BY DEF StageProofCode, VerifyFirstProof, CancelLinking, CeremonyExpires
<1>2. ASSUME NEW n \in Ceremonies, AttemptActive(n),
             \/ attempts' = [attempts EXCEPT ![n].staged = TRUE]
             \/ attempts' = [attempts EXCEPT ![n].expired = TRUE]
             \/ attempts' = [attempts EXCEPT ![n].state = "awaiting_target_proof",
                                             ![n].first = TRUE, ![n].staged = FALSE]
      PROVE  SignInInv'
  <2>1. attempts[n] \in AttemptRows
    BY Attempts
  <2>2. /\ attempts' \in [Ceremonies -> AttemptRows]
        /\ \A m \in Ceremonies \ {n} : attempts'[m] = attempts[m]
        /\ attempts'[n].owner = attempts[n].owner /\ attempts'[n].email = attempts[n].email
    <3>1. CASE attempts' = [attempts EXCEPT ![n].staged = TRUE]
      BY <2>1, <3>1 DEF SignInInv, SignInTypeOK, AttemptRows
    <3>2. CASE attempts' = [attempts EXCEPT ![n].expired = TRUE]
      BY <2>1, <3>2 DEF SignInInv, SignInTypeOK, AttemptRows
    <3>3. CASE attempts' = [attempts EXCEPT ![n].state = "awaiting_target_proof",
                                            ![n].first = TRUE, ![n].staged = FALSE]
      BY <2>1, <3>3 DEF SignInInv, SignInTypeOK, AttemptRows
    <3> QED
      BY <1>2, <3>1, <3>2, <3>3
  <2>3. CeremoniesStand
    BY <1>2, <2>2, MovedCeremony
  <2> QED
    BY <1>1, <2>2, <2>3, CeremoniesOnly
<1>3. CASE StageProofCode(u)
  BY <1>2, <1>3, ActiveAttempts DEF StageProofCode
<1>4. CASE VerifyFirstProof(u)
  BY <1>2, <1>4, ActiveAttempts DEF VerifyFirstProof
<1>5. CASE CancelLinking(u)
  BY <1>1, <1>5, RejectedCeremonies, CeremoniesOnly DEF CancelLinking
<1>6. CASE \E n \in Ceremonies : CeremonyExpires(n)
  BY <1>2, <1>6 DEF CeremonyExpires
<1> QED
  BY <1>3, <1>4, <1>5, <1>6

(* A ceremony begins only where its person has none.                       *)
LEMMA BeginLinkingKeeps ==
  ASSUME SignInInv, NEW u \in People, NEW m \in Methods, BeginLinking(u, m)
  PROVE  SignInInv'
<1> DEFINE begun ==
             [owner |-> u, email |-> people[u].email,
              initiating |-> IF people[u].subject # NoSubject THEN "google" ELSE "email_code",
              target |-> m, state |-> "awaiting_first_proof",
              first |-> FALSE, staged |-> FALSE, expired |-> FALSE]
<1>1. PICK n \in Ceremonies : /\ attempts[n] = NoAttempt
                              /\ attempts' = [attempts EXCEPT ![n] = begun]
  BY DEF BeginLinking
<1>2. Known(u)
  BY LiveIsKnown DEF BeginLinking
<1>3. \A k \in Ceremonies : AttemptActive(k) => attempts[k].owner # u
  BY DEF BeginLinking, MayBegin, SignInInv, CeremoniesAreAtAddress
<1>4. attempts' \in [Ceremonies -> AttemptRows]
  <2>1. begun \in AttemptRows
    BY <1>2 DEF AttemptRows, Known, Methods
  <2> QED
    BY <1>1, <2>1 DEF SignInInv, SignInTypeOK
<1>5. \A k \in Ceremonies \ {n} : attempts'[k] = attempts[k]
  BY <1>1 DEF SignInInv, SignInTypeOK
<1>6. attempts'[n].owner = u /\ attempts'[n].email = people[u].email
  BY <1>1 DEF SignInInv, SignInTypeOK
<1>7. OneCeremonyPerPerson'
  <2>1. \A k \in Ceremonies \ {n} : AttemptActive(k)' => AttemptActive(k)
    BY <1>5 DEF AttemptActive, AttemptOpen
  <2> QED
    BY <1>3, <1>5, <1>6, <2>1 DEF SignInInv, OneCeremonyPerPerson
<1>8. CeremoniesAreAtAddress'
  <2>1. \A k \in Ceremonies \ {n} : AttemptActive(k)' => AttemptActive(k)
    BY <1>5 DEF AttemptActive, AttemptOpen
  <2> QED
    BY <1>2, <1>5, <1>6, <2>1 DEF BeginLinking, SignInInv, CeremoniesAreAtAddress, Known
<1>9. AddressesStand
  BY DEF BeginLinking, AddressesStand
<1> QED
  BY <1>4, <1>7, <1>8, <1>9, StandingAddresses, CredentialsStand
     DEF BeginLinking, SignInInv, SignInTypeOK

LEMMA CommitEmailLinkKeeps ==
  ASSUME SignInInv, NEW u \in People, CommitEmailLink(u)
  PROVE  SignInInv'
<1>1. PICK n \in ActiveAttempt(u) :
        /\ MayLinkEmail(u, n)
        /\ credentials' = credentials \union {Credential("email_code", attempts[n].email, u)}
        /\ people' = [people EXCEPT ![u].verified = TRUE]
        /\ attempts' = [attempts EXCEPT ![n].state = "committed", ![n].staged = FALSE]
  BY DEF CommitEmailLink
<1>2. n \in Ceremonies /\ AttemptActive(n) /\ attempts[n].owner = u /\ attempts[n] \in AttemptRows
  BY ActiveAttempts, Attempts
<1>3. attempts[n].email = people[u].email /\ people[u].email \in Addresses
  BY <1>2 DEF SignInInv, CeremoniesAreAtAddress, Known
<1>4. /\ people' \in [People -> PersonRows] /\ AddressesStand
      /\ people'[u].email = attempts[n].email
      /\ \A v \in People : people'[v].subject = people[v].subject
  BY <1>1, <1>3 DEF SignInInv, SignInTypeOK, PersonRows, AddressesStand, Known
<1>5. /\ credentials' \subseteq CredentialRows /\ IsFiniteSet(credentials')
      /\ OneOwnerPerSubject' /\ CredentialFollowsAddress' /\ CodesAreAtAddresses'
  BY <1>1, <1>3, <1>4, CodeAdded
<1>6. /\ attempts' \in [Ceremonies -> AttemptRows]
      /\ \A m \in Ceremonies \ {n} : attempts'[m] = attempts[m]
      /\ attempts'[n].owner = attempts[n].owner /\ attempts'[n].email = attempts[n].email
  BY <1>1, <1>2 DEF SignInInv, SignInTypeOK, AttemptRows
<1>7. CeremoniesStand
  BY <1>2, <1>6, MovedCeremony
<1> QED
  BY <1>4, <1>5, <1>6, <1>7, StandingAddresses, StandingCeremonies
     DEF CommitEmailLink, SignInInv, SignInTypeOK

LEMMA ChangeStepsKeep ==
  ASSUME SignInInv, NEW u \in People,
         EmailChangeExpires(u) \/ \E a \in Addresses : RequestEmailChange(u, a)
  PROVE  SignInInv'
<1>1. UNCHANGED <<people, credentials, sessions, attempts>>
  BY DEF EmailChangeExpires, RequestEmailChange
<1>2. change' \in [People -> ChangeRows] /\ ChangesStartFromPresent'
  <2>1. CASE EmailChangeExpires(u)
    <3>1. change' \in [People -> ChangeRows]
      BY <2>1 DEF EmailChangeExpires, SignInInv, SignInTypeOK, ChangeRows
    <3>2. \A v \in People : /\ change'[v].email = change[v].email
                            /\ change'[v].previous = change[v].previous
                            /\ change'[v] # NoChange => change[v] # NoChange
      BY <2>1 DEF EmailChangeExpires, SignInInv, SignInTypeOK, ChangeRows
    <3> QED
      BY <1>1, <3>1, <3>2 DEF SignInInv, ChangesStartFromPresent, Known
  <2>2. ASSUME NEW a \in Addresses, RequestEmailChange(u, a)
        PROVE  change' \in [People -> ChangeRows] /\ ChangesStartFromPresent'
    <3>1. Known(u)
      BY <2>2, LiveIsKnown DEF RequestEmailChange
    <3> QED
      BY <1>1, <2>2, <3>1
      DEF RequestEmailChange, SignInInv, SignInTypeOK, ChangeRows, ChangesStartFromPresent, Known
  <2> QED
    BY <2>1, <2>2
<1> QED
  BY <1>1, <1>2, ChangesOnly
(* The address changes: the code credential moves with it, and the one     *)
(* ceremony the person may have ends.                                      *)
LEMMA ConfirmEmailChangeKeeps ==
  ASSUME SignInInv, NEW u \in People, ConfirmEmailChange(u)
  PROVE  SignInInv'
<1> DEFINE a == change[u].email
           b == change[u].previous
<1>1. /\ change[u] # NoChange /\ Known(u) /\ a \in Addresses /\ b = people[u].email
  BY DEF ConfirmEmailChange, MayConfirmChange, SignInInv, ChangesStartFromPresent
<1>2. /\ people' \in [People -> PersonRows] /\ people'[u].email = a
      /\ \A v \in People \ {u} : people'[v] = people[v]
      /\ \A v \in People : people'[v].subject = people[v].subject
  BY <1>1 DEF ConfirmEmailChange, SignInInv, SignInTypeOK, PersonRows
<1>3. \A v \in People : Known(v) => Known(v)'
  BY <1>1, <1>2 DEF Known
<1>4. PersonsAreKnown'
  BY <1>1, <1>2, <1>3 DEF SignInInv, PersonsAreKnown, Known, Fresh
<1>5. SessionsAreOfKnown'
  BY <1>3 DEF ConfirmEmailChange, SignInInv, SessionsAreOfKnown
<1>6. change' \in [People -> ChangeRows] /\ ChangesStartFromPresent'
  <2>1. change' \in [People -> ChangeRows]
    BY DEF ConfirmEmailChange, SignInInv, SignInTypeOK, ChangeRows, NoChange
  <2>2. \A v \in People : change'[v] # NoChange => v # u /\ change'[v] = change[v]
    BY DEF ConfirmEmailChange, SignInInv, SignInTypeOK
  <2> QED
    BY <1>2, <1>3, <2>1, <2>2 DEF SignInInv, ChangesStartFromPresent
<1>7. /\ attempts' \in [Ceremonies -> AttemptRows] /\ CeremoniesStand
      /\ \A n \in Ceremonies : AttemptActive(n)' => attempts[n].owner # u
  <2>1. /\ attempts' \in [Ceremonies -> AttemptRows] /\ CeremoniesStand
        /\ \A n \in ActiveAttempt(u) \intersect Ceremonies : ~AttemptActive(n)'
    BY RejectedCeremonies DEF ConfirmEmailChange
  <2> QED
    BY <2>1, OnlyActiveAttempt DEF CeremoniesStand
<1>8. CeremoniesAreAtAddress'
  <2> SUFFICES ASSUME NEW n \in Ceremonies, AttemptActive(n)'
               PROVE  /\ attempts'[n].owner \in People
                      /\ people'[attempts'[n].owner].email \in Addresses
                      /\ attempts'[n].email = people'[attempts'[n].owner].email
    BY DEF CeremoniesAreAtAddress, Known
  <2>1. /\ AttemptActive(n) /\ attempts'[n].owner = attempts[n].owner
        /\ attempts'[n].email = attempts[n].email /\ attempts[n].owner # u
    BY <1>7 DEF CeremoniesStand
  <2>2. /\ attempts[n].owner \in People /\ people[attempts[n].owner].email \in Addresses
        /\ attempts[n].email = people[attempts[n].owner].email
    BY <2>1 DEF SignInInv, CeremoniesAreAtAddress, Known
  <2> QED
    BY <1>2, <2>1, <2>2
<1>9. OneCeremonyPerPerson'
  BY <1>7, StandingCeremonies
<1> DEFINE old == Credential("email_code", b, u)
           new == Credential("email_code", a, u)
<1>10. credentials' \subseteq (credentials \ {old}) \union {old, new}
       /\ \A c \in credentials \ {old} : c \in credentials'
  BY DEF ConfirmEmailChange, Repointed
<1>11. \A c \in credentials : c.owner \in People /\ c \in CredentialRows
  BY DEF SignInInv, SignInTypeOK, CredentialRows
<1>12. credentials' \subseteq CredentialRows /\ IsFiniteSet(credentials')
  <2>1. new \in CredentialRows
    BY <1>1 DEF Credential, CredentialRows, Methods
  <2>2. IsFiniteSet(credentials \ {old}) /\ IsFiniteSet((credentials \ {old}) \union {new})
    BY FS_RemoveElement, FS_AddElement DEF SignInInv
  <2> QED
    BY <1>11, <2>1, <2>2 DEF ConfirmEmailChange, Repointed, SignInInv, SignInTypeOK
<1>13. OneOwnerPerSubject'
  <2>1. old.method # "google" /\ new.method # "google"
    BY CredentialFields
  <2>2. \A c : c.method = "google" => (c \in credentials' <=> c \in credentials)
    BY <1>10, <2>1 DEF ConfirmEmailChange, Repointed
  <2>3. \A s \in Subjects : Owner("google", s)' = Owner("google", s)
    BY <2>2 DEF Owner
  <2>4. \A s \in Subjects : PeopleWith(s)' = PeopleWith(s)
    BY <1>2 DEF PeopleWith
  <2> QED
    BY <2>3, <2>4 DEF SignInInv, OneOwnerPerSubject
<1>14. CredentialFollowsAddress' /\ CodesAreAtAddresses'
  <2> SUFFICES ASSUME NEW c \in credentials', c.method = "email_code"
               PROVE  people'[c.owner].email = c.key /\ c.key \in Addresses
    BY DEF CredentialFollowsAddress, CodesAreAtAddresses
  <2>1. CASE c = new
    BY <1>1, <1>2, <2>1, CredentialFields
  <2>2. CASE c # new
    <3>1. c \in credentials
      BY <2>2 DEF ConfirmEmailChange, Repointed
    <3>2. people[c.owner].email = c.key /\ c.key \in Addresses /\ c.owner \in People
      BY <1>11, <3>1 DEF SignInInv, CredentialFollowsAddress, CodesAreAtAddresses
    <3>3. c.owner # u
      <4>1. SUFFICES ASSUME c.owner = u PROVE FALSE
        OBVIOUS
      <4>2. c.key = b
        BY <1>1, <3>2, <4>1
      <4>3. c = old
        BY <1>11, <3>1, <4>1, <4>2 DEF Credential, CredentialRows
      <4>4. u \in Owner("email_code", b)
        BY <3>1, <4>1, <4>2, Members
      <4>5. IsFiniteSet(Owner("email_code", b)) /\ Cardinality(Owner("email_code", b)) <= 1
        BY OwnersAreFinite DEF SignInInv, ConfirmEmailChange
      <4>6. Owner("email_code", b) = {u}
        <5>1. /\ {u} \in SUBSET Owner("email_code", b)
              /\ Cardinality({u}) = 1 /\ Cardinality(Owner("email_code", b)) \in Nat
          BY <4>4, <4>5, FS_Singleton, FS_CardinalityType
        <5>2. /\ Cardinality({u}) <= Cardinality(Owner("email_code", b))
              /\ Cardinality(Owner("email_code", b)) = Cardinality({u})
                   => Owner("email_code", b) = {u}
          BY <4>5, <5>1, FS_Subset
        <5> QED
          BY <4>5, <5>1, <5>2
      <4>7. credentials' = (credentials \ {old}) \union {new}
        BY <4>6 DEF ConfirmEmailChange, Repointed
      <4> QED
        BY <2>2, <4>3, <4>7
    <3> QED
      BY <1>2, <3>2, <3>3
  <2> QED
    BY <2>1, <2>2
<1> QED
  BY <1>2, <1>4, <1>5, <1>6, <1>7, <1>8, <1>9, <1>12, <1>13, <1>14
     DEF ConfirmEmailChange, SignInInv, SignInTypeOK

LEMMA RecoverKeeps ==
  ASSUME SignInInv, NEW u \in People, Recover(u)
  PROVE  SignInInv'
<1>1. /\ people' \in [People -> PersonRows] /\ people'[u].subject = NoSubject
      /\ \A v \in People : people'[v].email = people[v].email
      /\ \A v \in People \ {u} : people'[v] = people[v]
  BY DEF Recover, SignInInv, SignInTypeOK, PersonRows
<1>2. AddressesStand
  <2>1. Known(u)
    BY DEF Recover, SignInInv, PersonsAreKnown
  <2> QED
    BY <1>1, <2>1 DEF AddressesStand
<1>3. attempts' \in [Ceremonies -> AttemptRows] /\ CeremoniesStand
  BY RejectedCeremonies DEF Recover
<1>4. sessions' \in [Devices -> SessionRows] /\ SessionsAreOfKnown'
  BY <1>2, RevokedSessions DEF Recover
<1>5. credentials' \subseteq CredentialRows /\ IsFiniteSet(credentials')
  BY FS_Subset DEF Recover, SignInInv, SignInTypeOK
<1>6. CredentialFollowsAddress' /\ CodesAreAtAddresses'
  <2>1. \A c \in credentials : c.owner \in People
    BY DEF SignInInv, SignInTypeOK, CredentialRows
  <2> QED
    BY <1>1, <2>1 DEF Recover, SignInInv, CredentialFollowsAddress, CodesAreAtAddresses
<1>7. OneOwnerPerSubject'
  <2>1. \A s \in Subjects : PeopleWith(s)' = PeopleWith(s) \ {u}
    BY <1>1, NothingAssumption DEF PeopleWith
  <2>2. \A s \in Subjects : Owner("google", s)' = Owner("google", s) \ {u}
    BY DEF Recover, Owner
  <2> QED
    BY <2>1, <2>2 DEF SignInInv, OneOwnerPerSubject
<1> QED
  BY <1>1, <1>2, <1>3, <1>4, <1>5, <1>6, <1>7, StandingAddresses, StandingCeremonies
     DEF Recover, SignInInv, SignInTypeOK

LEMMA SignInInvStep == SignInInv /\ SignInNext => SignInInv'
<1> SUFFICES ASSUME SignInInv, SignInNext PROVE SignInInv'
  OBVIOUS
<1>1. CASE \E a \in Addresses, u \in People : RequestCode(a, u)
  BY <1>1, RequestCodeKeeps
<1>2. CASE \E a \in Addresses, u \in People, d \in Devices : SignInWithCode(a, u, d)
  BY <1>2, SignInWithCodeKeeps
<1>3. CASE \E s \in Subjects, u \in People, d \in Devices :
             \/ SignUpWithGoogle(s, u, d) \/ ResumeWithGoogle(s, u, d) \/ LinkWithGoogle(s, u, d)
  BY <1>3, SignUpWithGoogleKeeps, ResumeWithGoogleKeeps, LinkWithGoogleKeeps
<1>4. CASE \E d \in Devices : SessionLapses(d)
  <2>1. PICK d \in Devices : SessionLapses(d)
    BY <1>4
  <2>2. sessions[d].user \in People
    BY <2>1 DEF SessionLapses, SignInInv, SessionsAreOfKnown
  <2> QED
    BY <2>1, <2>2, SessionStepsKeep
<1>5. CASE \E u \in People, d \in Devices : RevokeSession(u, d) \/ RevokeOtherSessions(u, d)
  BY <1>5, SessionStepsKeep
<1>6. CASE \E u \in People, m \in Methods : BeginLinking(u, m)
  BY <1>6, BeginLinkingKeeps
<1>7. CASE \E u \in People :
             \/ StageProofCode(u) \/ VerifyFirstProof(u) \/ CommitEmailLink(u)
             \/ CancelLinking(u) \/ EmailChangeExpires(u) \/ ConfirmEmailChange(u)
  BY <1>7, CeremonyStepsKeep, CommitEmailLinkKeeps, ChangeStepsKeep, ConfirmEmailChangeKeeps
<1>8. CASE \E n \in Ceremonies : CeremonyExpires(n)
  <2>1. PICK n \in Ceremonies : CeremonyExpires(n)
    BY <1>8
  <2>2. attempts[n].owner \in People
    BY <2>1 DEF CeremonyExpires, SignInInv, CeremoniesAreAtAddress
  <2> QED
    BY <1>8, <2>2, CeremonyStepsKeep
<1>9. CASE \E u \in People, a \in Addresses : RequestEmailChange(u, a)
  BY <1>9, ChangeStepsKeep
<1> QED
  BY <1>1, <1>2, <1>3, <1>4, <1>5, <1>6, <1>7, <1>8, <1>9 DEF SignInNext

LEMMA SignInInvStutters == SignInInv /\ UNCHANGED signInVars => SignInInv'
<1> SUFFICES ASSUME SignInInv, UNCHANGED signInVars PROVE SignInInv'
  OBVIOUS
<1>1. UNCHANGED <<people, credentials, attempts, change>> /\ sessions' = sessions
  BY DEF signInVars
<1>2. SessionsAreOfKnown'
  BY <1>1 DEF SignInInv, SessionsAreOfKnown, Known
<1> QED
  BY <1>1, <1>2, SessionsOnly DEF SignInInv, SignInTypeOK
-----------------------------------------------------------------------------
(* The invariant of the firms.  That the staff of a firm keeps an          *)
(* administrator also rests on the invitations: one that admits a plain    *)
(* member was issued by an administrator of its firm, who cannot have left *)
(* the firm without another one.  That an invitation admits once rests on  *)
(* the row it admitted to being a row in use.                              *)

MemberInvitationsAreAnswered ==
  \A i \in Invitations, c \in Companies :
    invitations[i].company = c /\ invitations[i].role = "member" => AdminsOf(c) # {}
AdmissionsAreRows ==
  \A i \in Invitations : invitations[i].state = "accepted" =>
    /\ invitations[i].admitted \in Memberships
    /\ memberships[invitations[i].admitted] # NoMember

FirmTypeOK ==
  /\ firms \subseteq Companies
  /\ memberships \in [Memberships -> MembershipRows]
  /\ invitations \in [Invitations -> InvitationRows]
  /\ grants \subseteq Operators
  /\ alpha \subseteq firms
  /\ cleanups \subseteq Memberships

FirmInv ==
  /\ FirmTypeOK
  /\ StaffedFirmHasAdministrator
  /\ OneFirmOneAdmission
  /\ MemberInvitationsAreAnswered
  /\ AdmissionsAreRows

AccessInv == SignInInv /\ FirmInv

LEMMA InAdmins ==
  \A c, m : m \in AdminsOf(c) <=>
    /\ m \in Memberships /\ memberships[m].state = "active"
    /\ memberships[m].company = c /\ memberships[m].role = "admin"
BY DEF AdminsOf, StaffOf, Active

LEMMA InStaff ==
  \A c, m : m \in StaffOf(c) <=>
    /\ m \in Memberships /\ memberships[m].state = "active" /\ memberships[m].company = c
BY DEF StaffOf, Active

LEMMA InRows ==
  \A u, m : m \in RowsOf(u) <=>
    /\ m \in Memberships /\ memberships[m].state = "active" /\ memberships[m].user = u
BY DEF RowsOf, Active

LEMMA InviteRows ==
  ASSUME NEW c \in Companies, NEW a \in Addresses, NEW r \in Roles
  PROVE  /\ Invited(c, a, r) \in InvitationRows
         /\ Invited(c, a, r).state = "pending" /\ Invited(c, a, r).company = c
         /\ Invited(c, a, r).role = r
BY DEF Invited, InvitationRows

LEMMA FirmInvInit == Init => FirmInv
<1> SUFFICES ASSUME Init PROVE FirmInv
  OBVIOUS
<1>1. /\ memberships = [m \in Memberships |-> NoMember]
      /\ invitations = [i \in Invitations |-> NoInvitation]
  BY DEF Init
<1>2. FirmTypeOK
  BY DEF Init, FirmTypeOK, NoMember, NoInvitation, MembershipRows, InvitationRows, Roles
<1>3. \A m \in Memberships : memberships[m].state # "active"
  BY <1>1 DEF NoMember
<1>4. \A i \in Invitations : invitations[i].state # "accepted" /\ invitations[i].company \notin Companies
  BY <1>1, NoRowAssumption DEF NoInvitation
<1> QED
  BY <1>2, <1>3, <1>4, InStaff, InRows
  DEF FirmInv, StaffedFirmHasAdministrator, OneFirmOneAdmission, MemberInvitationsAreAnswered,
      AdmissionsAreRows

(* What a step that moves membership rows must show: nobody gains a second *)
(* firm, no firm loses its last administrator, a row in use stays in use.  *)
RowsStand ==
  /\ \A u \in People : \A m, k \in RowsOf(u)' : m = k
  /\ \A c \in Companies : AdminsOf(c) # {} => AdminsOf(c)' # {}
  /\ \A c \in Companies : StaffOf(c)' # {} => AdminsOf(c)' # {}
  /\ \A m \in Memberships : memberships[m] # NoMember => memberships'[m] # NoMember

(* And one that moves invitations: none is accepted, and what admits plain *)
(* members is an invitation of a firm that has an administrator.           *)
InvitationsStand ==
  \A i \in Invitations :
    /\ invitations'[i].state = "accepted" =>
         /\ invitations[i].state = "accepted"
         /\ invitations'[i].admitted = invitations[i].admitted
    /\ \A c \in Companies :
         invitations'[i].company = c /\ invitations'[i].role = "member" =>
           \/ invitations[i].company = c /\ invitations[i].role = "member"
           \/ AdminsOf(c) # {}

LEMMA StandingFirms ==
  ASSUME FirmInv, FirmTypeOK', RowsStand, InvitationsStand
  PROVE  FirmInv'
<1>1. StaffedFirmHasAdministrator'
  BY DEF RowsStand, StaffedFirmHasAdministrator
<1>2. MemberInvitationsAreAnswered'
  BY DEF RowsStand, InvitationsStand, FirmInv, MemberInvitationsAreAnswered
<1>3. AdmissionsAreRows'
  BY DEF RowsStand, InvitationsStand, FirmInv, AdmissionsAreRows
<1>4. OneFirmOneAdmission'
  BY DEF RowsStand, InvitationsStand, FirmInv, OneFirmOneAdmission
<1> QED
  BY <1>1, <1>2, <1>3, <1>4 DEF FirmInv

LEMMA UnchangedRows == FirmInv /\ memberships' = memberships => RowsStand
<1> SUFFICES ASSUME FirmInv, memberships' = memberships PROVE RowsStand
  OBVIOUS
<1>1. /\ \A u : RowsOf(u)' = RowsOf(u)
      /\ \A c : AdminsOf(c)' = AdminsOf(c) /\ StaffOf(c)' = StaffOf(c)
  BY DEF RowsOf, AdminsOf, StaffOf, Active
<1> QED
  BY <1>1 DEF RowsStand, FirmInv, OneFirmOneAdmission, StaffedFirmHasAdministrator

LEMMA UnchangedInvitations == invitations' = invitations => InvitationsStand
BY DEF InvitationsStand

CompanyOrNone == Companies \union {NoCompany}

(* A person without a firm takes a new row: as an administrator, or in a   *)
(* firm that has one.                                                      *)
LEMMA Admission ==
  ASSUME FirmInv, NEW u \in People, NEW m \in Memberships, NEW c \in CompanyOrNone,
         NEW r \in Roles, RowsOf(u) = {}, memberships[m] = NoMember,
         memberships' = [memberships EXCEPT ![m] =
           [company |-> c, user |-> u, role |-> r, state |-> "active"]],
         c \in Companies /\ r = "member" => AdminsOf(c) # {}
  PROVE  memberships' \in [Memberships -> MembershipRows] /\ RowsStand
<1> DEFINE row == [company |-> c, user |-> u, role |-> r, state |-> "active"]
<1>1. row \in MembershipRows
  BY DEF MembershipRows, CompanyOrNone
<1>2. /\ memberships' \in [Memberships -> MembershipRows]
      /\ memberships'[m] = row
      /\ \A k \in Memberships \ {m} : memberships'[k] = memberships[k]
  BY <1>1 DEF FirmInv, FirmTypeOK
<1>3. memberships[m].state # "active" /\ row # NoMember
  BY DEF NoMember
<1>4. \A v \in People : \A k, l \in RowsOf(v)' : k = l
  <2>1. \A v \in People : \A k \in RowsOf(v)' :
          k \in RowsOf(v) \/ (k = m /\ v = u)
    BY <1>2 DEF RowsOf, Active
  <2> QED
    BY <2>1 DEF FirmInv, OneFirmOneAdmission
<1>5. \A x, k : k \in AdminsOf(x) => k \in AdminsOf(x)'
  BY <1>2, <1>3 DEF AdminsOf, StaffOf, Active
<1>6. ASSUME NEW x \in Companies, StaffOf(x)' # {} PROVE AdminsOf(x)' # {}
  <2>1. CASE x = c
    <3>1. r = "admin" => m \in AdminsOf(c)'
      BY <1>2 DEF AdminsOf, StaffOf, Active
    <3> QED
      BY <1>5, <2>1, <3>1 DEF Roles
  <2>2. CASE x # c
    <3>1. StaffOf(x) # {}
      BY <1>2, <1>6, <2>2 DEF StaffOf, Active
    <3> QED
      BY <1>5, <3>1 DEF FirmInv, StaffedFirmHasAdministrator
  <2> QED
    BY <2>1, <2>2
<1> QED
  BY <1>2, <1>3, <1>4, <1>5, <1>6 DEF RowsStand

(* A row that is edited in place: promoted, or demoted or closed where     *)
(* another administrator stays.                                            *)
LEMMA Edited ==
  ASSUME FirmInv, NEW m \in Memberships, NEW r \in Roles, NEW st \in {"active", "revoked"},
         Active(m),
         memberships'[m].user = memberships[m].user,
         memberships'[m].company = memberships[m].company,
         memberships'[m].role = r, memberships'[m].state = st,
         \A k \in Memberships \ {m} : memberships'[k] = memberships[k],
         (r = "admin" /\ st = "active") \/ MayStepDown(m)
  PROVE  RowsStand
<1>1. memberships'[m] # NoMember
  BY DEF NoMember
<1>2. /\ memberships'[m].user = memberships[m].user
      /\ memberships'[m].company = memberships[m].company
      /\ memberships'[m].role = r /\ memberships'[m].state = st
      /\ \A k \in Memberships \ {m} : memberships'[k] = memberships[k]
  OBVIOUS
<1>3. \A k \in Memberships : memberships[k] # NoMember => memberships'[k] # NoMember
  BY <1>1, <1>2
<1>4. \A v \in People : \A k, l \in RowsOf(v)' : k = l
  <2>1. \A v \in People : \A k \in RowsOf(v)' : k \in RowsOf(v)
    BY <1>2 DEF RowsOf, Active
  <2> QED
    BY <2>1 DEF FirmInv, OneFirmOneAdmission
<1>5. \A x : AdminsOf(x) \ {m} \subseteq AdminsOf(x)'
  BY <1>2 DEF AdminsOf, StaffOf, Active
<1>6. \A x : StaffOf(x)' \subseteq StaffOf(x)
  BY <1>2 DEF StaffOf, Active
<1>7. ASSUME NEW x \in Companies, AdminsOf(x) # {} PROVE AdminsOf(x)' # {}
  <2>1. CASE memberships[m].company # x \/ memberships[m].role # "admin"
    <3>1. m \notin AdminsOf(x)
      BY <2>1, InAdmins
    <3> QED
      BY <1>5, <1>7, <3>1
  <2>2. CASE memberships[m].company = x /\ memberships[m].role = "admin"
    <3>1. CASE r = "admin" /\ st = "active"
      BY <1>2, <2>2, <3>1 DEF AdminsOf, StaffOf, Active
    <3>2. CASE MayStepDown(m)
      BY <1>5, <2>2, <3>2 DEF MayStepDown
    <3> QED
      BY <3>1, <3>2
  <2> QED
    BY <2>1, <2>2
<1>8. \A x \in Companies : StaffOf(x)' # {} => AdminsOf(x)' # {}
  BY <1>6, <1>7 DEF FirmInv, StaffedFirmHasAdministrator
<1> QED
  BY <1>2, <1>3, <1>4, <1>7, <1>8 DEF RowsStand
LEMMA AdmittingKeeps ==
  ASSUME AccessInv, NEW u \in People, NEW m \in Memberships,
         \/ \E c \in Companies : CreateCompany(u, c, m)
         \/ \E i \in Invitations : AcceptInvitation(u, i, m)
  PROVE  FirmInv'
<1>1. ASSUME NEW c \in Companies, CreateCompany(u, c, m) PROVE FirmInv'
  <2>1. memberships' \in [Memberships -> MembershipRows] /\ RowsStand
    BY <1>1, Admission DEF CreateCompany, NextRow, AccessInv, Roles, CompanyOrNone
  <2>2. FirmTypeOK'
    BY <1>1, <2>1 DEF CreateCompany, AccessInv, FirmInv, FirmTypeOK
  <2> QED
    BY <1>1, <2>1, <2>2, UnchangedInvitations, StandingFirms DEF CreateCompany, AccessInv
<1>2. ASSUME NEW i \in Invitations, AcceptInvitation(u, i, m) PROVE FirmInv'
  <2>1. invitations[i] \in InvitationRows
    BY DEF AccessInv, FirmInv, FirmTypeOK
  <2>2. memberships' \in [Memberships -> MembershipRows] /\ RowsStand
    <3>1. \A c \in Companies :
            invitations[i].company = c /\ invitations[i].role = "member" => AdminsOf(c) # {}
      BY DEF AccessInv, FirmInv, MemberInvitationsAreAnswered
    <3>2. /\ invitations[i].company \in CompanyOrNone
          /\ invitations[i].role \in Roles
      BY <2>1 DEF InvitationRows, CompanyOrNone
    <3>3. /\ RowsOf(u) = {} /\ memberships[m] = NoMember
          /\ memberships' = [memberships EXCEPT ![m] =
               [company |-> invitations[i].company, user |-> u,
                role |-> invitations[i].role, state |-> "active"]]
      BY <1>2 DEF AcceptInvitation, Admissible, NextRow
    <3> QED
      BY <3>1, <3>2, <3>3, Admission DEF AccessInv
  <2>3. /\ invitations' \in [Invitations -> InvitationRows]
        /\ invitations'[i].company = invitations[i].company
        /\ invitations'[i].role = invitations[i].role
        /\ invitations'[i].state = "accepted" /\ invitations'[i].admitted = m
        /\ \A j \in Invitations \ {i} : invitations'[j] = invitations[j]
    BY <1>2, <2>1 DEF AcceptInvitation, AccessInv, FirmInv, FirmTypeOK, InvitationRows
  <2>4. FirmTypeOK'
    BY <1>2, <2>2, <2>3 DEF AcceptInvitation, AccessInv, FirmInv, FirmTypeOK
  <2>5. StaffedFirmHasAdministrator'
    BY <2>2 DEF RowsStand, StaffedFirmHasAdministrator
  <2>6. MemberInvitationsAreAnswered'
    <3>1. \A j \in Invitations : /\ invitations'[j].company = invitations[j].company
                                  /\ invitations'[j].role = invitations[j].role
      BY <2>3
    <3> QED
      BY <2>2, <3>1 DEF RowsStand, AccessInv, FirmInv, MemberInvitationsAreAnswered
  <2>7. memberships[m] = NoMember /\ memberships'[m] # NoMember
    <3>1. memberships'[m].state = "active"
      BY <1>2 DEF AcceptInvitation, AccessInv, FirmInv, FirmTypeOK
    <3> QED
      BY <1>2, <3>1 DEF AcceptInvitation, NextRow, NoMember
  <2>8. AdmissionsAreRows'
    BY <2>2, <2>3, <2>7 DEF RowsStand, AccessInv, FirmInv, AdmissionsAreRows
  <2>9. OneFirmOneAdmission'
    <3>1. \A j \in Invitations :
            invitations[j].state = "accepted" => invitations[j].admitted # m
      BY <2>7 DEF AccessInv, FirmInv, AdmissionsAreRows
    <3> QED
      BY <2>2, <2>3, <3>1 DEF RowsStand, AccessInv, FirmInv, OneFirmOneAdmission
  <2> QED
    BY <2>4, <2>5, <2>6, <2>8, <2>9 DEF FirmInv
<1> QED
  BY <1>1, <1>2

LEMMA EditingKeeps ==
  ASSUME AccessInv, NEW u \in People, NEW m \in Memberships,
         \/ RevokeMembership(u, m) \/ \E r \in Roles : ChangeMembershipRole(u, m, r)
         \/ GmRestoreAdministrator(u, m)
  PROVE  FirmInv'
<1>0. memberships[m] \in MembershipRows /\ Active(m)
  BY DEF AccessInv, FirmInv, FirmTypeOK, RevokeMembership, ChangeMembershipRole,
         GmRestoreAdministrator
<1>1. CASE RevokeMembership(u, m)
  <2>1. /\ memberships' \in [Memberships -> MembershipRows]
        /\ memberships'[m].user = memberships[m].user
        /\ memberships'[m].company = memberships[m].company
        /\ memberships'[m].role = memberships[m].role /\ memberships'[m].state = "revoked"
        /\ \A k \in Memberships \ {m} : memberships'[k] = memberships[k]
    BY <1>0, <1>1 DEF RevokeMembership, AccessInv, FirmInv, FirmTypeOK, MembershipRows
  <2>2. memberships[m].role \in Roles /\ MayStepDown(m)
    BY <1>0, <1>1 DEF MembershipRows, RevokeMembership
  <2>3. RowsStand
    BY <1>0, <2>1, <2>2, Edited DEF AccessInv
  <2>4. FirmTypeOK'
    BY <1>1, <2>1 DEF RevokeMembership, AccessInv, FirmInv, FirmTypeOK
  <2> QED
    BY <1>1, <2>3, <2>4, UnchangedInvitations, StandingFirms DEF RevokeMembership, AccessInv
<1>2. ASSUME NEW r \in Roles,
             ChangeMembershipRole(u, m, r) \/ (r = "admin" /\ GmRestoreAdministrator(u, m))
      PROVE  FirmInv'
  <2>1. /\ memberships' \in [Memberships -> MembershipRows]
        /\ memberships'[m].user = memberships[m].user
        /\ memberships'[m].company = memberships[m].company
        /\ memberships'[m].role = r /\ memberships'[m].state = "active"
        /\ \A k \in Memberships \ {m} : memberships'[k] = memberships[k]
    BY <1>0, <1>2 DEF ChangeMembershipRole, GmRestoreAdministrator, AccessInv, FirmInv, FirmTypeOK,
                      MembershipRows, Active
  <2>2. r = "admin" \/ MayStepDown(m)
    BY <1>2 DEF ChangeMembershipRole, Roles
  <2>3. RowsStand
    BY <1>0, <2>1, <2>2, Edited DEF AccessInv
  <2>4. FirmTypeOK'
    BY <1>2, <2>1 DEF ChangeMembershipRole, GmRestoreAdministrator, AccessInv, FirmInv, FirmTypeOK
  <2> QED
    BY <1>2, <2>3, <2>4, UnchangedInvitations, StandingFirms
    DEF ChangeMembershipRole, GmRestoreAdministrator, AccessInv
<1> QED
  BY <1>1, <1>2 DEF Roles

(* One steps down exactly as another takes over.                           *)
LEMMA TransferKeeps ==
  ASSUME AccessInv, NEW u \in People, NEW from \in Memberships, NEW to \in Memberships,
         TransferAdministration(u, from, to)
  PROVE  FirmInv'
<1>1. /\ from # to /\ Active(from) /\ Active(to) /\ memberships[from].role = "admin"
      /\ memberships[to].company = memberships[from].company
      /\ memberships[from] \in MembershipRows /\ memberships[to] \in MembershipRows
  BY DEF TransferAdministration, MayTransfer, ActsAs, RowsOf, StaffOf, AccessInv, FirmInv, FirmTypeOK
<1>2. /\ memberships' \in [Memberships -> MembershipRows]
      /\ memberships'[from].role = "member" /\ memberships'[to].role = "admin"
      /\ \A k \in Memberships \ {from, to} : memberships'[k] = memberships[k]
      /\ \A k \in Memberships : /\ memberships'[k].user = memberships[k].user
                                 /\ memberships'[k].company = memberships[k].company
                                 /\ memberships'[k].state = memberships[k].state
  BY <1>1 DEF TransferAdministration, AccessInv, FirmInv, FirmTypeOK, MembershipRows, Roles
<1>3. \A k \in Memberships : memberships[k] # NoMember => memberships'[k] # NoMember
  <2>1. memberships'[from] # NoMember /\ memberships'[to] # NoMember
    BY <1>1, <1>2 DEF Active, NoMember
  <2> QED
    BY <1>2, <2>1
<1>4. \A v \in People : \A k, l \in RowsOf(v)' : k = l
  <2>1. \A v \in People : RowsOf(v)' = RowsOf(v)
    BY <1>2 DEF RowsOf, Active
  <2> QED
    BY <2>1 DEF AccessInv, FirmInv, OneFirmOneAdmission
<1>5. ASSUME NEW x \in Companies, AdminsOf(x) # {} PROVE AdminsOf(x)' # {}
  <2>1. CASE memberships[from].company = x
    BY <1>1, <1>2, <2>1 DEF AdminsOf, StaffOf, Active
  <2>2. CASE memberships[from].company # x
    <3>1. AdminsOf(x) \subseteq AdminsOf(x)'
      BY <1>1, <1>2, <2>2 DEF AdminsOf, StaffOf, Active
    <3> QED
      BY <1>5, <3>1
  <2> QED
    BY <2>1, <2>2
<1>6. \A x : StaffOf(x)' = StaffOf(x)
  BY <1>2 DEF StaffOf, Active
<1>7. RowsStand
  BY <1>3, <1>4, <1>5, <1>6 DEF RowsStand, AccessInv, FirmInv, StaffedFirmHasAdministrator
<1>8. FirmTypeOK'
  BY <1>2 DEF TransferAdministration, AccessInv, FirmInv, FirmTypeOK
<1> QED
  BY <1>7, <1>8, UnchangedInvitations, StandingFirms DEF TransferAdministration, AccessInv

LEMMA ClosedInvitation ==
  ASSUME FirmInv, NEW i \in Invitations, UNCHANGED <<firms, memberships, grants, alpha, cleanups>>,
         invitations' \in [Invitations -> InvitationRows],
         invitations'[i].company = invitations[i].company,
         invitations'[i].role = invitations[i].role,
         invitations'[i].state # "accepted",
         \A j \in Invitations \ {i} : invitations'[j] = invitations[j]
  PROVE  FirmInv'
<1>1. InvitationsStand
  BY DEF InvitationsStand
<1>2. FirmTypeOK'
  BY DEF FirmInv, FirmTypeOK
<1> QED
  BY <1>1, <1>2, UnchangedRows, StandingFirms

LEMMA FallsDueKeeps ==
  ASSUME AccessInv, NEW i \in Invitations, InvitationFallsDue(i)
  PROVE  FirmInv'
<1>1. invitations[i] \in InvitationRows
  BY DEF AccessInv, FirmInv, FirmTypeOK
<1>2. /\ invitations' \in [Invitations -> InvitationRows]
      /\ invitations'[i].company = invitations[i].company
      /\ invitations'[i].role = invitations[i].role
      /\ invitations'[i].state # "accepted"
      /\ \A j \in Invitations \ {i} : invitations'[j] = invitations[j]
  BY <1>1 DEF InvitationFallsDue, AccessInv, FirmInv, FirmTypeOK, InvitationRows
<1> QED
  BY <1>2, ClosedInvitation DEF InvitationFallsDue, AccessInv

LEMMA InvitationStepsKeep ==
  ASSUME AccessInv, NEW u \in People, NEW i \in Invitations,
         \/ RevokeInvitation(u, i) \/ RejectInvitation(u, i)
         \/ \E c \in Companies, a \in Addresses, r \in Roles : CreateInvitation(u, c, a, r, i)
         \/ \E c \in Companies, a \in Addresses : GmOnboardCompany(u, c, a, i)
  PROVE  FirmInv'
<1>0. /\ memberships' = memberships /\ grants' = grants /\ cleanups' = cleanups
      /\ invitations \in [Invitations -> InvitationRows]
  BY DEF RevokeInvitation, RejectInvitation, CreateInvitation,
         GmOnboardCompany, AccessInv, FirmInv, FirmTypeOK
<1>1. CASE RevokeInvitation(u, i) \/ RejectInvitation(u, i)
  <2>1. invitations[i] \in InvitationRows
    BY <1>0
  <2>2. /\ invitations' \in [Invitations -> InvitationRows]
        /\ invitations'[i].company = invitations[i].company
        /\ invitations'[i].role = invitations[i].role
        /\ invitations'[i].state # "accepted"
        /\ \A j \in Invitations \ {i} : invitations'[j] = invitations[j]
    <3>1. CASE RevokeInvitation(u, i)
      BY <1>0, <2>1, <3>1 DEF RevokeInvitation, InvitationRows
    <3>2. CASE RejectInvitation(u, i)
      BY <1>0, <2>1, <3>2 DEF RejectInvitation, InvitationRows
    <3> QED
      BY <1>1, <3>1, <3>2
  <2> QED
    BY <1>1, <2>2, ClosedInvitation DEF RevokeInvitation, RejectInvitation, AccessInv
<1>2. ASSUME NEW c \in Companies, NEW a \in Addresses, NEW r \in Roles, CreateInvitation(u, c, a, r, i)
      PROVE  FirmInv'
  <2>1. \A j \in Invitations \ {i} :
          \/ invitations'[j] = invitations[j]
          \/ invitations'[j] = [invitations[j] EXCEPT !.state = "expired"]
    BY <1>2 DEF CreateInvitation
  <2>2. invitations'[i] = Invited(c, a, r)
    BY <1>2 DEF CreateInvitation
  <2>3. ASSUME NEW j \in Invitations \ {i}
        PROVE  /\ invitations'[j] \in InvitationRows
               /\ invitations'[j].company = invitations[j].company
               /\ invitations'[j].role = invitations[j].role
               /\ invitations'[j].admitted = invitations[j].admitted
               /\ invitations'[j].state = "accepted" => invitations[j].state = "accepted"
    <3>1. invitations[j] \in InvitationRows
      BY <1>0
    <3>2. CASE invitations'[j] = invitations[j]
      BY <3>1, <3>2
    <3>3. CASE invitations'[j] = [invitations[j] EXCEPT !.state = "expired"]
      BY <3>1, <3>3 DEF InvitationRows
    <3> QED
      BY <2>1, <3>2, <3>3
  <2>4. AdminsOf(c) # {}
    BY <1>2 DEF CreateInvitation, Administers
  <2>5. InvitationsStand
    BY <2>2, <2>3, <2>4, InviteRows DEF InvitationsStand
  <2>6. invitations' \in [Invitations -> InvitationRows]
    <3>1. \A j \in Invitations : invitations'[j] \in InvitationRows
      BY <2>2, <2>3, InviteRows
    <3>2. invitations' = [j \in Invitations |-> invitations'[j]]
      BY <1>2 DEF CreateInvitation
    <3> QED
      BY <3>1, <3>2
  <2>7. FirmTypeOK'
    BY <1>0, <1>2, <2>6 DEF CreateInvitation, AccessInv, FirmInv, FirmTypeOK
  <2> QED
    BY <1>0, <2>5, <2>7, UnchangedRows, StandingFirms DEF AccessInv
<1>3. ASSUME NEW c \in Companies, NEW a \in Addresses, GmOnboardCompany(u, c, a, i)
      PROVE  FirmInv'
  <2>1. "admin" \in Roles
    BY DEF Roles
  <2>2. /\ invitations'[i] = Invited(c, a, "admin")
        /\ \A j \in Invitations \ {i} : invitations'[j] = invitations[j]
        /\ invitations' \in [Invitations -> InvitationRows]
    BY <1>0, <1>3, <2>1, InviteRows DEF GmOnboardCompany
  <2>3. InvitationsStand
    <3>1. Invited(c, a, "admin").state # "accepted" /\ Invited(c, a, "admin").role # "member"
      BY DEF Invited
    <3> QED
      BY <2>2, <3>1 DEF InvitationsStand
  <2>4. FirmTypeOK'
    BY <1>0, <1>3, <2>2 DEF GmOnboardCompany, AccessInv, FirmInv, FirmTypeOK
  <2> QED
    BY <1>0, <2>3, <2>4, UnchangedRows, StandingFirms DEF AccessInv
<1> QED
  BY <1>1, <1>2, <1>3

(* The steps that leave membership rows and invitations alone.             *)
LEMMA OtherFirmStepsKeep ==
  ASSUME AccessInv, UNCHANGED <<memberships, invitations>>, FirmTypeOK'
  PROVE  FirmInv'
BY UnchangedRows, UnchangedInvitations, StandingFirms DEF AccessInv

LEMMA OperatorStepsKeep ==
  ASSUME AccessInv, NEW u \in People,
         \/ EnterGmMode(u) \/ ExitGmMode(u)
         \/ \E c \in Companies : GmActivateCompany(u, c) \/ GmEndCompanyAlpha(u, c)
  PROVE  FirmInv'
<1>1. UNCHANGED <<memberships, invitations>>
  BY DEF EnterGmMode, ExitGmMode, GmActivateCompany, GmEndCompanyAlpha
<1>2. FirmTypeOK'
  BY <1>1 DEF EnterGmMode, ExitGmMode, GmActivateCompany, GmEndCompanyAlpha,
         MayEnterGm, AccessInv, FirmInv, FirmTypeOK
<1> QED
  BY <1>1, <1>2, OtherFirmStepsKeep

LEMMA CleanupKeepsSignIn ==
  ASSUME AccessInv, NEW m \in Memberships, CleanupRevocation(m)
  PROVE  SignInInv'
<1>1. AddressesStand
  BY DEF CleanupRevocation, AddressesStand
<1>2. sessions' \in [Devices -> SessionRows] /\ SessionsAreOfKnown'
  BY <1>1, RevokedSessions DEF CleanupRevocation, AccessInv
<1> QED
  BY <1>2, SessionsOnly DEF CleanupRevocation, AccessInv

LEMMA AccessInvStep == AccessInv /\ [Next]_vars => AccessInv'
<1> SUFFICES ASSUME AccessInv, [Next]_vars PROVE AccessInv'
  OBVIOUS
<1>0. SignInInv /\ FirmInv
  BY DEF AccessInv
<1>1. ASSUME UNCHANGED memberVars PROVE FirmInv'
  <2>1. FirmTypeOK'
    BY <1>1 DEF memberVars, AccessInv, FirmInv, FirmTypeOK
  <2> QED
    BY <1>1, <2>1, OtherFirmStepsKeep DEF memberVars
<1>2. CASE SignInNext /\ UNCHANGED memberVars
  BY <1>0, <1>1, <1>2, SignInInvStep DEF AccessInv
<1>3. CASE UNCHANGED vars
  BY <1>0, <1>1, <1>3, SignInInvStutters DEF AccessInv, vars
<1>4. CASE FirmNext
  <2>1. CASE \E u \in People, c \in Companies, m \in Memberships : CreateCompany(u, c, m)
    BY <1>0, <2>1, AdmittingKeeps, SignInInvStutters DEF AccessInv, CreateCompany, signInVars
  <2>2. CASE \E u \in People, c \in Companies, a \in Addresses, r \in Roles, i \in Invitations :
               CreateInvitation(u, c, a, r, i)
    BY <1>0, <2>2, InvitationStepsKeep, SignInInvStutters DEF AccessInv, CreateInvitation, signInVars
  <2>3. CASE \E i \in Invitations : InvitationFallsDue(i)
    <3>1. UNCHANGED signInVars
      BY <2>3 DEF InvitationFallsDue, signInVars
    <3>2. FirmInv'
      BY <2>3, FallsDueKeeps
    <3> QED
      BY <1>0, <3>1, <3>2, SignInInvStutters DEF AccessInv
  <2>4. CASE \E u \in People, i \in Invitations : RevokeInvitation(u, i) \/ RejectInvitation(u, i)
    BY <1>0, <2>4, InvitationStepsKeep, SignInInvStutters
    DEF AccessInv, RevokeInvitation, RejectInvitation, signInVars
  <2>5. CASE \E u \in People, i \in Invitations, m \in Memberships : AcceptInvitation(u, i, m)
    BY <1>0, <2>5, AdmittingKeeps, SignInInvStutters DEF AccessInv, AcceptInvitation, signInVars
  <2>6. CASE \E u \in People, m \in Memberships :
               RevokeMembership(u, m) \/ \E r \in Roles : ChangeMembershipRole(u, m, r)
    BY <1>0, <2>6, EditingKeeps, SignInInvStutters
    DEF AccessInv, RevokeMembership, ChangeMembershipRole, signInVars
  <2>7. CASE \E u \in People, m, k \in Memberships : TransferAdministration(u, m, k)
    BY <1>0, <2>7, TransferKeeps, SignInInvStutters DEF AccessInv, TransferAdministration, signInVars
  <2>8. CASE \E m \in Memberships : CleanupRevocation(m)
    <3>1. FirmInv'
      <4>1. UNCHANGED <<memberships, invitations>>
        BY <2>8 DEF CleanupRevocation
      <4>2. FirmTypeOK'
        BY <2>8 DEF CleanupRevocation, AccessInv, FirmInv, FirmTypeOK
      <4> QED
        BY <4>1, <4>2, OtherFirmStepsKeep
    <3> QED
      BY <2>8, <3>1, CleanupKeepsSignIn DEF AccessInv
  <2> QED
    BY <1>4, <2>1, <2>2, <2>3, <2>4, <2>5, <2>6, <2>7, <2>8 DEF FirmNext
<1>5. CASE GmNext
  <2>1. PICK u \in People :
          \/ EnterGmMode(u) \/ ExitGmMode(u)
          \/ \E c \in Companies : GmActivateCompany(u, c) \/ GmEndCompanyAlpha(u, c)
          \/ \E c \in Companies, a \in Addresses, i \in Invitations : GmOnboardCompany(u, c, a, i)
          \/ \E m \in Memberships : GmRestoreAdministrator(u, m)
          \/ \E v \in People : GmRecoverAccount(u, v)
    BY <1>5 DEF GmNext
  <2>2. CASE \/ EnterGmMode(u) \/ ExitGmMode(u)
             \/ \E c \in Companies : GmActivateCompany(u, c) \/ GmEndCompanyAlpha(u, c)
    BY <1>0, <2>2, OperatorStepsKeep, SignInInvStutters
    DEF AccessInv, EnterGmMode, ExitGmMode, GmActivateCompany, GmEndCompanyAlpha, signInVars
  <2>3. CASE \E c \in Companies, a \in Addresses, i \in Invitations : GmOnboardCompany(u, c, a, i)
    BY <1>0, <2>3, InvitationStepsKeep, SignInInvStutters DEF AccessInv, GmOnboardCompany, signInVars
  <2>4. CASE \E m \in Memberships : GmRestoreAdministrator(u, m)
    BY <1>0, <2>4, EditingKeeps, SignInInvStutters DEF AccessInv, GmRestoreAdministrator, signInVars
  <2>5. CASE \E v \in People : GmRecoverAccount(u, v)
    BY <1>0, <1>1, <2>5, RecoverKeeps DEF AccessInv, GmRecoverAccount
  <2> QED
    BY <2>1, <2>2, <2>3, <2>4, <2>5
<1> QED
  BY <1>2, <1>3, <1>4, <1>5 DEF Next

LEMMA AccessInvInit == Init => AccessInv
BY SignInInvInit, FirmInvInit DEF Init, AccessInv

LEMMA AccessInvAlways == Spec => []AccessInv
BY AccessInvInit, AccessInvStep, PTL DEF Spec

-----------------------------------------------------------------------------
(* The rows of persons, credentials, sessions, ceremonies, firms and       *)
(* invitations keep their types.                                           *)
THEOREM AccessTypeCorrect == Spec => []TypeOK
<1>1. AccessInv => TypeOK
  BY DEF AccessInv, SignInInv, FirmInv, FirmTypeOK, TypeOK
<1> QED
  BY <1>1, AccessInvAlways, PTL

(* A Google account signs in one person, however many sign up, link and    *)
(* are recovered (createOrUpdateUser, decideGoogleCallbackLink,            *)
(* recoverAccountCore).                                                    *)
THEOREM SubjectsAlwaysHaveOneOwner == Spec => []OneOwnerPerSubject
<1>1. AccessInv => OneOwnerPerSubject
  BY DEF AccessInv, SignInInv
<1> QED
  BY <1>1, AccessInvAlways, PTL

(* A mailed code never signs in somebody who left the address: linking and *)
(* the change of the address interleave in any number of ceremonies        *)
(* (verifyProofCode, repointEmailCodeCredential).                          *)
THEOREM CredentialsAlwaysFollowTheAddress == Spec => []CredentialFollowsAddress
<1>1. AccessInv => CredentialFollowsAddress
  BY DEF AccessInv, SignInInv
<1> QED
  BY <1>1, AccessInvAlways, PTL

(* No firm with members loses its last administrator, whoever leaves, is   *)
(* demoted, transfers or is admitted (decideLastAdminChange).              *)
THEOREM StaffAlwaysHasAnAdministrator == Spec => []StaffedFirmHasAdministrator
<1>1. AccessInv => StaffedFirmHasAdministrator
  BY DEF AccessInv, FirmInv
<1> QED
  BY <1>1, AccessInvAlways, PTL

(* One firm to a person and one admission to an invitation                 *)
(* (decideInvitationAdmission).                                            *)
THEOREM AlwaysOneFirmAndOneAdmission == Spec => []OneFirmOneAdmission
<1>1. AccessInv => OneFirmOneAdmission
  BY DEF AccessInv, FirmInv
<1> QED
  BY <1>1, AccessInvAlways, PTL
=============================================================================
