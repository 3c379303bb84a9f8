---------------------------- MODULE MCMembership ----------------------------
(* A finite instance of Membership for TLC.  Sessions, firms and           *)
(* invitations are interchangeable.                                        *)
EXTENDS Membership, TLC

CONSTANTS p1, p2, a1, a2, g1

MCGoogleEmail == [s \in {g1} |-> a1]

(* Bounds: firms, linking and the change of an address meet in persons and *)
(* sessions only, so a behaviour has firms, or ceremonies under an address *)
(* that changes, or ceremonies and an operator who recovers accounts; with *)
(* an operator in the firms, one invitation is issued.                     *)
NoCeremony == \A n \in Ceremonies : attempts[n] = NoAttempt
NoAddressChange == \A u \in People : change[u] = NoChange
NoLapse == \A d \in Devices : sessions[d].state # "lapsed"
MCOneSubject ==
  \/ firms = {} /\ grants = {}
  \/ firms = {} /\ NoAddressChange /\ NoLapse
  \/ /\ NoCeremony /\ NoAddressChange /\ NoLapse
     /\ \A s \in Subjects : Owner("google", s) = {}
     /\ (grants = {} /\ alpha = {}) \/ \E i \in Invitations : invitations[i] = NoInvitation

MCSymmetry == Permutations(Devices) \union Permutations(Companies)
                \union Permutations(Invitations)
=============================================================================
