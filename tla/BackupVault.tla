----------------------------- MODULE BackupVault -----------------------------
(***************************************************************************)
(* What the complete backups promise, whatever runs, leases and sweeps are *)
(* under way: a set is sealed once, with all its media in the pool; it is  *)
(* never changed after, it is dropped only when it has expired, and no     *)
(* object of a set that has not expired is released.                       *)
(***************************************************************************)
EXTENDS Naturals

CONSTANTS Slots, Media, Retention

VARIABLES
  today,
  sets,      \* the sealed sets, of a slot each
  pool       \* the media objects that are kept

vaultVars == <<today, sets, pool>>

VaultInit == today = 0 /\ sets = {} /\ pool = {}

IsExpired(set) == set.slot + Retention <= today

PassDay ==
  /\ today' = today + 1
  /\ UNCHANGED <<sets, pool>>

Keep(k) ==
  /\ pool' = pool \union {k}
  /\ UNCHANGED <<today, sets>>

Seal(set) ==
  /\ set.media \subseteq pool
  /\ ~IsExpired(set)
  /\ \A other \in sets : other.slot # set.slot
  /\ sets' = sets \union {set}
  /\ UNCHANGED <<today, pool>>

Drop(gone) ==
  /\ \A set \in gone : IsExpired(set)
  /\ sets' = sets \ gone
  /\ UNCHANGED <<today, pool>>

Release(keys) ==
  /\ \A set \in sets : ~IsExpired(set) => set.media \intersect keys = {}
  /\ pool' = pool \ keys
  /\ UNCHANGED <<today, sets>>

VaultNext ==
  \/ PassDay
  \/ \E k \in Media : Keep(k)
  \/ \E set \in [slot : Slots, media : SUBSET Media] : Seal(set)
  \/ \E gone \in SUBSET sets : Drop(gone)
  \/ \E keys \in SUBSET pool : Release(keys)

VaultSpec == VaultInit /\ [][VaultNext]_vaultVars
=============================================================================
