------------------------------ MODULE MCBackups ------------------------------
(* A finite instance of Backups for the expiry of purged media: every set is  *)
(* verified by its first attempt.                                             *)
EXTENDS Backups

MCQuietBackups ==
  \A s \in Days : \/ rows[s].state \in {"none", "verified"}
                  \/ s = day /\ rows[s].lease
=============================================================================
