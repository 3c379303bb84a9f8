---------------------------- MODULE RecordJournal ----------------------------
(* What the records of the bosses promise, whatever counters and tables keep  *)
(* it: a record is its journal.  Reading it gives what the journal tells, a   *)
(* change appends one entry that says something new, and whoever changes a    *)
(* record has seen it as it stands: there is one order of the changes of a    *)
(* record, and each was decided with all those before it on the table.        *)
EXTENDS Naturals, Sequences

CONSTANTS Subjects, Authors

VARIABLES
  journal,      \* per record, the entries about its parts, oldest first
  seen          \* what an author has on the table: a record and what its journal told

journalVars == <<journal, seen>>

JournalInit ==
  /\ journal = [s \in Subjects |-> << >>]
  /\ seen = {}

(* What a journal tells: of every part it is about, what the latest says.     *)
About(entries, part) == {n \in DOMAIN entries : entries[n].what = part}
Parts(entries) == {entries[n].what : n \in DOMAIN entries}
Tells(entries) ==
  [part \in Parts(entries) |->
     entries[CHOOSE n \in About(entries, part) :
               \A k \in About(entries, part) : k <= n].snapshot]

Sight(b, s) == [author |-> b, subject |-> s, told |-> Tells(journal[s])]

Read(b, s) ==
  /\ journal[s] # << >>
  /\ seen' = {other \in seen : other.author # b} \union {Sight(b, s)}
  /\ UNCHANGED journal

SeesAsItStands(b, s) == Sight(b, s) \in seen

Extends(s) ==
  /\ Len(journal'[s]) = Len(journal[s]) + 1
  /\ \A n \in DOMAIN journal[s] : journal'[s][n] = journal[s][n]
  /\ Tells(journal'[s]) # Tells(journal[s])

(* A change extends the journals it writes together; those that are not new   *)
(* are of the one record its author has on the table.                         *)
Change(S) ==
  /\ \A s \in S : Extends(s)
  /\ \A s \in Subjects \ S : journal'[s] = journal[s]
  /\ \/ \A s \in S : journal[s] = << >>
     \/ \E b \in Authors : \A s \in S : journal[s] # << >> => SeesAsItStands(b, s)
  /\ UNCHANGED seen

JournalNext ==
  \/ \E b \in Authors, s \in Subjects : Read(b, s)
  \/ \E S \in (SUBSET Subjects) \ {{}} : Change(S)

JournalSpec == JournalInit /\ [][JournalNext]_journalVars
=============================================================================
