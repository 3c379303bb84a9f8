----------------------------- MODULE MCWorkplace -----------------------------
(* A finite instance of what the bosses work with: tasks and events, projects, *)
(* the agent over its memory, the composer of their messages, and the update  *)
(* of its tab.  They share no variable; a behaviour is the life of one of     *)
(* them, which `part` names, and the others stand still in one of their       *)
(* initial states.                                                            *)
EXTENDS Work, Projects, Agent, Capture, AppUpdate, TLC

CONSTANTS b1, b2, x1, x2

VARIABLE part

MCCaptureVars == <<captureVars, captureHistory>>
MCUpdateVars == <<updateVars, updateHistory>>
MCClientVars == <<MCCaptureVars, MCUpdateVars>>
MCVars == <<workVars, projectVars, memoryVars, agentVars, MCClientVars, part>>

MCGenerated == <<"#1", "#2">>

(* The memory of the agent begins with its finding.                           *)
MCInit ==
  /\ WorkInit /\ ProjectsInit /\ MemoryInit /\ AgentInit /\ CaptureInit /\ UpdateInit
  /\ part \in {"work", "projects", "agent", "capture", "update"}
  /\ part # "update" => browser.active
  /\ \A f \in Findings : Exists(f)
  /\ part # "agent" => /\ \A f \in Findings : findings[f].provenance = "m1"
                       /\ \A c \in Cases : cases[c] = "none"

MCNext ==
  /\ UNCHANGED part
  /\ \/ part = "work" /\ WorkNext /\ UNCHANGED <<projectVars, memoryVars, agentVars, MCClientVars>>
     \/ part = "projects" /\ ProjectsNext /\ UNCHANGED <<workVars, memoryVars, agentVars, MCClientVars>>
     \/ part = "agent" /\ AgentNext /\ UNCHANGED <<workVars, projectVars, MCClientVars>>
     \/ /\ part = "capture" /\ CaptureNext
        /\ UNCHANGED <<workVars, projectVars, memoryVars, agentVars, MCUpdateVars>>
     \/ /\ part = "update" /\ UpdateNext
        /\ UNCHANGED <<workVars, projectVars, memoryVars, agentVars, MCCaptureVars>>

MCSpec == MCInit /\ [][MCNext]_MCVars

Count(S) == Cardinality(S)
One(holds) == IF holds THEN 1 ELSE 0

(* Bounds of Work: four history rows, three states, and one command with a    *)
(* basis or a reference, or one of them lost.                                 *)
HistoryRows == {<<s, n>> \in Subjects \X (1..4) : n <= Len(revisions[s])}

RefersTo(row) == {field \in {"coordinator", "deadline", "event", "time"} \intersect DOMAIN row :
                    row[field] # None}

MCWorkBound ==
  /\ \A t \in Tasks : tasks[t] # None => tasks[t].state \in {"todo", "waiting", "done"}
  /\ tasks["t2"] # None => tasks["t1"] # None
  /\ Count(HistoryRows) <= 4
  /\ Count(Members \ coordinators) + Count(Grounds \ bases)
       + Count({f \in Dates : terms[f] # "ahead"})
       + Count({x \in HistoryRows :
                  LET row == revisions[x[1]][x[2]] IN
                  row.basis # None \/ (row.what = "row" /\ RefersTo(row.snapshot) # {})}) <= 1

(* Bounds of Projects: four stages, and little happens to the second project. *)
MCProjectsBound ==
  /\ \A p \in Identified :
       projects[p].stage \in {"inquiry", "agreed", "completed", "cancelled"}
  /\ projects["p2"] # Nothing => projects["p1"] # Nothing /\ projects["p2"].revision = 1
  /\ roles # {} => projects["p1"].revision = 1

(* Bounds of the agent: a finding that is revised twice while the model       *)
(* thinks, or one thing that is not as usual in the run.                      *)
AskTroubles ==
  One(ask # Idle /\ Open # context.open) + One(~signedIn)
    + One(\E e \in ledger : e.grounds = Unanchored)
    + One(record.state = "none" \/ record.turns # 1..ask.turns)

MCAgentBound ==
  /\ \A f \in Findings : findings[f].revision <= (IF ask = Idle THEN 1 ELSE 3)
  /\ Count({s \in Messages : ~Active(s)}) <= 1
  /\ \A s \in Messages : placed[s] /\ analyses[s] <= 1
  /\ Count(reactions) <= 1
  /\ ask.step \notin {"over", "dead"}
  /\ answer # NoAnswer =>
       /\ Count(answer.cites) + Count(answer.derivedFrom) <= 1
       /\ \A f \in Findings : findings[f].revision = 1
  /\ AskTroubles + One(\E f \in Findings : findings[f].revision > 1) <= 1

(* Bounds of the composer: a recording, or a photo and words, or a write that *)
(* fails or a second attempt of a call in a message of a photo alone; little  *)
(* happens to the second draft, or after a chunk that was not written.        *)
Spoken == mic.take > 0
Pictured == blobs.photos # {} \/ \E n \in DOMAIN queue : queue[n].kind = "add"

MCCaptureBound ==
  /\ Len(queue) <= 2
  /\ Spoken => ~Pictured /\ live.words = NoWords
  /\ unwritten => live.words = NoWords /\ Len(queue) <= 1 /\ send.tries <= 1
  /\ Spoken /\ unwritten => send.step \in {"none", "read"} /\ asked \union discarded = {}
  /\ send.tries > 1 => live.words = NoWords /\ lag = Absent /\ queue = << >>
  /\ live.id = 2 => live.words = NoWords /\ send.step = "none" /\ mic.state = "idle"

MCBound ==
  /\ MCWorkBound /\ MCProjectsBound /\ MCCaptureBound
  /\ part = "agent" => MCAgentBound

MCSymmetry == Permutations({b1, b2}) \union Permutations({x1, x2})
=============================================================================
