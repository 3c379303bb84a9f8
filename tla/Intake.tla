------------------------------- MODULE Intake -------------------------------
(***************************************************************************)
(* From a draft to an accepted source (convex/sources/uploads, accept and  *)
(* apps/gateway/src/uploads): the upload ledger, the multipart sessions    *)
(* and objects of the R2 bucket, the gateway requests that work on both,   *)
(* and the acceptance that binds a finalized upload to one source.         *)
(*                                                                         *)
(* A ledger step is one transaction.  The gateway writes R2 outside of it: *)
(* a request in flight is a record of `requests`, its next step is taken   *)
(* at any time, and it may be lost between any two steps.  All parts have  *)
(* the same length, so a byte count is a number of parts.  One firm and    *)
(* one author: the tenant and owner checks of loadOwnedUpload pass.        *)
(***************************************************************************)
EXTENDS Naturals, FiniteSets

CONSTANTS
  Drafts,         \* the client's stable draft ids
  Slots,          \* the attachments a draft may declare
  Parts,          \* part numbers within the declared bound
  Contents,       \* what a part may carry
  Mints,          \* generations of minted object keys
  Etags,          \* bound: etags R2 issues for parts
  MaxRequests,    \* bound: gateway requests in flight
  AcceptanceKeys, \* idempotency keys of acceptances
  Texts,          \* author texts
  NoWords,        \* the text without words
  Sources,        \* identities of sources, in order of creation
  NoKey, NoSource

ASSUME IntakeNumbers ==
  Mints \subseteq Nat /\ Etags \subseteq Nat /\ Sources \subseteq Nat /\ MaxRequests \in Nat
ASSUME IntakeNothing ==
  NoSource \notin Sources /\ NoKey \notin AcceptanceKeys /\ NoWords \in Texts

\* `collected` of a key is history: a collection pass has dealt with it.
VARIABLES
  uploads,      \* uploads, one row per draft
  attachments,  \* attachments with their received representation
  r2,           \* multipart sessions and objects by object key
  requests,     \* gateway requests between two of their steps
  sources       \* sources, with the event and the job of their acceptance

intakeVars == <<uploads, attachments, r2, requests, sources>>

ObjectKeys == Drafts \X Slots \X Mints
Nothing == [p \in {} |-> 0]
PartialFunctions(S, T) == UNION {[U -> T] : U \in SUBSET S}
Receipts == [etag : Etags, content : Contents]
Stages == {"none", "draft", "uploading", "finalized", "orphaned"}

\* `idle` is the time since the last activity: within ACTIVE_GRACE_MS, past
\* it, past FINALIZED_GRACE_MS.
UploadRows == [stage : Stages, declared : SUBSET Slots, idle : 0 .. 2,
               source : Sources \union {NoSource}, announced : 0 .. 1]
AttachmentRows == [mint : Mints \union {0}, manifest : PartialFunctions(Parts, Receipts),
                   completed : BOOLEAN, source : Sources \union {NoSource}]
SessionStates == [session : {"none", "open", "completed", "aborted"},
                  stored : PartialFunctions(Parts, Receipts),
                  object : PartialFunctions(Parts, Contents), collected : BOOLEAN]
SourceRows == [key : AcceptanceKeys \union {NoKey}, text : Texts,
               draft : Drafts, media : SUBSET Slots]

NoUpload == [stage |-> "none", declared |-> {}, idle |-> 0, source |-> NoSource, announced |-> 0]
NoAttachment == [mint |-> 0, manifest |-> Nothing, completed |-> FALSE, source |-> NoSource]
NoSession == [session |-> "none", stored |-> Nothing, object |-> Nothing,
              collected |-> FALSE]

IntakeTypeOK ==
  /\ uploads \in [Drafts -> UploadRows]
  /\ attachments \in [Drafts -> [Slots -> AttachmentRows]]
  /\ r2 \in [ObjectKeys -> SessionStates]
  /\ Cardinality(requests) <= MaxRequests
  /\ DOMAIN sources \subseteq Sources
  /\ \A s \in DOMAIN sources : sources[s] \in SourceRows

IntakeInit ==
  /\ uploads = [d \in Drafts |-> NoUpload]
  /\ attachments = [d \in Drafts |-> [a \in Slots |-> NoAttachment]]
  /\ r2 = [k \in ObjectKeys |-> NoSession]
  /\ requests = {}
  /\ sources = Nothing

(* What the rows of a draft say. *)
Exists(d, a) == attachments[d][a].mint # 0
Begun(d) == {a \in Slots : Exists(d, a)}
KeyOf(d, a) == <<d, a, attachments[d][a].mint>>
Verified(d) == {a \in Begun(d) : attachments[d][a].completed}
Touched(d) == [uploads EXCEPT ![d].idle = 0]
Send(r) == Cardinality(requests) < MaxRequests /\ requests' = requests \union {r}
Finish(r) == requests' = requests \ {r}
Becomes(r, s) == requests' = (requests \ {r}) \union {s}

(***************************************************************************)
(* R2.  An etag is fresh on every write of a part; a session completes or  *)
(* aborts once, and completes only from the etags of the stored parts.     *)
(***************************************************************************)
IssuedEtags ==
  {e \in Etags :
     \/ \E k \in ObjectKeys : \E p \in DOMAIN r2[k].stored : r2[k].stored[p].etag = e
     \/ \E d \in Drafts, a \in Slots : \E p \in DOMAIN attachments[d][a].manifest :
          attachments[d][a].manifest[p].etag = e
     \/ \E q \in requests : q.op = "part" /\ q.etag = e}
FreshEtag == {e \in Etags : \A f \in IssuedEtags : f < e}
\* The least etag above all that are in use.
NextEtag == {e \in FreshEtag : \A f \in FreshEtag : e <= f}

Writes(k, p, receipt) ==
  /\ r2[k].session = "open"
  /\ r2' = [r2 EXCEPT ![k].stored =
              [q \in DOMAIN r2[k].stored \union {p} |->
                 IF q = p THEN receipt ELSE r2[k].stored[q]]]

Completable(k, manifest) ==
  /\ r2[k].session = "open"
  /\ \A p \in DOMAIN manifest :
       p \in DOMAIN r2[k].stored /\ r2[k].stored[p].etag = manifest[p].etag

(***************************************************************************)
(* prepare and begin.  Re-preparing a draft returns its row; the gateway   *)
(* mints sessions when the row has no attachments yet, and two requests    *)
(* that saw none both mint.  The ledger step and the read that follows it  *)
(* are one step here: what is decided depends on the read alone.           *)
(***************************************************************************)
FreshMint(d) ==
  LET fresh == {m \in Mints : \A a \in Slots : r2[<<d, a, m>>].session = "none"}
  IN {m \in fresh : \A n \in fresh : m <= n}

Prepare(d, declared) ==
  /\ uploads[d].stage # "orphaned"
  /\ uploads[d].stage # "none" => uploads[d].declared = declared
  /\ uploads' = IF uploads[d].stage # "none" THEN uploads
                ELSE [uploads EXCEPT ![d] = [NoUpload EXCEPT !.stage = "draft", !.declared = declared]]
  /\ IF Begun(d) = {} /\ declared # {} /\ uploads[d].stage # "finalized"
     THEN \E m \in FreshMint(d) :
            /\ r2' = [k \in ObjectKeys |->
                        IF k[1] = d /\ k[2] \in declared /\ k[3] = m
                        THEN [NoSession EXCEPT !.session = "open"] ELSE r2[k]]
            /\ Send([op |-> "begin", draft |-> d, mint |-> m])
     ELSE uploads' # uploads /\ UNCHANGED <<r2, requests>>
  /\ UNCHANGED <<attachments, sources>>

\* A diverging session of a draft that has one is refused.
Begin(r) ==
  /\ r \in requests /\ r.op = "begin"
  /\ IF uploads[r.draft].stage \in {"draft", "uploading"} /\ Begun(r.draft) = {}
     THEN /\ attachments' = [attachments EXCEPT ![r.draft] = [a \in Slots |->
                               IF a \in uploads[r.draft].declared
                               THEN [NoAttachment EXCEPT !.mint = r.mint] ELSE NoAttachment]]
          /\ uploads' = [uploads EXCEPT ![r.draft] =
                           [uploads[r.draft] EXCEPT !.stage = "uploading", !.idle = 0]]
     ELSE UNCHANGED <<attachments, uploads>>
  /\ Finish(r)
  /\ UNCHANGED <<r2, sources>>

(***************************************************************************)
(* One part: the gateway reads the session, streams the body into R2 and   *)
(* then records the receipt.                                               *)
(***************************************************************************)
StreamPart(d, a, p, c) ==
  /\ Exists(d, a) /\ ~attachments[d][a].completed
  /\ \E e \in NextEtag :
       /\ Writes(KeyOf(d, a), p, [etag |-> e, content |-> c])
       /\ Send([op |-> "part", draft |-> d, slot |-> a, part |-> p, etag |-> e, content |-> c])
  /\ UNCHANGED <<uploads, attachments, sources>>

DecidePartReceipt(manifest, r) ==
  IF r.part \notin DOMAIN manifest THEN "record"
  ELSE IF manifest[r.part].content # r.content THEN "conflict"
  ELSE IF manifest[r.part].etag = r.etag THEN "idempotent" ELSE "refresh"

UpsertReceipt(manifest, r) ==
  [p \in DOMAIN manifest \union {r.part} |->
     IF p = r.part THEN [etag |-> r.etag, content |-> r.content] ELSE manifest[p]]

RecordPart(r) ==
  /\ r \in requests /\ r.op = "part"
  /\ LET row == attachments[r.draft][r.slot]
         decision == DecidePartReceipt(row.manifest, r)
         heard == uploads[r.draft].stage = "uploading" /\ ~row.completed /\ decision # "conflict"
     IN /\ uploads' = IF heard THEN Touched(r.draft) ELSE uploads
        /\ attachments' =
             IF heard /\ decision # "idempotent"
             THEN [attachments EXCEPT ![r.draft][r.slot].manifest = UpsertReceipt(@, r)]
             ELSE attachments
  /\ Finish(r)
  /\ UNCHANGED <<r2, sources>>

(***************************************************************************)
(* Completion of one attachment: the manifest is read, R2 completes the    *)
(* session from it and is asked for the object, the ledger records it.     *)
(***************************************************************************)
ReadManifest(d, a) ==
  /\ Exists(d, a) /\ ~attachments[d][a].completed
  /\ attachments[d][a].manifest # Nothing
  /\ Send([op |-> "complete", draft |-> d, slot |-> a, key |-> KeyOf(d, a),
           manifest |-> attachments[d][a].manifest, done |-> FALSE])
  /\ UNCHANGED <<uploads, attachments, r2, sources>>

CompleteAndVerify(r) ==
  /\ r \in requests /\ r.op = "complete" /\ ~r.done
  /\ IF Completable(r.key, r.manifest)
     THEN /\ r2' = [r2 EXCEPT ![r.key] =
                      [r2[r.key] EXCEPT !.session = "completed",
                                        !.object = [p \in DOMAIN r.manifest |->
                                                      r2[r.key].stored[p].content]]]
          /\ Becomes(r, [r EXCEPT !.done = TRUE])
     ELSE Finish(r) /\ UNCHANGED r2
  /\ UNCHANGED <<uploads, attachments, sources>>

\* A fault: the size of the object is not compared with the manifest.
CompleteUnchecked(r) ==
  /\ r \in requests /\ r.op = "complete" /\ r.done
  /\ attachments' = [attachments EXCEPT ![r.draft][r.slot].completed = TRUE]
  /\ Finish(r)
  /\ UNCHANGED <<uploads, r2, sources>>

CompleteAttachment(r) ==
  /\ r \in requests /\ r.op = "complete" /\ r.done
  /\ LET row == attachments[r.draft][r.slot]
         sizes == Cardinality(DOMAIN row.manifest) = Cardinality(DOMAIN r.manifest)
     IN IF uploads[r.draft].stage \in {"uploading", "finalized"} /\ (row.completed \/ sizes)
        THEN /\ attachments' = [attachments EXCEPT ![r.draft][r.slot].completed = TRUE]
             /\ uploads' = Touched(r.draft)
        ELSE UNCHANGED <<attachments, uploads>>
  /\ Finish(r)
  /\ UNCHANGED <<r2, sources>>

\* The replay of a recorded completion counts as activity.
ReplayComplete(d, a) ==
  /\ Exists(d, a) /\ attachments[d][a].completed
  /\ uploads[d].stage \in {"uploading", "finalized"}
  /\ uploads' = Touched(d)
  /\ UNCHANGED <<attachments, r2, requests, sources>>

FinalizeUpload(d) ==
  /\ uploads[d].stage = "uploading"
  /\ Begun(d) = uploads[d].declared /\ Begun(d) # {} /\ Verified(d) = Begun(d)
  /\ uploads' = [uploads EXCEPT ![d] = [uploads[d] EXCEPT !.stage = "finalized", !.idle = 0,
                                                          !.announced = uploads[d].announced + 1]]
  /\ UNCHANGED <<attachments, r2, requests, sources>>

(***************************************************************************)
(* Reconciliation: one transaction marks what expired, then the gateway    *)
(* aborts and deletes key by key; an interrupted pass is repeated.         *)
(***************************************************************************)
Collects(u) ==
  /\ u.source = NoSource
  /\ \/ u.stage = "orphaned"
     \/ u.stage \in {"draft", "uploading"} /\ u.idle >= 1
     \/ u.stage = "finalized" /\ u.idle = 2

ReconcileUploads ==
  LET collected == {d \in Drafts : Collects(uploads[d])}
      keys == UNION {{KeyOf(d, a) : a \in Begun(d)} : d \in collected}
  IN /\ collected # {}
     /\ uploads' = [d \in Drafts |-> IF d \in collected
                                     THEN [uploads[d] EXCEPT !.stage = "orphaned"] ELSE uploads[d]]
     /\ Send([op |-> "collect", keys |-> keys])
     /\ UNCHANGED <<attachments, r2, sources>>

\* A fault: the object is deleted while its session stays open.
CollectWithoutAbort(r) ==
  /\ r \in requests /\ r.op = "collect"
  /\ \E k \in r.keys :
       /\ r2' = [r2 EXCEPT ![k].object = Nothing, ![k].collected = TRUE]
       /\ IF r.keys = {k} THEN Finish(r) ELSE Becomes(r, [r EXCEPT !.keys = @ \ {k}])
  /\ UNCHANGED <<uploads, attachments, sources>>

CollectObjects(r) ==
  /\ r \in requests /\ r.op = "collect"
  /\ \E k \in r.keys :
       /\ r2' = [r2 EXCEPT ![k] =
                   [r2[k] EXCEPT !.session = IF r2[k].session = "open" THEN "aborted" ELSE r2[k].session,
                                 !.object = Nothing, !.collected = TRUE]]
       /\ IF r.keys = {k} THEN Finish(r) ELSE Becomes(r, [r EXCEPT !.keys = @ \ {k}])
  /\ UNCHANGED <<uploads, attachments, sources>>

(***************************************************************************)
(* Acceptance: one transaction.  The replay decision precedes the gate.    *)
(***************************************************************************)
\* A fault: the gate does not look at the bindings.
GateWithoutBindings(d) ==
  \/ Begun(d) = {}
  \/ uploads[d].stage = "finalized" /\ Verified(d) = Begun(d)

AttachmentGate(d) ==
  \/ Begun(d) = {}
  \/ /\ uploads[d].stage = "finalized" /\ Begun(d) = uploads[d].declared
     /\ Verified(d) = Begun(d)
     /\ \A a \in Begun(d) : attachments[d][a].source = NoSource

AcceptedUnder(key) == {s \in DOMAIN sources : key # NoKey /\ sources[s].key = key}

\* A key that has a source is answered from it, same payload or not.
AcceptSource(d, key, text) ==
  /\ uploads[d].stage \in {"draft", "finalized"}
  /\ AcceptedUnder(key) = {}
  /\ AttachmentGate(d)
  /\ text # NoWords \/ Begun(d) # {}
  /\ \E s \in Sources \ DOMAIN sources :
       /\ \A t \in Sources \ DOMAIN sources : s <= t
       /\ sources' = [t \in DOMAIN sources \union {s} |->
                        IF t = s THEN [key |-> key, text |-> text, draft |-> d, media |-> Begun(d)]
                        ELSE sources[t]]
       /\ IF Begun(d) = {} THEN UNCHANGED <<attachments, uploads>>
          ELSE /\ attachments' = [attachments EXCEPT ![d] = [a \in Slots |->
                     IF a \in Begun(d) THEN [attachments[d][a] EXCEPT !.source = s]
                     ELSE attachments[d][a]]]
               /\ uploads' = [uploads EXCEPT ![d] = [uploads[d] EXCEPT !.source = s, !.idle = 0]]
  /\ UNCHANGED <<r2, requests>>

(* A request dies with its client, its isolate or its connection. *)
LoseRequest(r) ==
  /\ r \in requests
  /\ Finish(r)
  /\ UNCHANGED <<uploads, attachments, r2, sources>>

TimePasses ==
  /\ \E d \in Drafts :
       uploads[d].idle < 2 /\ uploads[d].stage \notin {"none", "orphaned"}
  /\ uploads' = [d \in Drafts |->
       IF uploads[d].stage \in {"none", "orphaned"} \/ uploads[d].idle = 2 THEN uploads[d]
       ELSE [uploads[d] EXCEPT !.idle = @ + 1]]
  /\ UNCHANGED <<attachments, r2, requests, sources>>

IntakeNext ==
  \/ \E d \in Drafts, declared \in SUBSET Slots : Prepare(d, declared)
  \/ \E d \in Drafts, a \in Slots, p \in Parts, c \in Contents : StreamPart(d, a, p, c)
  \/ \E d \in Drafts, a \in Slots : ReadManifest(d, a) \/ ReplayComplete(d, a)
  \/ \E d \in Drafts : FinalizeUpload(d)
  \/ \E d \in Drafts, key \in AcceptanceKeys \union {NoKey}, text \in Texts :
       AcceptSource(d, key, text)
  \/ \E r \in requests : Begin(r)
  \/ \E r \in requests : RecordPart(r)
  \/ \E r \in requests : CompleteAndVerify(r)
  \/ \E r \in requests : CompleteAttachment(r)
  \/ \E r \in requests : CollectObjects(r)
  \/ \E r \in requests : LoseRequest(r)
  \/ ReconcileUploads
  \/ TimePasses

IntakeSpec == IntakeInit /\ [][IntakeNext]_intakeVars

(***************************************************************************)
(* Properties                                                              *)
(***************************************************************************)
(* What an accepted source carries is in R2, as recorded: every attachment *)
(* bound to a source has an object whose parts and contents are those of   *)
(* its manifest, whatever stale part, stale completion or collection pass  *)
(* is still in flight.                                                     *)
AcceptedMediaStored ==
  \A s \in DOMAIN sources : \A a \in sources[s].media :
    LET d == sources[s].draft
        row == attachments[d][a]
    IN r2[KeyOf(d, a)].object = [p \in DOMAIN row.manifest |-> row.manifest[p].content]

(* Media belongs to one message: no two sources carry the same attachment, *)
(* and the upload and its attachments name the source that carries them.   *)
MediaBelongsToOneSource ==
  /\ \A s, t \in DOMAIN sources :
       s # t /\ sources[s].draft = sources[t].draft => sources[s].media \intersect sources[t].media = {}
  /\ \A s \in DOMAIN sources : sources[s].media # {} =>
       /\ uploads[sources[s].draft].source = s /\ uploads[sources[s].draft].stage = "finalized"
       /\ \A a \in sources[s].media : attachments[sources[s].draft][a].source = s

(* What was collected stays collected: once a pass has dealt with a key, no *)
(* request that read the ledger before it makes bytes appear there.        *)
CollectedStaysCollected == \A k \in ObjectKeys : r2[k].collected => r2[k].object = Nothing
=============================================================================
