--------------------------- MODULE Client_proofs ---------------------------
(***************************************************************************)
(* What the composer guarantees for every number of drafts, words, photos, *)
(* recordings, chunks, attachments and attempts, and whether or not the    *)
(* storage fails.                                                          *)
(***************************************************************************)
EXTENDS Capture, AppUpdate, FiniteSetTheorems, WellFoundedInduction, TLAPS

-----------------------------------------------------------------------------
(* The rows.                                                               *)

LEMMA FreshDraftType == \A d \in Drafts : FreshDraft(d) \in DraftRows /\ FreshDraft(d).id = d
BY CaptureNumbers DEF FreshDraft, DraftRows, NoRecording, Recordings, SendPhases

LEMMA PhaseChange ==
  ASSUME NEW row \in DraftRows, NEW p \in SendPhases
  PROVE  LET next == [row EXCEPT !.phase = p]
         IN next \in DraftRows /\ next.id = row.id /\ next.words = row.words
BY DEF DraftRows

LEMMA WordsChange ==
  ASSUME NEW row \in DraftRows, NEW w \in Words
  PROVE  LET next == [row EXCEPT !.words = w]
         IN next \in DraftRows /\ next.id = row.id /\ next.words = w
BY DEF DraftRows

LEMMA RecordingChange ==
  ASSUME NEW row \in DraftRows, NEW r \in Recordings
  PROVE  LET next == [row EXCEPT !.recording = r]
         IN next \in DraftRows /\ next.id = row.id /\ next.words = row.words
BY DEF DraftRows

LEMMA PhotosChange ==
  ASSUME NEW row \in DraftRows, NEW p \in Seq(Photos)
  PROVE  LET next == [row EXCEPT !.photos = p]
         IN next \in DraftRows /\ next.id = row.id /\ next.words = row.words
BY DEF DraftRows

LEMMA RowParts ==
  ASSUME NEW row \in DraftRows
  PROVE  /\ row.id \in Drafts /\ row.words \in Words /\ row.recording \in Recordings
         /\ row.photos \in Seq(Photos) /\ row.phase \in SendPhases
BY DEF DraftRows

LEMMA WithoutType ==
  ASSUME NEW photos \in Seq(Photos), NEW p
  PROVE  Without(photos, p) \in Seq(Photos)
<1>1. CASE \A n \in DOMAIN photos : photos[n] # p
  BY <1>1 DEF Without
<1>2. CASE ~ \A n \in DOMAIN photos : photos[n] # p
  <2> DEFINE gone == CHOOSE n \in DOMAIN photos : photos[n] = p
  <2>1. gone \in DOMAIN photos
    BY <1>2
  <2> HIDE DEF gone
  <2>2. Without(photos, p)
          = [n \in 1 .. Len(photos) - 1 |-> IF n < gone THEN photos[n] ELSE photos[n + 1]]
    BY <1>2 DEF Without, gone
  <2>3. gone \in 1 .. Len(photos) /\ Len(photos) \in Nat
    BY <2>1
  <2>4. \A n \in 1 .. Len(photos) - 1 : (IF n < gone THEN photos[n] ELSE photos[n + 1]) \in Photos
    BY <2>3
  <2>5. Len(photos) - 1 \in Nat
    BY <2>3
  <2> QED
    BY <2>2, <2>4, <2>5
<1> QED
  BY <1>1, <1>2

LEMMA ChangedType ==
  ASSUME NEW row \in DraftRows, NEW task \in Mutations
  PROVE  /\ Changed(row, task) \in DraftRows
         /\ Changed(row, task).id = row.id /\ Changed(row, task).words = row.words
<1> DEFINE heard(t) == [take |-> IF row.recording.take = 0 THEN t.take ELSE row.recording.take,
                        count |-> IF row.recording.count > t.chunk THEN row.recording.count ELSE t.chunk]
<1>0. row.recording \in Recordings /\ row.photos \in Seq(Photos)
  BY RowParts
<1>1. CASE task.kind = "append"
  <2>1. task \in [kind : {"append"}, take : 1 .. Takes, chunk : Chunks]
    BY <1>1 DEF Mutations
  <2>2. heard(task) \in Recordings
    BY <1>0, <2>1, CaptureNumbers DEF Recordings, Chunks
  <2>3. Changed(row, task) = [row EXCEPT !.recording = heard(task)]
    BY <1>1 DEF Changed
  <2> HIDE DEF heard
  <2> QED
    BY <2>2, <2>3, RecordingChange
<1>2. CASE task.kind = "discard"
  <2>1. NoRecording \in Recordings
    BY CaptureNumbers DEF Recordings, NoRecording
  <2> QED
    BY <1>2, <2>1, RecordingChange DEF Changed
<1>3. CASE task.kind = "add"
  <2>1. task.photo \in Photos
    BY <1>3 DEF Mutations
  <2>2. Append(row.photos, task.photo) \in Seq(Photos)
    BY <1>0, <2>1
  <2> QED
    BY <1>3, <2>2, PhotosChange DEF Changed
<1>4. CASE task.kind = "remove"
  <2>1. Without(row.photos, task.photo) \in Seq(Photos)
    BY <1>0, WithoutType
  <2> QED
    BY <1>4, <2>1, PhotosChange DEF Changed
<1>5. CASE task.kind \notin {"append", "discard", "add", "remove"}
  BY <1>5 DEF Changed
<1> QED
  BY <1>1, <1>2, <1>3, <1>4, <1>5

-----------------------------------------------------------------------------
(* The invariant.  A draft that was sent and neither given up nor accepted *)
(* is the one the tab shows and the one the storage holds; a mutation that *)
(* is under way is of the same draft, so that its save cannot bring an     *)
(* earlier one back.                                                       *)

DraftsAreDrawn ==
  /\ live.id <= drawn /\ stored.id <= drawn
  /\ turn.step # "idle" => turn.held.id <= drawn
  /\ asked \subseteq 1 .. drawn
TurnHolds ==
  /\ turn.step # "idle" => turn.held \in DraftRows
  /\ turn.step # "idle" => queue # << >> /\ Head(queue).kind \in BlobKinds
SendHolds ==
  /\ Sending => send.record \in DraftRows
  /\ Sending => send.record.id = live.id
  /\ \A a \in Slots : send.left[a] \subseteq 1 .. Len(send.material[a])
MicHolds == mic.state = "recording" => mic.take > 0
SentIsHeld ==
  turn.step # "idle" /\ (Sending \/ live.id \in asked) => turn.held.id = live.id
ReceiptIsReal == send.step \in {"clear", "next"} => server[live.id].source # Absent
LostOrKept ==
  \A d \in asked \ discarded :
    server[d].source # Absent \/ unwritten \/ (stored.id = d /\ live.id = d)
WordsRest == send.step = "read" => send.record.words = live.words
CaptureInv ==
  /\ DraftsAreDrawn /\ TurnHolds /\ SendHolds /\ MicHolds
  /\ SentIsHeld /\ ReceiptIsReal /\ LostOrKept /\ WordsRest

LEMMA NoSendType ==
  /\ NoSend \in Sends /\ NoSend.step = "none"
  /\ \A a \in Slots : NoSend.left[a] \subseteq 1 .. Len(NoSend.material[a])
<1>1. [a \in Slots |-> << >>] \in Materials
  BY CaptureNumbers DEF Materials
<1> QED
  BY <1>1, CaptureNumbers DEF NoSend, Sends

LEMMA NoTurnType == NoTurn \in Turns /\ NoTurn.step = "idle"
BY DEF NoTurn, Turns

LEMMA CaptureInvInit == CaptureInit => CaptureTypeOK /\ CaptureInv
<1> SUFFICES ASSUME CaptureInit PROVE CaptureTypeOK /\ CaptureInv
  OBVIOUS
<1>1. 1 \in Drafts /\ FreshDraft(1) \in DraftRows /\ FreshDraft(1).id = 1
  BY FreshDraftType, CaptureNumbers DEF Drafts
<1>2. NoUpload \in Uploads
  BY CaptureNumbers DEF NoUpload, Uploads, Undeclared, Slots, Heard, Contents
<1>3. blobs \in Blobs /\ mic \in Recorders /\ queue \in Seq(Mutations)
  BY CaptureNumbers DEF CaptureInit, Blobs, Recorders
<1>4. CaptureTypeOK
  BY <1>1, <1>2, <1>3, NoSendType, NoTurnType DEF CaptureInit, CaptureTypeOK
<1>5. CaptureInv
  BY <1>1, NoSendType, NoTurnType DEF CaptureInit, CaptureInv, DraftsAreDrawn, TurnHolds, SendHolds, MicHolds,
    SentIsHeld, ReceiptIsReal, LostOrKept, WordsRest, Sending
<1> QED
  BY <1>4, <1>5

LEMMA MutationRows ==
  /\ \A w \in Words : [kind |-> "flush", words |-> w] \in Mutations
  /\ \A k \in {"stop", "degrade", "discard"} : [kind |-> k] \in Mutations
  /\ \A q \in Photos : /\ [kind |-> "add", photo |-> q] \in Mutations
                        /\ [kind |-> "remove", photo |-> q] \in Mutations
  /\ \A t \in 1 .. Takes : /\ [kind |-> "start", take |-> t] \in Mutations
                            /\ \A c \in Chunks : [kind |-> "append", take |-> t, chunk |-> c] \in Mutations
BY DEF Mutations

LEMMA EnqueueKeeps ==
  ASSUME queue \in Seq(Mutations), NEW tasks \in Seq(Mutations), Enqueue(tasks)
  PROVE  /\ queue' \in Seq(Mutations)
         /\ queue # << >> => queue' # << >> /\ Head(queue') = Head(queue)
<1>1. queue' = queue \o tasks
  BY DEF Enqueue
<1> QED
  BY <1>1

LEMMA LeavesKeeps ==
  ASSUME queue \in Seq(Mutations), queue # << >>
  PROVE  /\ Tail(queue) \in Seq(Mutations) /\ Head(queue) \in Mutations
OBVIOUS

LEMMA FlushDueKeeps ==
  ASSUME CaptureTypeOK, CaptureInv, FlushDue
  PROVE  CaptureTypeOK' /\ CaptureInv'
<1>0. /\ queue' \in Seq(Mutations)
      /\ queue # << >> => queue' # << >> /\ Head(queue') = Head(queue)
  <2>1. << [kind |-> "flush", words |-> lag] >> \in Seq(Mutations)
    BY MutationRows DEF CaptureTypeOK, FlushDue
  <2> QED
    BY <2>1, EnqueueKeeps DEF CaptureTypeOK, FlushDue
<1>1. CaptureTypeOK'
  BY <1>0 DEF FlushDue, CaptureTypeOK
<1>2. CaptureInv'
  BY <1>0 DEF FlushDue, CaptureTypeOK, CaptureInv, DraftsAreDrawn, TurnHolds, SendHolds, MicHolds, SentIsHeld,
    ReceiptIsReal, LostOrKept, WordsRest, Sending
<1> QED
  BY <1>1, <1>2

LEMMA PageHidesKeeps ==
  ASSUME CaptureTypeOK, CaptureInv, PageHides
  PROVE  CaptureTypeOK' /\ CaptureInv'
<1>1. CaptureTypeOK'
  BY CaptureNumbers DEF PageHides, CaptureTypeOK
<1>2. CaptureInv'
  BY CaptureNumbers DEF PageHides, CaptureTypeOK, CaptureInv, DraftsAreDrawn, TurnHolds, SendHolds, MicHolds, SentIsHeld,
    ReceiptIsReal, LostOrKept, WordsRest, Sending
<1> QED
  BY <1>1, <1>2

LEMMA StartRecordingKeeps ==
  ASSUME CaptureTypeOK, CaptureInv, StartRecording
  PROVE  CaptureTypeOK' /\ CaptureInv'
<1>0. /\ queue' \in Seq(Mutations)
      /\ queue # << >> => queue' # << >> /\ Head(queue') = Head(queue)
  <2>1. << [kind |-> "discard"] >> \in Seq(Mutations)
    BY MutationRows
  <2> QED
    BY <2>1, EnqueueKeeps DEF CaptureTypeOK, StartRecording
<1>m. mic' \in Recorders /\ MicHolds'
  <2>1. mic \in Recorders /\ MicHolds
    BY DEF CaptureTypeOK, CaptureInv
  <2> QED
    BY <2>1, CaptureNumbers DEF StartRecording, Recorders, MicHolds
<1>1. CaptureTypeOK'
  BY <1>0, <1>m DEF StartRecording, CaptureTypeOK
<1>2. CaptureInv'
  BY <1>0, <1>m DEF StartRecording, CaptureTypeOK, CaptureInv, DraftsAreDrawn, TurnHolds, SendHolds, SentIsHeld,
    ReceiptIsReal, LostOrKept, WordsRest, Sending
<1> QED
  BY <1>1, <1>2

LEMMA RecordingDroppedKeeps ==
  ASSUME CaptureTypeOK, CaptureInv, RecordingDropped
  PROVE  CaptureTypeOK' /\ CaptureInv'
<1>m. mic' \in Recorders /\ MicHolds'
  <2>1. mic \in Recorders /\ MicHolds
    BY DEF CaptureTypeOK, CaptureInv
  <2> QED
    BY <2>1, CaptureNumbers DEF RecordingDropped, Recorders, MicHolds
<1>1. CaptureTypeOK'
  BY <1>m DEF RecordingDropped, CaptureTypeOK
<1>2. CaptureInv'
  BY <1>m DEF RecordingDropped, CaptureTypeOK, CaptureInv, DraftsAreDrawn, TurnHolds, SendHolds, SentIsHeld,
    ReceiptIsReal, LostOrKept, WordsRest, Sending
<1> QED
  BY <1>1, <1>2

LEMMA RecorderStartsKeeps ==
  ASSUME CaptureTypeOK, CaptureInv, RecorderStarts
  PROVE  CaptureTypeOK' /\ CaptureInv'
<1>0. /\ queue' \in Seq(Mutations)
      /\ queue # << >> => queue' # << >> /\ Head(queue') = Head(queue)
  <2>1. CASE queue' = queue
    BY <2>1 DEF CaptureTypeOK
  <2>2. CASE mic.take < Takes /\ Enqueue(<< [kind |-> "start", take |-> mic.take + 1] >>)
    <3>1. mic.take + 1 \in 1 .. Takes
      BY <2>2, CaptureNumbers DEF CaptureTypeOK, Recorders
    <3>2. << [kind |-> "start", take |-> mic.take + 1] >> \in Seq(Mutations)
      BY <3>1, MutationRows
    <3> QED
      BY <3>2, <2>2, EnqueueKeeps DEF CaptureTypeOK
  <2> QED
    BY <2>1, <2>2 DEF RecorderStarts
<1>m. mic' \in Recorders /\ MicHolds'
  <2>1. mic \in Recorders /\ MicHolds
    BY DEF CaptureTypeOK, CaptureInv
  <2> QED
    BY <2>1, CaptureNumbers DEF RecorderStarts, Recorders, MicHolds
<1>1. CaptureTypeOK'
  BY <1>0, <1>m DEF RecorderStarts, CaptureTypeOK
<1>2. CaptureInv'
  BY <1>0, <1>m DEF RecorderStarts, CaptureTypeOK, CaptureInv, DraftsAreDrawn, TurnHolds, SendHolds, SentIsHeld,
    ReceiptIsReal, LostOrKept, WordsRest, Sending
<1> QED
  BY <1>1, <1>2

LEMMA ChunkArrivesKeeps ==
  ASSUME CaptureTypeOK, CaptureInv, ChunkArrives
  PROVE  CaptureTypeOK' /\ CaptureInv'
<1>n. NextChunk \in Mutations
  <2>1. mic.take \in 1 .. Takes /\ mic.chunk + 1 \in Chunks
    BY CaptureNumbers DEF CaptureTypeOK, CaptureInv, MicHolds, Recorders, Chunks, ChunkArrives
  <2> QED
    BY <2>1, MutationRows DEF NextChunk
<1>0. /\ queue' \in Seq(Mutations)
      /\ queue # << >> => queue' # << >> /\ Head(queue') = Head(queue)
  <2>1. << NextChunk >> \in Seq(Mutations)
    BY <1>n
  <2> QED
    BY <2>1, EnqueueKeeps DEF CaptureTypeOK, ChunkArrives
<1>m. mic' \in Recorders /\ MicHolds'
  <2>1. mic \in Recorders /\ MicHolds
    BY DEF CaptureTypeOK, CaptureInv
  <2> QED
    BY <2>1, CaptureNumbers DEF ChunkArrives, Recorders, MicHolds
<1>1. CaptureTypeOK'
  BY <1>0, <1>m DEF ChunkArrives, CaptureTypeOK
<1>2. CaptureInv'
  BY <1>0, <1>m DEF ChunkArrives, CaptureTypeOK, CaptureInv, DraftsAreDrawn, TurnHolds, SendHolds, SentIsHeld,
    ReceiptIsReal, LostOrKept, WordsRest, Sending
<1> QED
  BY <1>1, <1>2

LEMMA StopRecordingKeeps ==
  ASSUME CaptureTypeOK, CaptureInv, StopRecording
  PROVE  CaptureTypeOK' /\ CaptureInv'
<1>n. NextChunk \in Mutations
  <2>1. mic.take \in 1 .. Takes /\ mic.chunk + 1 \in Chunks
    BY CaptureNumbers DEF CaptureTypeOK, CaptureInv, MicHolds, Recorders, Chunks, StopRecording
  <2> QED
    BY <2>1, MutationRows DEF NextChunk
<1>0. /\ queue' \in Seq(Mutations)
      /\ queue # << >> => queue' # << >> /\ Head(queue') = Head(queue)
  <2>1. << NextChunk, [kind |-> "stop"] >> \in Seq(Mutations)
    BY <1>n, MutationRows
  <2> QED
    BY <2>1, EnqueueKeeps DEF CaptureTypeOK, StopRecording
<1>m. mic' \in Recorders /\ MicHolds'
  <2>1. mic \in Recorders /\ MicHolds
    BY DEF CaptureTypeOK, CaptureInv
  <2> QED
    BY <2>1, CaptureNumbers DEF StopRecording, Recorders, MicHolds
<1>1. CaptureTypeOK'
  BY <1>0, <1>m DEF StopRecording, CaptureTypeOK
<1>2. CaptureInv'
  BY <1>0, <1>m DEF StopRecording, CaptureTypeOK, CaptureInv, DraftsAreDrawn, TurnHolds, SendHolds, SentIsHeld,
    ReceiptIsReal, LostOrKept, WordsRest, Sending
<1> QED
  BY <1>1, <1>2

LEMMA DiscardRecordingKeeps ==
  ASSUME CaptureTypeOK, CaptureInv, DiscardRecording
  PROVE  CaptureTypeOK' /\ CaptureInv'
<1>0. /\ queue' \in Seq(Mutations)
      /\ queue # << >> => queue' # << >> /\ Head(queue') = Head(queue)
  <2>1. << [kind |-> "discard"] >> \in Seq(Mutations)
    BY MutationRows
  <2> QED
    BY <2>1, EnqueueKeeps DEF CaptureTypeOK, DiscardRecording
<1>m. mic' \in Recorders /\ MicHolds'
  <2>1. mic \in Recorders /\ MicHolds
    BY DEF CaptureTypeOK, CaptureInv
  <2> QED
    BY <2>1, CaptureNumbers DEF DiscardRecording, Recorders, MicHolds
<1>1. CaptureTypeOK'
  BY <1>0, <1>m DEF DiscardRecording, CaptureTypeOK
<1>2. CaptureInv'
  BY <1>0, <1>m DEF DiscardRecording, CaptureTypeOK, CaptureInv, DraftsAreDrawn, TurnHolds, SendHolds, SentIsHeld,
    ReceiptIsReal, LostOrKept, WordsRest, Sending
<1> QED
  BY <1>1, <1>2

LEMMA AddPhotoKeeps ==
  ASSUME CaptureTypeOK, CaptureInv, NEW p \in Photos, AddPhoto(p)
  PROVE  CaptureTypeOK' /\ CaptureInv'
<1>0. /\ queue' \in Seq(Mutations)
      /\ queue # << >> => queue' # << >> /\ Head(queue') = Head(queue)
  <2>0. [kind |-> "add", photo |-> p] \in Mutations
    BY MutationRows
  <2>1. << [kind |-> "add", photo |-> p] >> \in Seq(Mutations)
    BY <2>0
  <2> QED
    BY <2>1, EnqueueKeeps DEF CaptureTypeOK, AddPhoto
<1>1. CaptureTypeOK'
  BY <1>0 DEF AddPhoto, CaptureTypeOK
<1>2. CaptureInv'
  BY <1>0 DEF AddPhoto, CaptureTypeOK, CaptureInv, DraftsAreDrawn, TurnHolds, SendHolds, MicHolds, SentIsHeld,
    ReceiptIsReal, LostOrKept, WordsRest, Sending
<1> QED
  BY <1>1, <1>2

LEMMA RemovePhotoKeeps ==
  ASSUME CaptureTypeOK, CaptureInv, NEW p \in Photos, RemovePhoto(p)
  PROVE  CaptureTypeOK' /\ CaptureInv'
<1>0. /\ queue' \in Seq(Mutations)
      /\ queue # << >> => queue' # << >> /\ Head(queue') = Head(queue)
  <2>0. [kind |-> "remove", photo |-> p] \in Mutations
    BY MutationRows
  <2>1. << [kind |-> "remove", photo |-> p] >> \in Seq(Mutations)
    BY <2>0
  <2> QED
    BY <2>1, EnqueueKeeps DEF CaptureTypeOK, RemovePhoto
<1>1. CaptureTypeOK'
  BY <1>0 DEF RemovePhoto, CaptureTypeOK
<1>2. CaptureInv'
  BY <1>0 DEF RemovePhoto, CaptureTypeOK, CaptureInv, DraftsAreDrawn, TurnHolds, SendHolds, MicHolds, SentIsHeld,
    ReceiptIsReal, LostOrKept, WordsRest, Sending
<1> QED
  BY <1>1, <1>2

LEMMA EditTextKeeps ==
  ASSUME CaptureTypeOK, CaptureInv, NEW w \in Words, EditText(w)
  PROVE  CaptureTypeOK' /\ CaptureInv'
<1>0. /\ live' \in DraftRows /\ live'.id = live.id /\ live'.words = w
  BY WordsChange DEF EditText, CaptureTypeOK
<1>1. CaptureTypeOK'
  BY <1>0 DEF EditText, CaptureTypeOK
<1>2. CaptureInv'
  BY <1>0 DEF EditText, CaptureTypeOK, CaptureInv, DraftsAreDrawn, TurnHolds, SendHolds, MicHolds, SentIsHeld,
    ReceiptIsReal, LostOrKept, WordsRest, Sending
<1> QED
  BY <1>1, <1>2

LEMMA ReopenKeeps ==
  ASSUME CaptureTypeOK, CaptureInv, Reopen
  PROVE  CaptureTypeOK' /\ CaptureInv'
<1>m. mic' \in Recorders /\ MicHolds'
  <2>1. mic \in Recorders /\ MicHolds
    BY DEF CaptureTypeOK, CaptureInv
  <2>2. mic' = [state |-> "idle", take |-> mic.take, chunk |-> 0]
    BY <2>1 DEF Reopen, Recorders
  <2> QED
    BY <2>1, <2>2, CaptureNumbers DEF Recorders, MicHolds
<1>t. queue' = << >> /\ queue' \in Seq(Mutations) /\ turn' \in Turns /\ turn'.step = "idle"
  BY NoTurnType DEF Reopen
<1>1. CaptureTypeOK'
  BY <1>m, <1>t, NoSendType DEF Reopen, CaptureTypeOK
<1>2. CaptureInv'
  BY <1>m, <1>t, NoSendType DEF Reopen, CaptureTypeOK, CaptureInv, DraftsAreDrawn, TurnHolds, SendHolds, SentIsHeld,
    ReceiptIsReal, LostOrKept, WordsRest, Sending
<1> QED
  BY <1>1, <1>2

-----------------------------------------------------------------------------
(* The mutations.                                                          *)

ShownTypeOK == shown \in [alarm : BOOLEAN, sent : BOOLEAN]

LEMMA SaveDraftWrites ==
  ASSUME CaptureTypeOK, NEW row \in DraftRows, SaveDraft(row)
  PROVE  /\ stored' \in DraftRows /\ ShownTypeOK' /\ unwritten' \in BOOLEAN
         /\ stored' = row \/ (stored' = stored /\ unwritten')
         /\ unwritten => unwritten'
BY DEF CaptureTypeOK, SaveDraft, ShownTypeOK

LEMMA BreaksKeeps ==
  ASSUME CaptureTypeOK, queue # << >>, Breaks(Head(queue))
  PROVE  /\ queue' \in Seq(Mutations) /\ turn' \in Turns /\ turn'.step = "idle"
         /\ ShownTypeOK' /\ unwritten' = TRUE
<1>1. Tail(queue) \in Seq(Mutations)
  BY LeavesKeeps DEF CaptureTypeOK
<1>2. [kind |-> "degrade"] \in Mutations
  BY MutationRows
<1>3. Append(Tail(queue), [kind |-> "degrade"]) \in Seq(Mutations)
  BY <1>1, <1>2
<1> QED
  BY <1>1, <1>3, NoTurnType DEF Breaks, CaptureTypeOK, ShownTypeOK

(* What a step of the queue, of the composer or of the storage may do: the *)
(* live record stays of its draft and keeps its words, and the storage     *)
(* holds what it held or the live draft.                                   *)
LEMMA RecordStepKeeps ==
  ASSUME CaptureTypeOK, CaptureInv,
         live' \in DraftRows, live'.id = live.id, live'.words = live.words,
         stored' \in DraftRows, ShownTypeOK', unwritten' \in BOOLEAN, unwritten => unwritten',
         stored'.id <= drawn,
         live.id \in asked /\ stored.id = live.id => stored'.id = live.id \/ unwritten',
         blobs' \in Blobs, queue' \in Seq(Mutations), turn' \in Turns, TurnHolds',
         turn'.step # "idle" => turn'.held.id <= drawn /\ (turn'.held.id = live.id \/ (turn'.held = turn.held /\ turn.step # "idle")),
         UNCHANGED <<drawn, lag, mic, send, server, asked, discarded>>
  PROVE  CaptureTypeOK' /\ CaptureInv'
<1>1. CaptureTypeOK'
  BY DEF CaptureTypeOK, ShownTypeOK
<1>2. DraftsAreDrawn' /\ SendHolds' /\ MicHolds' /\ ReceiptIsReal' /\ WordsRest'
  BY DEF CaptureInv, DraftsAreDrawn, SendHolds, MicHolds, ReceiptIsReal, WordsRest, Sending
<1>3. SentIsHeld'
  BY DEF CaptureInv, SentIsHeld, Sending
<1>4. LostOrKept'
  BY DEF CaptureInv, LostOrKept
<1> QED
  BY <1>1, <1>2, <1>3, <1>4 DEF CaptureInv

LEMMA SelectScopeKeeps ==
  ASSUME CaptureTypeOK, CaptureInv, SelectScope
  PROVE  CaptureTypeOK' /\ CaptureInv'
<1>1. live' = live /\ SaveDraft(live)
  BY DEF SelectScope, Persist
<1>2. live \in DraftRows
  BY DEF CaptureTypeOK
<1>3. live.id <= drawn /\ stored.id <= drawn /\ TurnHolds
      /\ (turn.step # "idle" => turn.held.id <= drawn)
  BY DEF CaptureInv, DraftsAreDrawn
<1>4. TurnHolds'
  BY <1>3 DEF TurnHolds, SelectScope
<1> QED
  BY <1>1, <1>2, <1>3, <1>4, SaveDraftWrites, RecordStepKeeps DEF SelectScope, CaptureTypeOK

LEMMA SaveMutationKeeps ==
  ASSUME CaptureTypeOK, CaptureInv, SaveMutation
  PROVE  CaptureTypeOK' /\ CaptureInv'
<1>0. /\ turn.step = "written" /\ turn.held \in DraftRows /\ queue # << >>
      /\ Head(queue) \in Mutations /\ Head(queue).kind \in BlobKinds
      /\ turn.held.id <= drawn /\ stored.id <= drawn /\ live.id <= drawn
  BY LeavesKeeps DEF CaptureTypeOK, CaptureInv, TurnHolds, DraftsAreDrawn, SaveMutation
<1>1. CASE Breaks(Head(queue)) /\ UNCHANGED stored
  <2>1. TurnHolds'
    BY <1>0, <1>1, BreaksKeeps DEF TurnHolds
  <2> QED
    BY <1>0, <1>1, <2>1, BreaksKeeps, RecordStepKeeps DEF SaveMutation, CaptureTypeOK
<1>2. CASE /\ stored' = Changed(turn.held, Head(queue))
           /\ turn' = [turn EXCEPT !.step = "saved"]
           /\ UNCHANGED <<queue, shown, unwritten>>
  <2>1. stored' \in DraftRows /\ stored'.id = turn.held.id
    BY <1>0, <1>2, ChangedType
  <2>2. turn' \in Turns /\ turn'.step = "saved" /\ turn'.held = turn.held
    BY <1>0, <1>2 DEF CaptureTypeOK, Turns
  <2>3. TurnHolds'
    BY <1>0, <1>2, <2>2 DEF TurnHolds
  <2>4. live.id \in asked => stored'.id = live.id
    BY <1>0, <2>1 DEF CaptureInv, SentIsHeld
  <2> QED
    BY <1>0, <1>2, <2>1, <2>2, <2>3, <2>4, RecordStepKeeps DEF SaveMutation, CaptureTypeOK, ShownTypeOK
<1> QED
  BY <1>1, <1>2 DEF SaveMutation

LEMMA OverlayType ==
  ASSUME CaptureTypeOK, CaptureInv, turn.step # "idle"
  PROVE  LET next == Overlay(Head(queue))
         IN next \in DraftRows /\ next.id = live.id /\ next.words = live.words
<1> DEFINE changed == Changed(turn.held, Head(queue))
<1>1. changed \in DraftRows
  BY ChangedType, LeavesKeeps DEF CaptureTypeOK, CaptureInv, TurnHolds
<1> HIDE DEF changed
<1>2. changed.recording \in Recordings /\ changed.photos \in Seq(Photos) /\ live \in DraftRows
  BY <1>1, RowParts DEF CaptureTypeOK
<1>3. \/ Overlay(Head(queue)) = [live EXCEPT !.recording = changed.recording]
      \/ Overlay(Head(queue)) = [live EXCEPT !.photos = changed.photos]
  BY DEF Overlay, changed
<1>4. CASE Overlay(Head(queue)) = [live EXCEPT !.recording = changed.recording]
  BY <1>2, <1>4, RecordingChange
<1>5. CASE Overlay(Head(queue)) = [live EXCEPT !.photos = changed.photos]
  BY <1>2, <1>5, PhotosChange
<1> QED
  BY <1>3, <1>4, <1>5

LEMMA EndMutationKeeps ==
  ASSUME CaptureTypeOK, CaptureInv, EndMutation
  PROVE  CaptureTypeOK' /\ CaptureInv'
<1>1. turn.step # "idle" /\ queue # << >>
  BY DEF EndMutation, CaptureInv, TurnHolds
<1>2. live' \in DraftRows /\ live'.id = live.id /\ live'.words = live.words
  BY <1>1, OverlayType DEF EndMutation
<1>3. queue' \in Seq(Mutations) /\ turn' \in Turns /\ turn'.step = "idle"
  BY <1>1, LeavesKeeps, NoTurnType DEF EndMutation, Leaves, CaptureTypeOK
<1>4. stored.id <= drawn
  BY DEF CaptureInv, DraftsAreDrawn
<1>5. TurnHolds'
  BY <1>3 DEF TurnHolds
<1> QED
  BY <1>2, <1>3, <1>4, <1>5, RecordStepKeeps DEF EndMutation, CaptureTypeOK, ShownTypeOK

LEMMA TouchBlobsType ==
  ASSUME CaptureTypeOK, NEW task \in Mutations, task.kind \in BlobKinds, NEW row
  PROVE  TouchBlobs(task, row) \in Blobs
<1>0. blobs \in Blobs
  BY DEF CaptureTypeOK
<1>1. CASE task.kind = "append"
  <2>1. task.take \in 1 .. Takes /\ task.chunk \in Chunks
    BY <1>1 DEF Mutations
  <2> QED
    BY <1>0, <1>1, <2>1, CaptureNumbers DEF TouchBlobs, Blobs
<1>2. CASE task.kind = "discard"
  BY <1>0, <1>2, CaptureNumbers DEF TouchBlobs, Blobs
<1>3. CASE task.kind \in {"add", "remove"}
  <2>1. task.photo \in Photos
    BY <1>3 DEF Mutations
  <2> QED
    BY <1>0, <1>3, <2>1 DEF TouchBlobs, Blobs
<1> QED
  BY <1>1, <1>2, <1>3 DEF BlobKinds

LEMMA BeginMutationKeeps ==
  ASSUME CaptureTypeOK, CaptureInv, BeginMutation
  PROVE  CaptureTypeOK' /\ CaptureInv'
<1> DEFINE task == Head(queue)
<1>0. /\ queue # << >> /\ turn.step = "idle" /\ task \in Mutations
      /\ live \in DraftRows /\ live.id <= drawn /\ stored.id <= drawn
  BY LeavesKeeps DEF CaptureTypeOK, CaptureInv, DraftsAreDrawn, BeginMutation
<1>f. UNCHANGED <<drawn, lag, mic, send, server, asked, discarded>> /\ blobs \in Blobs
  BY DEF BeginMutation, CaptureTypeOK
<1>1. ASSUME Leaves
      PROVE  queue' \in Seq(Mutations) /\ turn' \in Turns /\ turn'.step = "idle" /\ TurnHolds'
  BY <1>0, <1>1, LeavesKeeps, NoTurnType DEF Leaves, CaptureTypeOK, TurnHolds
<1>2. CASE /\ task.kind = "start"
           /\ Persist([live EXCEPT !.recording = [take |-> task.take, count |-> 0]])
           /\ Leaves /\ UNCHANGED blobs
  <2>1. [take |-> task.take, count |-> 0] \in Recordings
    BY <1>0, <1>2, CaptureNumbers DEF Mutations, Recordings
  <2>2. live' \in DraftRows /\ live'.id = live.id /\ live'.words = live.words /\ SaveDraft(live')
    BY <1>0, <1>2, <2>1, RecordingChange DEF Persist
  <2>3. stored' \in DraftRows /\ ShownTypeOK' /\ unwritten' \in BOOLEAN
        /\ (stored' = live' \/ (stored' = stored /\ unwritten')) /\ (unwritten => unwritten')
    BY <2>2, SaveDraftWrites
  <2>4. blobs' = blobs /\ Leaves
    BY <1>2
  <2> QED
    BY <1>0, <1>f, <1>1, <2>2, <2>3, <2>4, RecordStepKeeps
<1>3. CASE Persist(live) /\ Leaves /\ UNCHANGED blobs
  BY <1>0, <1>1, <1>3, SaveDraftWrites, RecordStepKeeps DEF BeginMutation, CaptureTypeOK, Persist
<1>4. CASE Leaves /\ UNCHANGED <<live, stored, blobs, shown, unwritten>>
  BY <1>0, <1>1, <1>4, RecordStepKeeps DEF BeginMutation, CaptureTypeOK, ShownTypeOK
<1>5. CASE /\ task.kind \in BlobKinds
           /\ blobs' = TouchBlobs(task, live)
           /\ turn' = [step |-> "written", held |-> live]
           /\ UNCHANGED <<queue, shown, unwritten, live, stored>>
  <2>1. blobs' \in Blobs
    BY <1>0, <1>5, TouchBlobsType
  <2>2. turn' \in Turns /\ turn'.held = live /\ TurnHolds'
    BY <1>0, <1>5 DEF Turns, TurnHolds
  <2> QED
    BY <1>0, <1>5, <2>1, <2>2, RecordStepKeeps DEF BeginMutation, CaptureTypeOK, ShownTypeOK
<1>6. CASE Breaks(task) /\ UNCHANGED <<blobs, live, stored>>
  <2>1. TurnHolds'
    BY <1>0, <1>6, BreaksKeeps DEF TurnHolds
  <2> QED
    BY <1>0, <1>6, <2>1, BreaksKeeps, RecordStepKeeps DEF BeginMutation, CaptureTypeOK
<1> QED
  BY <1>2, <1>3, <1>4, <1>5, <1>6 DEF BeginMutation

-----------------------------------------------------------------------------
(* The send.  Whatever a call brings, an answer or none, the live record   *)
(* stays of its draft with its words, and the storage holds what it held   *)
(* or the live draft.                                                      *)

CallEnds ==
  /\ live' \in DraftRows /\ live'.id = live.id /\ live'.words = live.words
  /\ stored' \in DraftRows /\ stored'.id \in {stored.id, live.id}
  /\ ShownTypeOK' /\ unwritten' \in BOOLEAN /\ (unwritten => unwritten')
  /\ send' \in Sends /\ SendHolds' /\ send'.step # "read"

CallFrame == UNCHANGED <<drawn, blobs, queue, turn, lag, mic, asked, discarded>>

Keeps(before, after) ==
  \A d \in Drafts : before[d].source # Absent => after[d].source # Absent

LEMMA CallKeeps ==
  ASSUME CaptureTypeOK, CaptureInv, Sending, CallEnds, CallFrame,
         server' \in [Drafts -> Uploads], Keeps(server, server'), ReceiptIsReal'
  PROVE  CaptureTypeOK' /\ CaptureInv'
<1>1. CaptureTypeOK'
  BY DEF CaptureTypeOK, CallEnds, CallFrame, ShownTypeOK
<1>2. DraftsAreDrawn' /\ TurnHolds' /\ SendHolds' /\ MicHolds' /\ WordsRest'
  BY DEF CaptureInv, DraftsAreDrawn, TurnHolds, MicHolds, WordsRest, CallEnds, CallFrame
<1>3. SentIsHeld'
  BY DEF CaptureInv, SentIsHeld, CallEnds, CallFrame
<1>4. LostOrKept'
  <2> SUFFICES ASSUME NEW d \in asked \ discarded
               PROVE  server'[d].source # Absent \/ unwritten' \/ (stored'.id = d /\ live'.id = d)
    BY DEF LostOrKept, CallFrame
  <2>1. server[d].source # Absent \/ unwritten \/ (stored.id = d /\ live.id = d)
    BY DEF CaptureInv, LostOrKept
  <2>2. d \in Drafts
    BY DEF CaptureTypeOK
  <2> QED
    BY <2>1, <2>2 DEF CallEnds, Keeps
<1> QED
  BY <1>1, <1>2, <1>3, <1>4 DEF CaptureInv

LEMMA SendRows ==
  ASSUME CaptureTypeOK, CaptureInv, Sending
  PROVE  /\ send \in Sends /\ SendHolds /\ send.record \in DraftRows /\ send.record.id = live.id
         /\ send.record.id \in Drafts /\ Upload \in Uploads /\ live \in DraftRows
BY RowParts DEF CaptureTypeOK, CaptureInv, SendHolds, Upload

LEMMA QuietEnds ==
  ASSUME CaptureTypeOK, CaptureInv, UNCHANGED <<live, stored, shown, unwritten>>,
         send' \in Sends, SendHolds', send'.step # "read"
  PROVE  CallEnds
BY DEF CaptureTypeOK, CallEnds, ShownTypeOK

LEMMA SendFailsEnds ==
  ASSUME CaptureTypeOK, CaptureInv, SendFails
  PROVE  CallEnds /\ send'.step = "none"
<1> DEFINE phase == IF live.phase = "accepting" THEN live.phase ELSE "uploading"
<1>1. live \in DraftRows
  BY DEF CaptureTypeOK
<1>2. phase \in SendPhases
  BY <1>1, RowParts DEF SendPhases
<1>3. live' = [live EXCEPT !.phase = phase] /\ SaveDraft(live')
  BY <1>1 DEF SendFails, Persist, DraftRows
<1> HIDE DEF phase
<1>4. live' \in DraftRows /\ live'.id = live.id /\ live'.words = live.words
  BY <1>1, <1>2, <1>3, PhaseChange
<1>5. /\ stored' \in DraftRows /\ ShownTypeOK' /\ unwritten' \in BOOLEAN
      /\ stored' = live' \/ (stored' = stored /\ unwritten')
      /\ unwritten => unwritten'
  BY <1>3, <1>4, SaveDraftWrites
<1>6. send' = NoSend
  BY DEF SendFails
<1>7. send' \in Sends /\ send'.step = "none" /\ SendHolds'
  BY <1>6, NoSendType DEF SendHolds, Sending
<1> QED
  BY <1>4, <1>5, <1>7 DEF CallEnds

LEMMA UnansweredEnds ==
  ASSUME CaptureTypeOK, CaptureInv, Sending, send.step # "read", Unanswered
  PROVE  CallEnds /\ send'.step \in {"none", send.step}
<1>1. CASE SendFails
  BY <1>1, SendFailsEnds
<1>2. CASE /\ send.tries < Attempts /\ send' = [send EXCEPT !.tries = @ + 1]
           /\ UNCHANGED <<live, stored, shown, unwritten>>
  <2>1. send \in Sends /\ SendHolds
    BY SendRows
  <2>2. send' \in Sends /\ send'.step = send.step /\ send'.record = send.record
        /\ send'.left = send.left /\ send'.material = send.material
    BY <1>2, <2>1, CaptureNumbers DEF Sends
  <2>3. SendHolds'
    BY <1>2, <2>1, <2>2 DEF SendHolds, Sending
  <2> QED
    BY <1>2, <2>2, <2>3, QuietEnds
<1> QED
  BY <1>1, <1>2 DEF Unanswered

LEMMA MakesEnds ==
  ASSUME CaptureTypeOK, CaptureInv, Sending, NEW calls \in Sends, Makes(calls),
         calls.step \notin {"none", "read"}, calls.record = send.record,
         \A a \in Slots : calls.left[a] \subseteq 1 .. Len(calls.material[a])
  PROVE  /\ send' \in Sends /\ send'.step = calls.step /\ send'.step # "read"
         /\ live'.id = live.id => SendHolds'
<1>1. send' = [calls EXCEPT !.tries = 1]
  BY DEF Makes
<1>2. send' \in Sends /\ send'.step = calls.step /\ send'.record = calls.record
      /\ send'.left = calls.left /\ send'.material = calls.material
  BY <1>1, CaptureNumbers DEF Sends
<1> QED
  BY <1>2, SendRows DEF SendHolds, Sending

LEMMA ServesKeeps ==
  ASSUME CaptureTypeOK, CaptureInv, Sending, NEW row \in Uploads, Serves(row),
         Upload.source # Absent => row.source # Absent
  PROVE  /\ server' \in [Drafts -> Uploads] /\ Keeps(server, server')
         /\ server'[live.id] = row
<1>1. server' = [server EXCEPT ![send.record.id] = row] /\ server \in [Drafts -> Uploads]
  BY DEF Serves, CaptureTypeOK
<1>2. send.record.id \in Drafts /\ send.record.id = live.id
  BY SendRows
<1> QED
  BY <1>1, <1>2 DEF Keeps, Upload

LEMMA ServerRests ==
  ASSUME CaptureTypeOK, UNCHANGED server
  PROVE  server' \in [Drafts -> Uploads] /\ Keeps(server, server')
BY DEF CaptureTypeOK, Keeps

LEMMA NotYetReceived ==
  ASSUME send'.step \notin {"clear", "next"}
  PROVE  ReceiptIsReal'
BY DEF ReceiptIsReal

LEMMA AcceptsEnds ==
  ASSUME CaptureTypeOK, CaptureInv, Sending, Accepts(send)
  PROVE  CallEnds /\ send'.step = "accept"
<1>1. send \in Sends /\ SendHolds /\ live \in DraftRows
  BY SendRows
<1>2. [send EXCEPT !.step = "accept"] \in Sends
  BY <1>1 DEF Sends
<1> DEFINE calls == [send EXCEPT !.step = "accept"]
<1>3. calls \in Sends /\ calls.step = "accept" /\ calls.record = send.record
      /\ calls.left = send.left /\ calls.material = send.material /\ Makes(calls)
  BY <1>1, <1>2 DEF Sends, Accepts
<1> HIDE DEF calls
<1>4. /\ send' \in Sends /\ send'.step = "accept"
      /\ live'.id = live.id => SendHolds'
  BY <1>1, <1>3, MakesEnds DEF SendHolds
<1>5. live' = [live EXCEPT !.phase = "accepting"] /\ SaveDraft(live')
  BY DEF Accepts, Persist
<1>6. "accepting" \in SendPhases
  BY DEF SendPhases
<1>7. live' \in DraftRows /\ live'.id = live.id /\ live'.words = live.words
  BY <1>1, <1>5, <1>6, PhaseChange
<1>8. /\ stored' \in DraftRows /\ ShownTypeOK' /\ unwritten' \in BOOLEAN
      /\ stored' = live' \/ (stored' = stored /\ unwritten')
      /\ unwritten => unwritten'
  BY <1>5, <1>7, SaveDraftWrites
<1> QED
  BY <1>4, <1>7, <1>8 DEF CallEnds

LEMMA AssembledType ==
  ASSUME CaptureTypeOK, NEW row \in DraftRows, Readable(row)
  PROVE  Assembled(row) \in Materials
<1> DEFINE of(a) == IF a = 0 THEN [n \in 1 .. row.recording.count |-> blobs.chunks[n]]
                    ELSE IF a \in DOMAIN row.photos THEN <<row.photos[a]>> ELSE << >>
<1>1. row.recording.count \in 0 .. MaxChunks /\ row.photos \in Seq(Photos)
  BY RowParts DEF Recordings
<1>2. \A n \in 1 .. row.recording.count : blobs.chunks[n] \in Contents \ {Absent}
  <2> TAKE n \in 1 .. row.recording.count
  <2>1. n \in ChunksOf(row) /\ n \in Chunks
    BY <1>1, CaptureNumbers DEF ChunksOf, Chunks
  <2>2. blobs.chunks[n] # 0 /\ blobs.chunks[n] \in 0 .. Takes
    BY <2>1 DEF Readable, CaptureTypeOK, Blobs
  <2>3. blobs.chunks[n] \in 1 .. Takes
    BY <2>2, CaptureNumbers
  <2> QED
    BY <2>3, CaptureNumbers DEF Contents
<1>3. \A a \in Slots : of(a) \in Seq(Contents \ {Absent}) /\ Len(of(a)) <= MaxChunks
  <2> TAKE a \in Slots
  <2>1. CASE a = 0
    <3>1. row.recording.count \in Nat
      BY <1>1, CaptureNumbers
    <3> QED
      BY <1>1, <1>2, <2>1, <3>1, CaptureNumbers
  <2>2. CASE a # 0 /\ a \in DOMAIN row.photos
    <3>1. row.photos[a] \in Photos
      BY <1>1, <2>2
    <3>2. row.photos[a] \in Contents \ {Absent}
      BY <3>1, CaptureNumbers DEF Contents
    <3> QED
      BY <2>2, <3>2, CaptureNumbers
  <2>3. CASE a # 0 /\ a \notin DOMAIN row.photos
    BY <2>3, CaptureNumbers
  <2> QED
    BY <2>1, <2>2, <2>3
<1>4. Assembled(row) = [a \in Slots |-> of(a)]
  BY DEF Assembled
<1> HIDE DEF of
<1> QED
  BY <1>3, <1>4 DEF Materials

LEMMA BeginsKeeps ==
  ASSUME CaptureTypeOK, CaptureInv, NEW row \in DraftRows,
         row.id = live.id, row.words = live.words, Readable(row), Begins(row),
         turn.step # "idle" => turn.held.id = live.id,
         UNCHANGED <<drawn, blobs, queue, turn, lag, mic, server, discarded>>
  PROVE  CaptureTypeOK' /\ CaptureInv'
<1>1. live' = [row EXCEPT !.phase = "uploading"] /\ SaveDraft(live')
  BY DEF Begins, Persist
<1>2. "uploading" \in SendPhases
  BY DEF SendPhases
<1>3. live' \in DraftRows /\ live'.id = live.id /\ live'.words = live.words
  BY <1>1, <1>2, PhaseChange
<1>4. /\ stored' \in DraftRows /\ ShownTypeOK' /\ unwritten' \in BOOLEAN
      /\ stored' = live' \/ (stored' = stored /\ unwritten')
      /\ unwritten => unwritten'
  BY <1>1, <1>3, SaveDraftWrites
<1>5. Assembled(row) \in Materials
  BY AssembledType
<1>6. send' = [NoSend EXCEPT !.step = "prepare", !.record = row, !.material = Assembled(row), !.tries = 1]
  BY DEF Begins
<1>7. send' = [step |-> "prepare", record |-> row, material |-> Assembled(row), open |-> {},
               left |-> [a \in Slots |-> {}], tries |-> 1]
  BY <1>6 DEF NoSend
<1>8. send' \in Sends /\ send'.step = "prepare" /\ SendHolds'
  BY <1>3, <1>5, <1>7, CaptureNumbers DEF Sends, SendHolds, Sending
<1>9. /\ asked' = asked \union {live.id} /\ live.id \in Drafts /\ live.id <= drawn /\ asked \subseteq Drafts
      /\ drawn \in Drafts /\ drawn' = drawn /\ stored.id <= drawn
  BY RowParts DEF Begins, CaptureTypeOK, CaptureInv, DraftsAreDrawn
<1>a. asked' \subseteq 1 .. drawn'
  <2>1. asked \subseteq 1 .. drawn /\ live.id <= drawn
    BY DEF CaptureInv, DraftsAreDrawn
  <2>2. live.id \in Nat /\ live.id >= 1 /\ drawn \in Nat
    BY <1>9, CaptureNumbers DEF Drafts
  <2>3. live.id \in 1 .. drawn
    BY <2>1, <2>2
  <2> QED
    BY <1>9, <2>1, <2>3
<1>b. turn'.step # "idle" => turn'.held.id <= drawn'
  BY DEF CaptureInv, DraftsAreDrawn
<1>10. CaptureTypeOK'
  BY <1>3, <1>4, <1>8, <1>9 DEF CaptureTypeOK, ShownTypeOK
<1>11. DraftsAreDrawn'
  BY <1>3, <1>4, <1>9, <1>a, <1>b DEF DraftsAreDrawn
<1>12. TurnHolds' /\ MicHolds' /\ ReceiptIsReal' /\ WordsRest'
  BY <1>8 DEF CaptureInv, TurnHolds, MicHolds, ReceiptIsReal, WordsRest
<1>13. SentIsHeld'
  BY <1>3 DEF SentIsHeld
<1>14. LostOrKept'
  BY <1>3, <1>4, <1>9 DEF CaptureInv, LostOrKept
<1> QED
  BY <1>8, <1>10, <1>11, <1>12, <1>13, <1>14 DEF CaptureInv

LEMMA SendWordsKeeps ==
  ASSUME CaptureTypeOK, CaptureInv, SendWords
  PROVE  CaptureTypeOK' /\ CaptureInv'
<1>1. live \in DraftRows /\ ~HasMedia(live) /\ Begins(live)
  BY DEF CaptureTypeOK, SendWords
<1>2. Readable(live)
  <2>1. live.recording.count \in 0 .. MaxChunks /\ ~(live.recording.count > 0) /\ live.photos = << >>
    BY <1>1, RowParts DEF HasMedia, Recordings
  <2>2. ChunksOf(live) = {}
    BY <2>1, CaptureNumbers DEF ChunksOf, Chunks
  <2> QED
    BY <2>1, <2>2 DEF Readable
<1> QED
  BY <1>1, <1>2, BeginsKeeps DEF SendWords, MaySend

LEMMA SendMediaKeeps ==
  ASSUME CaptureTypeOK, CaptureInv, SendMedia
  PROVE  CaptureTypeOK' /\ CaptureInv'
<1>1. send' = [NoSend EXCEPT !.step = "read", !.record = live] /\ live \in DraftRows
  BY DEF SendMedia, CaptureTypeOK
<1>2. send' = [step |-> "read", record |-> live, material |-> [a \in Slots |-> << >>], open |-> {},
               left |-> [a \in Slots |-> {}], tries |-> 0]
  BY <1>1 DEF NoSend
<1>3. [a \in Slots |-> << >>] \in Materials
  BY CaptureNumbers DEF Materials
<1>a. send' \in Sends /\ send'.step = "read" /\ send'.record = live /\ live' = live
  BY <1>1, <1>2, <1>3, CaptureNumbers DEF Sends, SendMedia
<1>b. \A a \in Slots : send'.left[a] = {}
  BY <1>2
<1>4. send' \in Sends /\ send'.step = "read" /\ send'.record = live /\ live' = live /\ SendHolds'
  BY <1>1, <1>a, <1>b DEF SendHolds, Sending
<1>5. CaptureTypeOK'
  BY <1>4 DEF CaptureTypeOK, SendMedia
<1>6. DraftsAreDrawn' /\ TurnHolds' /\ MicHolds' /\ ReceiptIsReal' /\ WordsRest' /\ LostOrKept'
  BY <1>4 DEF CaptureInv, DraftsAreDrawn, TurnHolds, MicHolds, ReceiptIsReal, WordsRest, LostOrKept, SendMedia
<1>7. SentIsHeld'
  BY DEF SentIsHeld, SendMedia, MaySend
<1> QED
  BY <1>4, <1>5, <1>6, <1>7 DEF CaptureInv

LEMMA ReadMaterialKeeps ==
  ASSUME CaptureTypeOK, CaptureInv, ReadMaterial
  PROVE  CaptureTypeOK' /\ CaptureInv'
<1>0. Sending /\ send.step = "read" /\ send.record.words = live.words
  BY DEF ReadMaterial, Sending, CaptureInv, WordsRest
<1>1. CASE Readable(send.record) /\ Begins(send.record)
  <2>1. send.record \in DraftRows /\ send.record.id = live.id
    BY <1>0, SendRows
  <2>2. turn.step # "idle" => turn.held.id = live.id
    BY <1>0 DEF CaptureInv, SentIsHeld
  <2> QED
    BY <1>0, <1>1, <2>1, <2>2, BeginsKeeps DEF ReadMaterial
<1>2. CASE /\ send' = NoSend /\ UNCHANGED <<live, asked>>
           /\ \/ stored' = live /\ UNCHANGED unwritten
              \/ StorageFails /\ unwritten' = TRUE /\ UNCHANGED stored
           /\ ShownTypeOK'
  <2>1. send' \in Sends /\ send'.step = "none" /\ SendHolds'
    BY <1>2, NoSendType DEF SendHolds, Sending
  <2>a. live \in DraftRows /\ stored \in DraftRows /\ unwritten \in BOOLEAN
    BY DEF CaptureTypeOK
  <2>2. CallEnds
    BY <1>2, <2>a, <2>1 DEF CallEnds
  <2>3. CallFrame
    BY <1>2 DEF CallFrame, ReadMaterial
  <2>4. ReceiptIsReal'
    BY <2>1, NotYetReceived
  <2>5. server' = server
    BY DEF ReadMaterial
  <2> QED
    BY <1>0, <2>2, <2>3, <2>4, <2>5, ServerRests, CallKeeps
<1>3. shown' = [shown EXCEPT !.alarm = @ \/ unwritten' \/ \E n \in ChunksOf(send.record) : blobs.chunks[n] = 0]
        /\ unwritten' \in BOOLEAN => ShownTypeOK'
  BY DEF ShownTypeOK, CaptureTypeOK
<1> QED
  BY <1>1, <1>2, <1>3 DEF ReadMaterial, CaptureTypeOK

LEMMA LeastOf ==
  ASSUME NEW S \in SUBSET Nat, S # {}
  PROVE  Next1(S) \in S
<1> DEFINE R == OpToRel(<, Nat)
<1>1. IsWellFoundedOn(R, Nat)
  BY NatLessThanWellFounded
<1>2. \A i, j \in Nat : i < j => <<i, j>> \in R
  BY DEF OpToRel
<1> HIDE DEF R
<1>3. PICK m \in S : \A n \in S : ~ (<<n, m>> \in R)
  BY <1>1, WFMin
<1>4. \A n \in S : n \in Nat /\ m \in Nat /\ ~(n < m)
  BY <1>2, <1>3
<1>5. \A n \in S : m <= n
  BY <1>4
<1> QED
  BY <1>5 DEF Next1

LEMMA MissingType ==
  ASSUME CaptureTypeOK, NEW row, NEW a \in Slots
  PROVE  /\ Missing(row, a) \subseteq 1 .. Len(send.material[a])
         /\ Missing(row, a) \subseteq Chunks
<1>1. send.material[a] \in Seq(Contents \ {Absent}) /\ Len(send.material[a]) <= MaxChunks
  BY DEF CaptureTypeOK, Sends, Materials
<1> QED
  BY <1>1, CaptureNumbers DEF Missing, Chunks

LEMMA DeclarationType ==
  ASSUME CaptureTypeOK
  PROVE  Declaration \in [images : Slots, parts : 0 .. MaxChunks, audio : BOOLEAN]
<1>1. Images \in Slots
  <2> DEFINE pictures == {a \in Slots \ {0} : send.material[a] # << >>}
  <2>1. pictures \subseteq 1 .. MaxAttachments
    BY CaptureNumbers DEF Slots
  <2>2. IsFiniteSet(1 .. MaxAttachments) /\ Cardinality(1 .. MaxAttachments) = MaxAttachments
    BY CaptureNumbers, FS_Interval
  <2>3. Cardinality(pictures) \in Nat /\ Cardinality(pictures) <= MaxAttachments
    BY <2>1, <2>2, FS_Subset, FS_CardinalityType
  <2> QED
    BY <2>3, CaptureNumbers DEF Images, Slots
<1>2. 0 \in Slots
  BY CaptureNumbers DEF Slots
<1>3. send.material[0] \in Seq(Contents \ {Absent}) /\ Len(send.material[0]) <= MaxChunks
  BY <1>2 DEF CaptureTypeOK, Sends, Materials
<1>4. Longest \in 0 .. MaxChunks
  BY <1>3, CaptureNumbers DEF Longest
<1> QED
  BY <1>1, <1>4 DEF Declaration, Audible

LEMMA PrepareUploadKeeps ==
  ASSUME CaptureTypeOK, CaptureInv, PrepareUpload
  PROVE  CaptureTypeOK' /\ CaptureInv'
<1> DEFINE row == IF Upload.declared = Undeclared THEN [Upload EXCEPT !.declared = Declaration] ELSE Upload
           open == Attached \ row.completed
           calls == [send EXCEPT !.step = "upload", !.open = open,
                                 !.left = [a \in Slots |-> IF a \in open THEN Missing(row, a) ELSE {}]]
<1>0. Sending /\ send.step = "prepare"
  BY DEF PrepareUpload, Sending
<1>1. /\ send \in Sends /\ SendHolds /\ Upload \in Uploads
  BY <1>0, SendRows
<1>2. row \in Uploads /\ row.source = Upload.source
  BY <1>1, DeclarationType DEF Uploads
<1>3. CallFrame
  BY DEF PrepareUpload, CallFrame
<1> HIDE DEF row
<1>4. CASE UNCHANGED server /\ (Unanswered \/ SendFails)
  <2>1. CallEnds /\ send'.step \in {"none", "prepare"}
    BY <1>0, <1>4, UnansweredEnds, SendFailsEnds
  <2> QED
    BY <1>0, <1>3, <1>4, <2>1, ServerRests, NotYetReceived, CallKeeps
<1>5. CASE Serves(row) /\ Unanswered
  <2>1. CallEnds /\ send'.step \in {"none", "prepare"}
    BY <1>0, <1>5, UnansweredEnds
  <2> QED
    BY <1>0, <1>2, <1>3, <1>5, <2>1, ServesKeeps, NotYetReceived, CallKeeps
<1>6. CASE Serves(row) /\ Accepts(send)
  <2>1. CallEnds /\ send'.step = "accept"
    BY <1>0, <1>6, AcceptsEnds
  <2> QED
    BY <1>0, <1>2, <1>3, <1>6, <2>1, ServesKeeps, NotYetReceived, CallKeeps
<1>7. CASE Serves(row) /\ Makes(calls) /\ UNCHANGED <<live, stored, shown, unwritten>>
  <2>1. open \subseteq Slots
    BY DEF Attached
  <2> DEFINE left == [a \in Slots |-> IF a \in open THEN Missing(row, a) ELSE {}]
  <2>2. left \in [Slots -> SUBSET Chunks] /\ \A a \in Slots : left[a] \subseteq 1 .. Len(send.material[a])
    BY MissingType
  <2>3. calls = [send EXCEPT !.step = "upload", !.open = open, !.left = left]
    OBVIOUS
  <2> HIDE DEF open, left
  <2>4. calls \in Sends /\ calls.step = "upload" /\ calls.record = send.record /\ calls.left = left
        /\ calls.material = send.material
    BY <1>1, <2>1, <2>2, <2>3 DEF Sends
  <2> HIDE DEF calls
  <2>5. /\ send' \in Sends /\ send'.step = "upload" /\ send'.step # "read"
        /\ live'.id = live.id => SendHolds'
    BY <1>0, <1>7, <2>2, <2>4, MakesEnds
  <2>6. CallEnds
    BY <1>7, <2>5, QuietEnds
  <2> QED
    BY <1>0, <1>2, <1>3, <1>7, <2>5, <2>6, ServesKeeps, NotYetReceived, CallKeeps
<1> QED
  BY <1>4, <1>5, <1>6, <1>7 DEF PrepareUpload, row

LEMMA PutPartKeeps ==
  ASSUME CaptureTypeOK, CaptureInv, PutPart
  PROVE  CaptureTypeOK' /\ CaptureInv'
<1> DEFINE a == Next1(send.open)
           n == Next1(send.left[a])
           row == [Upload EXCEPT !.manifest[a][n] = send.material[a][n]]
           calls == [send EXCEPT !.left[a] = @ \ {n}]
<1>0. Sending /\ send.step = "upload" /\ send.open # {} /\ send.left[a] # {}
  BY DEF PutPart, Sending
<1>1. /\ send \in Sends /\ SendHolds /\ Upload \in Uploads
  BY <1>0, SendRows
<1>2. send.open \subseteq Slots /\ Slots \subseteq Nat /\ Chunks \subseteq Nat
  BY <1>1, CaptureNumbers DEF Sends, Slots, Chunks
<1>3. a \in Slots
  BY <1>0, <1>2, LeastOf
<1> HIDE DEF a
<1>4. send.left[a] \subseteq Chunks /\ send.left[a] \subseteq 1 .. Len(send.material[a])
  BY <1>1, <1>3 DEF Sends, SendHolds
<1>5. n \in Chunks /\ n \in 1 .. Len(send.material[a])
  BY <1>0, <1>2, <1>4, LeastOf
<1> HIDE DEF n
<1>6. send.material[a][n] \in Contents
  BY <1>1, <1>3, <1>5 DEF Sends, Materials
<1>7. row \in Uploads /\ row.source = Upload.source
  <2> DEFINE heard == [Upload.manifest EXCEPT ![a] = [Upload.manifest[a] EXCEPT ![n] = send.material[a][n]]]
  <2>1. Upload.manifest \in Heard
    BY <1>1 DEF Uploads
  <2>2. heard \in Heard
    BY <1>3, <1>5, <1>6, <2>1 DEF Heard
  <2>3. row = [Upload EXCEPT !.manifest = heard]
    BY <1>1, <2>1 DEF Uploads, Heard
  <2> HIDE DEF heard, row
  <2> QED
    BY <1>1, <2>2, <2>3 DEF Uploads
<1> HIDE DEF row
<1>8. CallFrame
  BY DEF PutPart, CallFrame
<1>9. server' \in [Drafts -> Uploads] /\ Keeps(server, server')
  <2>1. CASE UNCHANGED server
    BY <2>1, ServerRests
  <2>2. CASE Serves(row)
    BY <1>0, <1>7, <2>2, ServesKeeps
  <2> QED
    BY <2>1, <2>2 DEF PutPart, a, n, row
<1>10. CASE Unanswered
  <2>1. CallEnds /\ send'.step \in {"none", "upload"}
    BY <1>0, <1>10, UnansweredEnds
  <2> QED
    BY <1>0, <1>8, <1>9, <2>1, NotYetReceived, CallKeeps
<1>11. CASE Makes(calls) /\ UNCHANGED <<live, stored, shown, unwritten>>
  <2> DEFINE left == [send.left EXCEPT ![a] = send.left[a] \ {n}]
  <2>1. left \in [Slots -> SUBSET Chunks] /\ \A b \in Slots : left[b] \subseteq 1 .. Len(send.material[b])
    BY <1>1, <1>3, <1>4 DEF Sends, SendHolds
  <2>2. calls = [send EXCEPT !.left = left]
    BY <1>1 DEF Sends
  <2> HIDE DEF left, calls
  <2>3. calls \in Sends /\ calls.step = "upload" /\ calls.record = send.record /\ calls.left = left
        /\ calls.material = send.material
    BY <1>0, <1>1, <2>1, <2>2 DEF Sends
  <2>4. /\ send' \in Sends /\ send'.step = "upload" /\ send'.step # "read"
        /\ live'.id = live.id => SendHolds'
    BY <1>0, <1>11, <2>1, <2>3, MakesEnds
  <2>5. CallEnds
    BY <1>11, <2>4, QuietEnds
  <2> QED
    BY <1>0, <1>8, <1>9, <2>4, <2>5, NotYetReceived, CallKeeps
<1> QED
  BY <1>10, <1>11 DEF PutPart, a, n

LEMMA CompleteAttachmentKeeps ==
  ASSUME CaptureTypeOK, CaptureInv, CompleteAttachment
  PROVE  CaptureTypeOK' /\ CaptureInv'
<1> DEFINE a == Next1(send.open)
           row == [Upload EXCEPT !.completed = @ \union {a}]
           step == IF send.open = {a} THEN "finalize" ELSE send.step
           calls == [send EXCEPT !.open = @ \ {a}, !.step = IF send.open = {a} THEN "finalize" ELSE @]
<1>0. Sending /\ send.step = "upload" /\ send.open # {}
  BY DEF CompleteAttachment, Sending
<1>1. /\ send \in Sends /\ SendHolds /\ Upload \in Uploads
  BY <1>0, SendRows
<1>2. send.open \subseteq Slots /\ Slots \subseteq Nat
  BY <1>1, CaptureNumbers DEF Sends, Slots
<1>3. a \in Slots
  BY <1>0, <1>2, LeastOf
<1> HIDE DEF a
<1>4. row \in Uploads /\ row.source = Upload.source
  BY <1>1, <1>3 DEF Uploads
<1> HIDE DEF row
<1>5. CallFrame
  BY DEF CompleteAttachment, CallFrame
<1>6. CASE UNCHANGED server /\ (Unanswered \/ SendFails)
  <2>1. CallEnds /\ send'.step \in {"none", "upload"}
    BY <1>0, <1>6, UnansweredEnds, SendFailsEnds
  <2> QED
    BY <1>0, <1>5, <1>6, <2>1, ServerRests, NotYetReceived, CallKeeps
<1>7. CASE Serves(row) /\ Unanswered
  <2>1. CallEnds /\ send'.step \in {"none", "upload"}
    BY <1>0, <1>7, UnansweredEnds
  <2> QED
    BY <1>0, <1>4, <1>5, <1>7, <2>1, ServesKeeps, NotYetReceived, CallKeeps
<1>8. CASE Serves(row) /\ Makes(calls) /\ UNCHANGED <<live, stored, shown, unwritten>>
  <2> DEFINE rest == send.open \ {a}
  <2>1. calls = [send EXCEPT !.open = rest, !.step = step] /\ rest \subseteq Slots /\ step \in {"finalize", "upload"}
    BY <1>0, <1>2
  <2> HIDE DEF rest, step, calls
  <2>2. calls \in Sends /\ calls.step \in {"finalize", "upload"} /\ calls.record = send.record
        /\ calls.left = send.left /\ calls.material = send.material
    BY <1>1, <2>1 DEF Sends
  <2>3. /\ send' \in Sends /\ send'.step \in {"finalize", "upload"} /\ send'.step # "read"
        /\ live'.id = live.id => SendHolds'
    BY <1>0, <1>1, <1>8, <2>2, MakesEnds DEF SendHolds
  <2>4. CallEnds
    BY <1>8, <2>3, QuietEnds
  <2> QED
    BY <1>0, <1>4, <1>5, <1>8, <2>3, <2>4, ServesKeeps, NotYetReceived, CallKeeps
<1> QED
  BY <1>6, <1>7, <1>8 DEF CompleteAttachment, a, row

LEMMA FinalizeUploadKeeps ==
  ASSUME CaptureTypeOK, CaptureInv, FinalizeUpload
  PROVE  CaptureTypeOK' /\ CaptureInv'
<1> DEFINE row == [Upload EXCEPT !.finalized = TRUE]
<1>0. Sending /\ send.step = "finalize" /\ CallFrame
  BY DEF FinalizeUpload, Sending, CallFrame
<1>1. Upload \in Uploads
  BY <1>0, SendRows
<1>2. row \in Uploads /\ row.source = Upload.source
  BY <1>1 DEF Uploads
<1> HIDE DEF row
<1>3. CASE UNCHANGED server /\ Unanswered
  <2>1. CallEnds /\ send'.step \in {"none", "finalize"}
    BY <1>0, <1>3, UnansweredEnds
  <2> QED
    BY <1>0, <1>3, <2>1, ServerRests, NotYetReceived, CallKeeps
<1>4. CASE Serves(row) /\ (Unanswered \/ Accepts(send))
  <2>1. CallEnds /\ send'.step \in {"none", "finalize", "accept"}
    BY <1>0, <1>4, UnansweredEnds, AcceptsEnds
  <2> QED
    BY <1>0, <1>2, <1>4, <2>1, ServesKeeps, NotYetReceived, CallKeeps
<1> QED
  BY <1>3, <1>4 DEF FinalizeUpload, row

LEMMA AcceptDraftKeeps ==
  ASSUME CaptureTypeOK, CaptureInv, AcceptDraft
  PROVE  CaptureTypeOK' /\ CaptureInv'
<1> DEFINE source == [words |-> send.record.words, media |-> Upload.manifest]
           row == IF Upload.source = Absent THEN [Upload EXCEPT !.source = source] ELSE Upload
           calls == [send EXCEPT !.step = "clear"]
<1>0. Sending /\ send.step = "accept" /\ CallFrame
  BY DEF AcceptDraft, Sending, CallFrame
<1>1. /\ send \in Sends /\ SendHolds /\ Upload \in Uploads /\ send.record \in DraftRows
  BY <1>0, SendRows
<1>2. source \in SourceRows
  BY <1>1, RowParts DEF Uploads, SourceRows
<1>3. source # Absent
  BY <1>2, AbsentIsNoSource
<1> HIDE DEF source
<1>4. row \in Uploads /\ (Upload.source # Absent => row.source # Absent) /\ row.source # Absent
  BY <1>1, <1>2, <1>3 DEF Uploads
<1> HIDE DEF row
<1>5. CASE UNCHANGED server /\ (Unanswered \/ SendFails)
  <2>1. CallEnds /\ send'.step \in {"none", "accept"}
    BY <1>0, <1>5, UnansweredEnds, SendFailsEnds
  <2> QED
    BY <1>0, <1>5, <2>1, ServerRests, NotYetReceived, CallKeeps
<1>6. CASE Serves(row) /\ Unanswered
  <2>1. CallEnds /\ send'.step \in {"none", "accept"}
    BY <1>0, <1>6, UnansweredEnds
  <2> QED
    BY <1>0, <1>4, <1>6, <2>1, ServesKeeps, NotYetReceived, CallKeeps
<1>7. CASE Serves(row) /\ Makes(calls) /\ UNCHANGED <<live, stored, shown, unwritten>>
  <2>1. calls \in Sends /\ calls.step = "clear" /\ calls.record = send.record
        /\ calls.left = send.left /\ calls.material = send.material
    BY <1>1 DEF Sends
  <2> HIDE DEF calls
  <2>2. /\ send' \in Sends /\ send'.step # "read"
        /\ live'.id = live.id => SendHolds'
    BY <1>0, <1>1, <1>7, <2>1, MakesEnds DEF SendHolds
  <2>3. CallEnds
    BY <1>7, <2>2, QuietEnds
  <2>4. server'[live.id] = row /\ live' = live
    BY <1>0, <1>4, <1>7, ServesKeeps
  <2>5. ReceiptIsReal'
    BY <1>4, <2>4 DEF ReceiptIsReal
  <2> QED
    BY <1>0, <1>4, <1>7, <2>3, <2>5, ServesKeeps, CallKeeps
<1> QED
  BY <1>5, <1>6, <1>7 DEF AcceptDraft, source, row

-----------------------------------------------------------------------------
(* The end of a draft.                                                     *)

LEMMA ClearedType ==
  ASSUME CaptureTypeOK, NEW row
  PROVE  Cleared(row) \in Blobs
BY CaptureNumbers DEF CaptureTypeOK, Cleared, Blobs

LEMMA ClearBlobsKeeps ==
  ASSUME CaptureTypeOK, CaptureInv, ClearBlobs
  PROVE  CaptureTypeOK' /\ CaptureInv'
<1>0. Sending /\ send.step = "clear"
  BY DEF ClearBlobs, Sending
<1>1. send \in Sends /\ SendHolds
  BY <1>0, SendRows
<1>2. send' \in Sends /\ send'.step = "next" /\ send'.record = send.record
      /\ send'.left = send.left /\ send'.material = send.material
  BY <1>1 DEF ClearBlobs, Sends
<1>3. blobs' \in Blobs
  BY ClearedType DEF ClearBlobs
<1>4. CaptureTypeOK'
  BY <1>2, <1>3 DEF ClearBlobs, CaptureTypeOK
<1>5. SendHolds'
  BY <1>0, <1>1, <1>2 DEF ClearBlobs, SendHolds, Sending
<1>6. DraftsAreDrawn' /\ TurnHolds' /\ MicHolds' /\ WordsRest' /\ LostOrKept'
  BY <1>2 DEF ClearBlobs, CaptureInv, DraftsAreDrawn, TurnHolds, MicHolds, WordsRest, LostOrKept
<1>7. SentIsHeld' /\ ReceiptIsReal'
  BY <1>0 DEF ClearBlobs, CaptureInv, SentIsHeld, ReceiptIsReal, Sending
<1> QED
  BY <1>4, <1>5, <1>6, <1>7 DEF CaptureInv

(* The next draft is one that was never sent.                              *)
LEMMA NextDraftsAreFresh ==
  ASSUME CaptureTypeOK, CaptureInv, BeginsNext
  PROVE  /\ drawn' \in Drafts /\ live' \in DraftRows /\ live'.id = drawn' /\ drawn <= drawn'
         /\ drawn' \notin asked /\ asked \subseteq 1 .. drawn'
<1>1. drawn \in Drafts /\ drawn < LastDraft /\ drawn' = drawn + 1 /\ live' = FreshDraft(drawn')
  BY DEF CaptureTypeOK, BeginsNext
<1>2. drawn' \in Drafts /\ drawn \in Nat
  BY <1>1, CaptureNumbers DEF Drafts
<1>3. asked \subseteq 1 .. drawn
  BY DEF CaptureInv, DraftsAreDrawn
<1> QED
  BY <1>1, <1>2, <1>3, FreshDraftType

LEMMA NextBeginsKeeps ==
  ASSUME CaptureTypeOK, CaptureInv, BeginsNext, send' \in Sends, send'.step = "none", SendHolds',
         \/ stored' = live' /\ UNCHANGED unwritten
         \/ unwritten' = TRUE /\ UNCHANGED stored,
         blobs' \in Blobs, mic' \in Recorders, MicHolds', ShownTypeOK', discarded' \in SUBSET Drafts,
         discarded \subseteq discarded', live.id \in discarded' \/ server[live.id].source # Absent,
         UNCHANGED <<queue, turn, lag, server, asked>>
  PROVE  CaptureTypeOK' /\ CaptureInv'
<1>0. /\ drawn' \in Drafts /\ live' \in DraftRows /\ live'.id = drawn' /\ drawn <= drawn'
      /\ drawn' \notin asked /\ asked \subseteq 1 .. drawn'
  BY NextDraftsAreFresh
<1>2. CaptureTypeOK'
  BY <1>0 DEF CaptureTypeOK, ShownTypeOK
<1>3. DraftsAreDrawn'
  <2>1. stored.id <= drawn /\ (turn.step # "idle" => turn.held.id <= drawn /\ turn.held \in DraftRows)
    BY DEF CaptureInv, DraftsAreDrawn, TurnHolds
  <2>2. drawn \in Nat /\ drawn' \in Nat /\ stored.id \in Nat
    BY <1>0, RowParts, CaptureNumbers DEF CaptureTypeOK, Drafts
  <2>3. turn.step # "idle" => turn.held.id \in Nat
    BY <2>1, RowParts, CaptureNumbers DEF Drafts
  <2> QED
    BY <1>0, <2>1, <2>2, <2>3 DEF DraftsAreDrawn
<1>4. TurnHolds' /\ ReceiptIsReal' /\ WordsRest'
  BY DEF CaptureInv, TurnHolds, ReceiptIsReal, WordsRest
<1>5. SentIsHeld'
  BY <1>0 DEF SentIsHeld, Sending
<1>6. LostOrKept'
  BY DEF CaptureInv, LostOrKept
<1> QED
  BY <1>2, <1>3, <1>4, <1>5, <1>6 DEF CaptureInv

LEMMA NextDraftKeeps ==
  ASSUME CaptureTypeOK, CaptureInv, NextDraft
  PROVE  CaptureTypeOK' /\ CaptureInv'
<1>1. server[live.id].source # Absent
  BY DEF NextDraft, CaptureInv, ReceiptIsReal
<1>2. ShownTypeOK' /\ MicHolds'
  BY DEF NextDraft, CaptureTypeOK, CaptureInv, ShownTypeOK, MicHolds
<1>3. send' \in Sends /\ send'.step = "none" /\ SendHolds'
  BY NoSendType DEF NextDraft, SendHolds, Sending
<1> QED
  BY <1>1, <1>2, <1>3, NextBeginsKeeps DEF NextDraft, CaptureTypeOK

LEMMA DiscardDraftKeeps ==
  ASSUME CaptureTypeOK, CaptureInv, DiscardDraft
  PROVE  CaptureTypeOK' /\ CaptureInv'
<1>1. live.id \in Drafts /\ discarded' = discarded \union {live.id} /\ discarded \subseteq Drafts
  BY RowParts DEF DiscardDraft, CaptureTypeOK
<1>2. mic \in Recorders /\ mic' = [mic EXCEPT !.state = "idle"]
  BY DEF DiscardDraft, CaptureTypeOK
<1>3. mic' \in Recorders /\ MicHolds'
  BY <1>2 DEF Recorders, MicHolds
<1>4. ShownTypeOK' /\ blobs' \in Blobs
  BY ClearedType DEF DiscardDraft, CaptureTypeOK, ShownTypeOK
<1>5. send' \in Sends /\ send'.step = "none" /\ SendHolds'
  BY DEF DiscardDraft, CaptureTypeOK, CaptureInv, SendHolds, Sending
<1> QED
  BY <1>1, <1>3, <1>4, <1>5, NextBeginsKeeps DEF DiscardDraft

-----------------------------------------------------------------------------
(* The theorems.                                                           *)

LEMMA CaptureInvStep ==
  CaptureTypeOK /\ CaptureInv /\ [CaptureNext]_<<captureVars, captureHistory>>
    => CaptureTypeOK' /\ CaptureInv'
<1> SUFFICES ASSUME CaptureTypeOK, CaptureInv, [CaptureNext]_<<captureVars, captureHistory>>
             PROVE  CaptureTypeOK' /\ CaptureInv'
  OBVIOUS
<1>1. CASE BeginMutation
  BY <1>1, BeginMutationKeeps
<1>2. CASE SaveMutation
  BY <1>2, SaveMutationKeeps
<1>3. CASE EndMutation
  BY <1>3, EndMutationKeeps
<1>4. CASE FlushDue
  BY <1>4, FlushDueKeeps
<1>5. CASE PageHides
  BY <1>5, PageHidesKeeps
<1>6. CASE SelectScope
  BY <1>6, SelectScopeKeeps
<1>7. CASE StartRecording
  BY <1>7, StartRecordingKeeps
<1>8. CASE RecordingDropped
  BY <1>8, RecordingDroppedKeeps
<1>9. CASE RecorderStarts
  BY <1>9, RecorderStartsKeeps
<1>10. CASE ChunkArrives
  BY <1>10, ChunkArrivesKeeps
<1>11. CASE StopRecording
  BY <1>11, StopRecordingKeeps
<1>12. CASE DiscardRecording
  BY <1>12, DiscardRecordingKeeps
<1>13. CASE SendWords
  BY <1>13, SendWordsKeeps
<1>14. CASE SendMedia
  BY <1>14, SendMediaKeeps
<1>15. CASE ReadMaterial
  BY <1>15, ReadMaterialKeeps
<1>16. CASE PrepareUpload
  BY <1>16, PrepareUploadKeeps
<1>17. CASE PutPart
  BY <1>17, PutPartKeeps
<1>18. CASE CompleteAttachment
  BY <1>18, CompleteAttachmentKeeps
<1>19. CASE FinalizeUpload
  BY <1>19, FinalizeUploadKeeps
<1>20. CASE AcceptDraft
  BY <1>20, AcceptDraftKeeps
<1>21. CASE ClearBlobs
  BY <1>21, ClearBlobsKeeps
<1>22. CASE NextDraft
  BY <1>22, NextDraftKeeps
<1>23. CASE DiscardDraft
  BY <1>23, DiscardDraftKeeps
<1>24. CASE Reopen
  BY <1>24, ReopenKeeps
<1>25. CASE \E w \in Words : EditText(w)
  BY <1>25, EditTextKeeps
<1>26. CASE \E p \in Photos : AddPhoto(p) \/ RemovePhoto(p)
  BY <1>26, AddPhotoKeeps, RemovePhotoKeeps
<1>27. CASE UNCHANGED <<captureVars, captureHistory>>
  <2>1. CaptureTypeOK'
    BY <1>27 DEF CaptureTypeOK, captureVars, captureHistory
  <2>2. CaptureInv'
    BY <1>27 DEF captureVars, captureHistory, CaptureInv, DraftsAreDrawn, TurnHolds, SendHolds, MicHolds,
      SentIsHeld, ReceiptIsReal, LostOrKept, WordsRest, Sending
  <2> QED
    BY <2>1, <2>2
<1> QED
  BY <1>1, <1>2, <1>3, <1>4, <1>5, <1>6, <1>7, <1>8, <1>9, <1>10, <1>11, <1>12, <1>13,
    <1>14, <1>15, <1>16, <1>17, <1>18, <1>19, <1>20, <1>21, <1>22, <1>23, <1>24, <1>25, <1>26, <1>27 DEF CaptureNext

(* What rests between the steps of the composer: its types, a mutation that   *)
(* has read its record, a send that keeps what it took, a source that is      *)
(* real, and a draft that is in the store or still shown.                     *)
THEOREM CaptureInvAlways == CaptureSpec => [](CaptureTypeOK /\ CaptureInv)
BY CaptureInvInit, CaptureInvStep, PTL DEF CaptureSpec

(* Every variable of the composer keeps its type (useCaptureComposer).     *)
THEOREM CaptureTypeCorrect == CaptureSpec => []CaptureTypeOK
BY CaptureInvAlways, PTL

(* What was sent and not given up is a source of the server or what a tab  *)
(* that is opened now shows, unless a write failed (runSend, DraftsStore). *)
THEOREM NothingSentIsEverLost == CaptureSpec => []NothingSentIsLost
<1>1. CaptureTypeOK /\ CaptureInv => NothingSentIsLost
  BY DEF CaptureInv, LostOrKept, NothingSentIsLost
<1> QED
  BY <1>1, CaptureInvAlways, PTL

(* No step but the typing of them, and the opening of the tab, changes the *)
(* words of a draft (serializeRecord).                                     *)
LEMMA WordsKept ==
  ASSUME CaptureTypeOK, CaptureInv, [CaptureNext]_<<captureVars, captureHistory>>,
         live'.id = live.id, live'.words # live.words
  PROVE  lag' = live'.words \/ (live' = stored /\ queue' = << >>)
<1>a. live \in DraftRows /\ live.id <= drawn /\ live.id \in Nat /\ drawn \in Nat
  BY RowParts, CaptureNumbers DEF CaptureTypeOK, CaptureInv, DraftsAreDrawn, Drafts
<1>1. CASE BeginMutation
  <2>1. \/ live' = live
        \/ live' = [live EXCEPT !.recording = [take |-> Head(queue).take, count |-> 0]]
    BY <1>1 DEF BeginMutation, Persist
  <2>2. [live EXCEPT !.recording = [take |-> Head(queue).take, count |-> 0]].words = live.words
    BY <1>a DEF DraftRows
  <2> QED
    BY <2>1, <2>2
<1>2. CASE EndMutation
  <2>1. turn.step # "idle" /\ live' = Overlay(Head(queue))
    BY <1>2 DEF EndMutation
  <2> QED
    BY <2>1, OverlayType
<1>3. CASE SelectScope
  BY <1>3 DEF SelectScope, Persist
<1>4. CASE SendWords \/ ReadMaterial
  <2>1. \/ live' = live
        \/ live' = [live EXCEPT !.phase = "uploading"]
        \/ send.step = "read" /\ live' = [send.record EXCEPT !.phase = "uploading"]
    BY <1>4 DEF SendWords, ReadMaterial, Begins, Persist
  <2>2. "uploading" \in SendPhases
    BY DEF SendPhases
  <2>3. CASE live' = [live EXCEPT !.phase = "uploading"]
    BY <1>a, <2>2, <2>3, PhaseChange
  <2>4. CASE send.step = "read" /\ live' = [send.record EXCEPT !.phase = "uploading"]
    <3>1. send.record \in DraftRows /\ send.record.words = live.words
      BY <2>4, SendRows DEF CaptureInv, WordsRest, Sending
    <3> QED
      BY <2>2, <2>4, <3>1, PhaseChange
  <2> QED
    BY <2>1, <2>3, <2>4
<1>5. CASE PrepareUpload \/ PutPart \/ CompleteAttachment \/ FinalizeUpload \/ AcceptDraft
  <2>1. Sending /\ send.step # "read"
    BY <1>5 DEF PrepareUpload, PutPart, CompleteAttachment, FinalizeUpload, AcceptDraft, Sending
  <2>2. UNCHANGED live \/ Unanswered \/ SendFails \/ Accepts(send)
    BY <1>5 DEF PrepareUpload, PutPart, CompleteAttachment, FinalizeUpload, AcceptDraft
  <2> QED
    BY <2>1, <2>2, UnansweredEnds, SendFailsEnds, AcceptsEnds DEF CallEnds
<1>6. CASE NextDraft \/ DiscardDraft
  <2>1. BeginsNext /\ live'.id = drawn' /\ drawn' = drawn + 1
    BY <1>6, NextDraftsAreFresh DEF NextDraft, DiscardDraft, BeginsNext
  <2> QED
    BY <1>a, <2>1
<1>7. CASE Reopen
  BY <1>7 DEF Reopen
<1>8. CASE \E w \in Words : EditText(w)
  <2>1. PICK w \in Words : live' = [live EXCEPT !.words = w] /\ lag' = w
    BY <1>8 DEF EditText
  <2> QED
    BY <1>a, <2>1, WordsChange
<1>9. CASE live' = live
  BY <1>9
<1>10. CASE \/ SaveMutation \/ FlushDue \/ PageHides \/ StartRecording \/ RecordingDropped
            \/ RecorderStarts \/ ChunkArrives \/ StopRecording \/ DiscardRecording \/ SendMedia
            \/ ClearBlobs \/ (\E p \in Photos : AddPhoto(p) \/ RemovePhoto(p))
            \/ UNCHANGED <<captureVars, captureHistory>>
  BY <1>9, <1>10 DEF SaveMutation, FlushDue, PageHides, StartRecording, RecordingDropped, RecorderStarts,
    ChunkArrives, StopRecording, DiscardRecording, SendMedia, ClearBlobs, AddPhoto, RemovePhoto, captureVars
<1> QED
  BY <1>1, <1>2, <1>3, <1>4, <1>5, <1>6, <1>7, <1>8, <1>10 DEF CaptureNext

(* The text of a draft changes by typing alone (serializeRecord).          *)
THEOREM NothingTypedIsEverUndone == CaptureSpec => NothingTypedIsUndone
<1>1. CaptureTypeOK /\ CaptureInv /\ [CaptureNext]_<<captureVars, captureHistory>>
        => [live'.id = live.id /\ live'.words # live.words
              => lag' = live'.words \/ (live' = stored /\ queue' = << >>)]_<<live, lag>>
  BY WordsKept
<1> QED
  BY <1>1, CaptureInvAlways, PTL DEF CaptureSpec, NothingTypedIsUndone

-----------------------------------------------------------------------------
(* The update of a tab.  The page is replaced whole by every step that       *)
(* touches it: what a replaced page is, is stated first.                     *)

LEMMA FreshPageType ==
  ASSUME NEW c \in BOOLEAN, NEW a \in BOOLEAN
  PROVE  /\ FreshPage(c, a) \in Pages
         /\ LET p == FreshPage(c, a) IN
            /\ p.controlled = c /\ p.accepted = a /\ p.detected = FALSE /\ p.leaving = FALSE
            /\ p.prepared = "no" /\ p.awaiting = "none" /\ p.prompt = "none"
BY DEF FreshPage, Pages, Kinds

LEMMA FreshStored == [words |-> NoText, version |-> 0] \in StoredDrafts
BY NoTextIsText DEF StoredDrafts

(* What the detector says changes the episode alone.                         *)
LEMMA SinkPage ==
  ASSUME page \in Pages, NEW waits \in BOOLEAN, Sink(waits)
  PROVE  /\ page' \in Pages
         /\ page'.detected = waits /\ page'.controlled = page.controlled
         /\ page'.accepted = (page.accepted /\ (waits \/ ~page.detected))
         /\ page'.leaving = page.leaving /\ page'.prompt = page.prompt
         /\ page'.prepared = page.prepared /\ page'.awaiting = page.awaiting
BY DEF Sink, Pages

LEMMA WantedKind ==
  ASSUME NEW p \in Pages
  PROVE  /\ Wanted(p) \in Kinds
         /\ p.accepted => Wanted(p) # "available"
BY DEF Wanted, Pages, Kinds

(* What an evaluation leaves, what it may show, and what it may wait for.    *)
LEMMA EvaluatedPage ==
  ASSUME NEW p \in Pages, NEW q, q = Evaluated(p)
  PROVE  /\ q \in Pages
         /\ q.detected = p.detected /\ q.controlled = p.controlled
         /\ q.accepted = p.accepted /\ q.leaving = p.leaving
         /\ \/ q.prompt = "none" /\ q.prepared = p.prepared /\ q.awaiting = p.awaiting
            \/ p.prepared = "yes" /\ q.prepared = "yes" /\ q.prompt = Wanted(p)
                 /\ q.awaiting = p.awaiting
            \/ p.prepared # "yes" /\ q.prepared = "running" /\ q.prompt = p.prompt
                 /\ q.awaiting = Wanted(p)
<1>1. CASE Wanted(p) = "none" \/ ~Safe(p)
  BY <1>1 DEF Evaluated, Pages, Kinds
<1>2. CASE ~(Wanted(p) = "none" \/ ~Safe(p)) /\ p.prepared = "yes"
  BY <1>2, WantedKind DEF Evaluated, Pages
<1>3. CASE ~(Wanted(p) = "none" \/ ~Safe(p)) /\ p.prepared # "yes"
  BY <1>3, WantedKind DEF Evaluated, Pages
<1> QED
  BY <1>1, <1>2, <1>3

LEMMA PreparedPage ==
  ASSUME page \in Pages, PrepareDone
  PROVE  /\ page' \in Pages
         /\ page'.detected = page.detected /\ page'.controlled = page.controlled
         /\ page'.accepted = page.accepted /\ page'.leaving = page.leaving
         /\ page'.prepared = "yes" /\ page'.awaiting = "none" /\ page'.prompt = page.awaiting
BY DEF PrepareDone, Pages, Kinds

LEMMA UpdateTypeStep ==
  ASSUME UpdateTypeOK, [UpdateNext]_<<updateVars, updateHistory>>
  PROVE  UpdateTypeOK'
<1> USE DEF UpdateTypeOK
<1>1. CASE ResolveDetector
  <2>1. page' \in Pages
    BY <1>1 DEF ResolveDetector, Pages
  <2> QED
    BY <1>1, <2>1 DEF ResolveDetector, updateHistory
<1>2. CASE UpdateFound
  <2>1. browser' \in Browsers
    BY <1>2 DEF UpdateFound, Browsers
  <2>2. page' \in Pages
    BY <1>2, SinkPage DEF UpdateFound
  <2> QED
    BY <1>2, <2>1, <2>2 DEF UpdateFound
<1>3. CASE WorkerInstalls
  <2>1. browser' \in Browsers
    BY <1>3 DEF WorkerInstalls, Browsers
  <2>2. page.controlled \in BOOLEAN
    BY DEF Pages
  <2>3. page' \in Pages
    BY <1>3, <2>2, SinkPage DEF WorkerInstalls
  <2> QED
    BY <1>3, <2>1, <2>3 DEF WorkerInstalls, updateHistory
<1>4. CASE InstallFails
  <2>1. browser' \in Browsers
    BY <1>4 DEF InstallFails, Browsers
  <2> QED
    BY <1>4, <2>1 DEF InstallFails, updateHistory
<1>5. CASE PollDetector
  BY <1>5, SinkPage DEF PollDetector, updateHistory
<1>6. CASE PollHandshake
  <2>1. PICK answer \in {"newer", "supported", "unavailable"} :
          page' = Evaluated([page EXCEPT !.unsupported = (answer = "newer")])
    BY <1>6 DEF PollHandshake
  <2>2. [page EXCEPT !.unsupported = (answer = "newer")] \in Pages
    BY DEF Pages
  <2>3. page' \in Pages
    BY <2>1, <2>2, EvaluatedPage
  <2> QED
    BY <1>6, <2>3 DEF PollHandshake, updateHistory
<1>7. CASE ReadRecord
  BY <1>7, PreparedPage DEF ReadRecord, updateHistory
<1>8. CASE WriteRecord
  <2>1. kept' \in StoredDrafts
    BY <1>8 DEF WriteRecord, StoredDrafts
  <2> QED
    BY <1>8, <2>1, PreparedPage DEF WriteRecord, updateHistory
<1>9. CASE \E w \in Texts : TypeText(w)
  <2>1. PICK w \in Texts : TypeText(w)
    BY <1>9
  <2>2. draft' \in StoredDrafts /\ page' \in Pages
    BY <2>1 DEF TypeText, StoredDrafts, Pages
  <2> QED
    BY <2>1, <2>2 DEF TypeText
<1>10. CASE StoreText
  BY <1>10 DEF StoreText, updateHistory
<1>11. CASE InputSettles
  <2>1. page' \in Pages
    BY <1>11 DEF InputSettles, Pages
  <2> QED
    BY <1>11, <2>1 DEF InputSettles, updateHistory
<1>12. CASE Hides
  <2>1. page' \in Pages /\ page.visible \in BOOLEAN
    BY <1>12 DEF Hides, Pages
  <2> QED
    BY <1>12, <2>1 DEF Hides, Flushed, updateHistory
<1>13. CASE PerformUpdate
  <2>1. page' \in Pages
    BY <1>13 DEF PerformUpdate, Pages
  <2> QED
    BY <1>13, <2>1 DEF PerformUpdate, Flushed, updateHistory
<1>a. browser.active \in BOOLEAN /\ page.leaving \in BOOLEAN
  BY DEF Browsers, Pages
<1>14. CASE Reload
  BY <1>14, <1>a, FreshPageType DEF Reload, Loads, Flushed
<1>15. CASE TabDies
  BY <1>15, <1>a, FreshPageType DEF TabDies, Loads
<1>16. CASE TabCloses
  <2>1. browser' \in Browsers
    BY <1>16 DEF TabCloses, Browsers
  <2> QED
    BY <1>16, <1>a, <2>1, FreshPageType DEF TabCloses, Flushed
<1>17. CASE UNCHANGED <<updateVars, updateHistory>>
  BY <1>17 DEF updateVars, updateHistory
<1> QED
  BY <1>1, <1>2, <1>3, <1>4, <1>5, <1>6, <1>7, <1>8, <1>9, <1>10, <1>11, <1>12, <1>13, <1>14,
     <1>15, <1>16, <1>17 DEF UpdateNext

(* The type of the variables of an update.                                   *)
THEOREM UpdateTypeCorrect == UpdateSpec => []UpdateTypeOK
<1>1. UpdateInit => UpdateTypeOK
  <2> SUFFICES ASSUME UpdateInit PROVE UpdateTypeOK
    OBVIOUS
  <2>1. browser \in Browsers /\ browser.active \in BOOLEAN
    BY DEF UpdateInit, Browsers
  <2> QED
    BY <2>1, FreshPageType, FreshStored, NoTextIsText DEF UpdateInit, UpdateTypeOK
<1> QED
  BY <1>1, UpdateTypeStep, PTL DEF UpdateSpec

-----------------------------------------------------------------------------
(* The invariant.                                                            *)

LEMMA UpdateInvStep ==
  ASSUME UpdateTypeOK, UpdateInv, [UpdateNext]_<<updateVars, updateHistory>>
  PROVE  UpdateInv'
<1>t. /\ page \in Pages /\ browser.active \in BOOLEAN /\ mark \in BOOLEAN
      /\ page.leaving \in BOOLEAN /\ page.controlled \in BOOLEAN /\ page.detected \in BOOLEAN
      /\ page.accepted \in BOOLEAN /\ page.awaiting \in Kinds
  BY DEF UpdateTypeOK, Pages, Browsers
<1> USE DEF UpdateInv, PreparedBeforePrompt, WordsComeBack
<1>1. CASE ResolveDetector
  <2>1. /\ page'.detected = page.detected /\ page'.controlled = page.controlled
        /\ page'.leaving = page.leaving /\ page'.accepted = page.accepted
        /\ page'.prompt = page.prompt /\ page'.awaiting = page.awaiting
        /\ page'.prepared = page.prepared
    BY <1>1, <1>t DEF ResolveDetector, Pages
  <2> QED
    BY <1>1, <2>1 DEF ResolveDetector, updateHistory
<1>2. CASE UpdateFound
  BY <1>2, <1>t, SinkPage DEF UpdateFound
<1>3. CASE WorkerInstalls
  BY <1>3, <1>t, SinkPage DEF WorkerInstalls, updateHistory
<1>4. CASE InstallFails
  BY <1>4 DEF InstallFails, updateHistory
<1>5. CASE PollDetector
  BY <1>5, <1>t, SinkPage DEF PollDetector, updateHistory
<1>6. CASE PollHandshake
  <2>1. PICK answer \in {"newer", "supported", "unavailable"} :
          page' = Evaluated([page EXCEPT !.unsupported = (answer = "newer")])
    BY <1>6 DEF PollHandshake
  <2> DEFINE polled == [page EXCEPT !.unsupported = (answer = "newer")]
  <2>2. /\ polled \in Pages
        /\ polled.detected = page.detected /\ polled.controlled = page.controlled
        /\ polled.leaving = page.leaving /\ polled.accepted = page.accepted
        /\ polled.prompt = page.prompt /\ polled.awaiting = page.awaiting
        /\ polled.prepared = page.prepared
    BY <1>t DEF Pages
  <2> HIDE DEF polled
  <2>3. page' = Evaluated(polled)
    BY <2>1 DEF polled
  <2>4. /\ page'.detected = page.detected /\ page'.controlled = page.controlled
        /\ page'.accepted = page.accepted /\ page'.leaving = page.leaving
        /\ \/ /\ page'.prompt = "none" /\ page'.prepared = page.prepared
              /\ page'.awaiting = page.awaiting
           \/ /\ page.prepared = "yes" /\ page'.prepared = "yes"
              /\ page'.prompt = Wanted(polled) /\ page'.awaiting = page.awaiting
           \/ /\ page.prepared # "yes" /\ page'.prepared = "running"
              /\ page'.prompt = page.prompt /\ page'.awaiting = Wanted(polled)
    BY <2>2, <2>3, EvaluatedPage
  <2>5. page.accepted => Wanted(polled) # "available"
    BY <2>2, WantedKind
  <2>6. UNCHANGED <<browser, mark, draft, late, kept, held, typed, agreed, renewed, died>>
    BY <1>6 DEF PollHandshake, updateHistory
  <2> QED
    BY <2>4, <2>5, <2>6
<1>7. CASE ReadRecord
  BY <1>7, <1>t, PreparedPage DEF ReadRecord, Prepares, updateHistory
<1>8. CASE WriteRecord
  BY <1>8, <1>t, PreparedPage DEF WriteRecord, updateHistory
<1>9. CASE \E w \in Texts : TypeText(w)
  <2>1. PICK w \in Texts : TypeText(w)
    BY <1>9
  <2>2. draft'.words = w /\ typed' = w
    BY <2>1 DEF TypeText, UpdateTypeOK, StoredDrafts
  <2>3. /\ page'.detected = page.detected /\ page'.controlled = page.controlled
        /\ page'.leaving = page.leaving /\ page'.accepted = page.accepted
        /\ page'.prompt = page.prompt /\ page'.awaiting = page.awaiting
        /\ page'.prepared = page.prepared
    BY <2>1, <1>t DEF TypeText, Pages
  <2> QED
    BY <2>1, <2>2, <2>3 DEF TypeText
<1>10. CASE StoreText
  BY <1>10 DEF StoreText, updateHistory
<1>11. CASE InputSettles
  <2>1. /\ page'.detected = page.detected /\ page'.controlled = page.controlled
        /\ page'.leaving = page.leaving /\ page'.accepted = page.accepted
        /\ page'.prompt = page.prompt /\ page'.awaiting = page.awaiting
        /\ page'.prepared = page.prepared
    BY <1>11, <1>t DEF InputSettles, Pages
  <2> QED
    BY <1>11, <2>1 DEF InputSettles, updateHistory
<1>12. CASE Hides
  <2>1. /\ page'.detected = page.detected /\ page'.controlled = page.controlled
        /\ page'.leaving = page.leaving /\ page'.accepted = page.accepted
        /\ page'.prompt = page.prompt /\ page'.awaiting = page.awaiting
        /\ page'.prepared = page.prepared
    BY <1>12, <1>t DEF Hides, Pages
  <2> QED
    BY <1>12, <2>1 DEF Hides, updateHistory
<1>13. CASE PerformUpdate
  <2>1. /\ page'.detected = page.detected /\ page'.controlled = page.controlled
        /\ page'.accepted = page.accepted
        /\ page'.prompt = page.prompt /\ page'.awaiting = page.awaiting
        /\ page'.prepared = page.prepared
    BY <1>13, <1>t DEF PerformUpdate, Pages
  <2> QED
    BY <1>13, <2>1 DEF PerformUpdate, updateHistory
<1>14. CASE Reload
  <2>1. /\ page' = FreshPage(browser.active, mark) /\ agreed' = page.leaving /\ renewed' = FALSE
        /\ held' = NoRecord /\ draft' = draft /\ UNCHANGED <<typed, died>>
    BY <1>14 DEF Reload, Loads, Flushed
  <2>2. died' \/ draft'.words = typed'
    BY <2>1
  <2>3. /\ page'.detected = FALSE /\ page'.leaving = FALSE /\ page'.accepted = mark
        /\ page'.prompt = "none" /\ page'.awaiting = "none"
    BY <2>1 DEF FreshPage
  <2>4. agreed' => page'.accepted
    BY <2>1, <2>3
  <2> QED
    BY <2>1, <2>2, <2>3, <2>4
<1>15. CASE TabDies
  <2>1. /\ page' = FreshPage(browser.active, mark) /\ agreed' = page.leaving /\ renewed' = FALSE
        /\ held' = NoRecord
    BY <1>15 DEF TabDies, Loads
  <2>2. died' \/ draft'.words = typed'
    BY <1>15 DEF TabDies, Loads
  <2>3. /\ page'.detected = FALSE /\ page'.leaving = FALSE /\ page'.accepted = mark
        /\ page'.prompt = "none" /\ page'.awaiting = "none"
    BY <2>1 DEF FreshPage
  <2>4. agreed' => page'.accepted
    BY <2>1, <2>3
  <2> QED
    BY <2>1, <2>2, <2>3, <2>4
<1>16. CASE TabCloses
  <2>1. /\ page' = FreshPage(browser.active, FALSE) /\ agreed' = FALSE /\ renewed' = FALSE
        /\ held' = NoRecord /\ draft' = draft /\ UNCHANGED <<typed, died>>
    BY <1>16 DEF TabCloses, Flushed
  <2>2. died' \/ draft'.words = typed'
    BY <2>1
  <2>3. /\ page'.detected = FALSE /\ page'.leaving = FALSE /\ page'.accepted = FALSE
        /\ page'.prompt = "none" /\ page'.awaiting = "none"
    BY <2>1 DEF FreshPage
  <2> QED
    BY <2>1, <2>2, <2>3
<1>17. CASE UNCHANGED <<updateVars, updateHistory>>
  BY <1>17 DEF updateVars, updateHistory
<1> QED
  BY <1>1, <1>2, <1>3, <1>4, <1>5, <1>6, <1>7, <1>8, <1>9, <1>10, <1>11, <1>12, <1>13, <1>14,
     <1>15, <1>16, <1>17 DEF UpdateNext

(* The invariant of the update: a button that was pressed has left its mark,  *)
(* a page that took one asks for no worker of before, and a migration ends    *)
(* before what waits for it is shown.                                         *)
THEOREM UpdateInvAlways == UpdateSpec => []UpdateInv
<1>1. UpdateInit => UpdateInv
  <2> SUFFICES ASSUME UpdateInit PROVE UpdateInv
    OBVIOUS
  <2>1. browser.active \in BOOLEAN
    BY DEF UpdateInit
  <2> QED
    BY <2>1, FreshPageType DEF UpdateInit, UpdateInv, PreparedBeforePrompt, WordsComeBack
<1>2. UpdateTypeOK /\ UpdateInv /\ [UpdateNext]_<<updateVars, updateHistory>> => UpdateInv'
  BY UpdateInvStep
<1> QED
  BY <1>1, <1>2, UpdateTypeCorrect, PTL DEF UpdateSpec

(* What was typed last is what the draft holds, through every reload, close   *)
(* and migration, unless a tab died before it was stored (performUpdate).     *)
THEOREM WordsAlwaysComeBack == UpdateSpec => []WordsComeBack
<1>1. UpdateInv => WordsComeBack
  BY DEF UpdateInv
<1> QED
  BY <1>1, UpdateInvAlways, PTL

(* No worker is offered twice to the tab that agreed to it, and no prompt is  *)
(* shown over a migration that runs (evaluateNow).                            *)
THEOREM AcceptedIsNeverAskedAgain ==
  UpdateSpec => [](AcceptedIsNotAskedAgain /\ PreparedBeforePrompt)
<1>1. UpdateInv => AcceptedIsNotAskedAgain /\ PreparedBeforePrompt
  BY DEF UpdateInv, AcceptedIsNotAskedAgain
<1> QED
  BY <1>1, UpdateInvAlways, PTL
=============================================================================
