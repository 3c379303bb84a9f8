------------------------------- MODULE Capture -------------------------------
(* The composer of the web client (features/capture, storage/drafts): one     *)
(* draft per person, in the memory of the tab and in the browser's storage;   *)
(* the queue of its mutations; the recorder; and the send, call by call,      *)
(* against what the server keeps under the id of the draft.  Writes to the    *)
(* storage are ordered as they are requested; between the write of a blob,    *)
(* the save of the record that names it and the return to the live record     *)
(* anything may happen, the death of the tab included.                        *)
EXTENDS Naturals, Sequences, FiniteSets

CONSTANTS
  LastDraft,        \* drafts have the ids 1 .. LastDraft, in the order they are drawn
  Words, NoWords,   \* what may be typed
  Photos,
  Takes,            \* recordings of one tab's life and those after it: 1 .. Takes
  MaxChunks,        \* chunks of a recording; one is one part of the upload
  MaxAttachments,
  Attempts,         \* calls of one step before it gives up
  StorageFails,     \* whether a write to the storage may fail
  Absent

Drafts == 1 .. LastDraft
Chunks == 1 .. MaxChunks
Slots == 0 .. MaxAttachments        \* 0 is the recording, the others the photos in order
Contents == (1 .. Takes) \union Photos \union {Absent}

ASSUME CaptureNumbers ==
  /\ LastDraft \in Nat \ {0} /\ Takes \in Nat /\ MaxChunks \in Nat \ {0}
  /\ MaxAttachments \in Nat /\ Attempts \in Nat \ {0} /\ StorageFails \in BOOLEAN
  /\ NoWords \in Words /\ Absent \notin (1 .. Takes) \union Photos \union Words

VARIABLES
  drawn,      \* the drafts that have begun: 1 .. drawn
  live,       \* draftRef: the record the composer shows
  stored,     \* the record in the storage
  blobs,      \* what is in the storage under the key of a chunk or of a photo
  queue,      \* the mutations that wait; the first may be under way
  turn,       \* how far it is, and the record it read
  lag,        \* the words whose flush is due, or Absent
  mic,        \* the recorder
  send,       \* the send under way
  server,     \* per draft: the declaration, the parts, the source
  shown       \* an error of the storage, and a message sent, are shown

captureVars == <<drawn, live, stored, blobs, queue, turn, lag, mic, send, server, shown>>

VARIABLES asked, discarded, unwritten     \* drafts sent and given up; a write failed
captureHistory == <<asked, discarded, unwritten>>

Recordings == [take : 0 .. Takes, count : 0 .. MaxChunks]
NoRecording == [take |-> 0, count |-> 0]
SendPhases == {"composing", "uploading", "accepting"}
DraftRows == [id : Drafts, words : Words, recording : Recordings, photos : Seq(Photos), phase : SendPhases]
FreshDraft(d) ==
  [id |-> d, words |-> NoWords, recording |-> NoRecording, photos |-> << >>, phase |-> "composing"]

Mutations ==
  [kind : {"append"}, take : 1 .. Takes, chunk : Chunks]
    \union [kind : {"start"}, take : 1 .. Takes]
    \union [kind : {"add", "remove"}, photo : Photos]
    \union [kind : {"flush"}, words : Words]
    \union [kind : {"stop", "degrade", "discard"}]
NoTurn == [step |-> "idle", held |-> Absent]

Materials == {m \in [Slots -> Seq(Contents \ {Absent})] : \A a \in Slots : Len(m[a]) <= MaxChunks}
NoSend == [step |-> "none", record |-> Absent, material |-> [a \in Slots |-> << >>],
           open |-> {}, left |-> [a \in Slots |-> {}], tries |-> 0]
Undeclared == [images |-> 0, parts |-> 0, audio |-> FALSE]
NoUpload == [declared |-> Undeclared, manifest |-> [a \in Slots |-> [n \in Chunks |-> Absent]],
             completed |-> {}, finalized |-> FALSE, source |-> Absent]

Heard == [Slots -> [Chunks -> Contents]]
SourceRows == [words : Words, media : Heard]
Uploads == [declared : [images : Slots, parts : 0 .. MaxChunks, audio : BOOLEAN], manifest : Heard,
            completed : SUBSET Slots, finalized : BOOLEAN, source : {Absent} \union SourceRows]

Turns == [step : {"idle", "written", "saved"}, held : DraftRows \union {Absent}]
Recorders ==
  [state : {"idle", "waiting", "starting", "recording"}, take : 0 .. Takes, chunk : 0 .. MaxChunks]
Sends ==
  [step : {"none", "read", "prepare", "upload", "finalize", "accept", "clear", "next"},
   record : DraftRows \union {Absent}, material : Materials,
   open : SUBSET Slots, left : [Slots -> SUBSET Chunks], tries : 0 .. Attempts]
Blobs == [chunks : [Chunks -> 0 .. Takes], photos : SUBSET Photos]

ASSUME AbsentIsNoSource == Absent \notin SourceRows

Sending == send.step # "none"
Capturing == mic.state \in {"starting", "recording"}
WasInterrupted == ~Sending /\ live.phase # "composing"
Used == {live.photos[n] : n \in DOMAIN live.photos}
          \union {queue[n].photo : n \in {m \in DOMAIN queue : queue[m].kind \in {"add", "remove"}}}

CaptureTypeOK ==
  /\ drawn \in Drafts /\ live \in DraftRows /\ stored \in DraftRows
  /\ blobs \in Blobs
  /\ queue \in Seq(Mutations) /\ turn \in Turns
  /\ lag \in Words \union {Absent}
  /\ mic \in Recorders
  /\ send \in Sends
  /\ server \in [Drafts -> Uploads]
  /\ shown \in [alarm : BOOLEAN, sent : BOOLEAN]
  /\ asked \subseteq Drafts /\ discarded \subseteq Drafts /\ unwritten \in BOOLEAN

CaptureInit ==
  /\ drawn = 1 /\ live = FreshDraft(1) /\ stored = FreshDraft(1)
  /\ blobs = [chunks |-> [n \in Chunks |-> 0], photos |-> {}]
  /\ queue = << >> /\ turn = NoTurn /\ lag = Absent
  /\ mic = [state |-> "idle", take |-> 0, chunk |-> 0]
  /\ send = NoSend
  /\ server = [d \in Drafts |-> NoUpload]
  /\ shown = [alarm |-> FALSE, sent |-> FALSE]
  /\ asked = {} /\ discarded = {} /\ unwritten = FALSE

(******************************************************************************)
(* Writing the record.  A write that fails is shown; persist marks the draft, *)
(* which from then on is not promised to survive.                             *)
(******************************************************************************)
SaveDraft(row) ==
  \/ stored' = row /\ UNCHANGED <<shown, unwritten>>
  \/ /\ StorageFails
     /\ shown' = [shown EXCEPT !.alarm = TRUE] /\ unwritten' = TRUE
     /\ UNCHANGED stored

Persist(row) == live' = row /\ SaveDraft(row)

Enqueue(tasks) == queue' = queue \o tasks

(******************************************************************************)
(* The queue.  A task reads the live record when its turn comes, writes its   *)
(* blob, saves the record it read with its change, and then puts its change,  *)
(* and nothing else, over the live record.                                    *)
(******************************************************************************)
ChunksOf(row) == {n \in Chunks : n <= row.recording.count}

\* The blob is written, or is not and the task is over.
TouchBlobs(task, row) ==
  CASE task.kind = "append"  -> [blobs EXCEPT !.chunks[task.chunk] = task.take]
    [] task.kind = "discard" -> [blobs EXCEPT !.chunks =
                                   [n \in Chunks |-> IF n \in ChunksOf(row) THEN 0 ELSE @[n]]]
    [] task.kind = "add"     -> [blobs EXCEPT !.photos = @ \union {task.photo}]
    [] task.kind = "remove"  -> [blobs EXCEPT !.photos = @ \ {task.photo}]

BlobKinds == {"append", "discard", "add", "remove"}
Leaves == queue' = Tail(queue) /\ turn' = NoTurn
\* A chunk that fails is reported once more through the queue.
Breaks(task) ==
  /\ StorageFails
  /\ queue' = IF task.kind = "append" THEN Append(Tail(queue), [kind |-> "degrade"]) ELSE Tail(queue)
  /\ turn' = NoTurn
  /\ shown' = IF task.kind = "append" THEN shown ELSE [shown EXCEPT !.alarm = TRUE]
  /\ unwritten' = TRUE

BeginMutation ==
  /\ queue # << >> /\ turn.step = "idle"
  /\ LET task == Head(queue) IN
       \/ /\ task.kind = "start"
          /\ Persist([live EXCEPT !.recording = [take |-> task.take, count |-> 0]])
          /\ Leaves /\ UNCHANGED blobs
       \/ /\ \/ task.kind = "stop" /\ live.recording # NoRecording
             \/ task.kind = "degrade"
             \/ task.kind = "flush" /\ live.words = task.words
          /\ Persist(live) /\ Leaves /\ UNCHANGED blobs
       \/ /\ \/ task.kind \in {"stop", "discard"} /\ live.recording = NoRecording
             \/ task.kind = "flush" /\ live.words # task.words
          /\ Leaves /\ UNCHANGED <<live, stored, blobs, shown, unwritten>>
       \/ /\ task.kind \in BlobKinds
          /\ task.kind = "discard" => live.recording # NoRecording
          /\ \/ /\ blobs' = TouchBlobs(task, live)
                /\ turn' = [step |-> "written", held |-> live]
                /\ UNCHANGED <<queue, shown, unwritten>>
             \/ Breaks(task) /\ UNCHANGED blobs
          /\ UNCHANGED <<live, stored>>
  /\ UNCHANGED <<drawn, lag, mic, send, server, asked, discarded>>

\* A photo is in a draft once.
Without(photos, p) ==
  IF \A n \in DOMAIN photos : photos[n] # p THEN photos
  ELSE LET gone == CHOOSE n \in DOMAIN photos : photos[n] = p
       IN [n \in 1 .. Len(photos) - 1 |-> IF n < gone THEN photos[n] ELSE photos[n + 1]]

Changed(row, task) ==
  CASE task.kind = "append"  -> [row EXCEPT !.recording =
                                   [take |-> IF @.take = 0 THEN task.take ELSE @.take,
                                    count |-> IF @.count > task.chunk THEN @.count ELSE task.chunk]]
    [] task.kind = "discard" -> [row EXCEPT !.recording = NoRecording]
    [] task.kind = "add"     -> [row EXCEPT !.photos = Append(@, task.photo)]
    [] task.kind = "remove"  -> [row EXCEPT !.photos = Without(@, task.photo)]
    [] OTHER                 -> row

SaveMutation ==
  /\ turn.step = "written"
  /\ \/ /\ stored' = Changed(turn.held, Head(queue))
        /\ turn' = [turn EXCEPT !.step = "saved"]
        /\ UNCHANGED <<queue, shown, unwritten>>
     \/ Breaks(Head(queue)) /\ UNCHANGED stored
  /\ UNCHANGED <<drawn, live, blobs, lag, mic, send, server, asked, discarded>>

\* A fault: the whole record that was read goes over the live one.
OverlayWhole(task) == Changed(turn.held, task)

Overlay(task) ==
  IF task.kind \in {"append", "discard"}
  THEN [live EXCEPT !.recording = Changed(turn.held, task).recording]
  ELSE [live EXCEPT !.photos = Changed(turn.held, task).photos]

EndMutation ==
  /\ turn.step = "saved"
  /\ live' = Overlay(Head(queue))
  /\ Leaves
  /\ UNCHANGED <<drawn, stored, blobs, lag, mic, send, server, shown, asked, discarded, unwritten>>

(******************************************************************************)
(* Writing: text is live at once and stored by a timer, or when the page is   *)
(* hidden; the scope of the message is saved with the record.                 *)
(******************************************************************************)
EditText(w) ==
  /\ ~Sending
  /\ live' = [live EXCEPT !.words = w]
  /\ lag' = w
  /\ UNCHANGED <<drawn, stored, blobs, queue, turn, mic, send, server, shown, asked, discarded, unwritten>>

FlushDue ==
  /\ lag # Absent
  /\ Enqueue(<<[kind |-> "flush", words |-> lag]>>)
  /\ lag' = Absent
  /\ UNCHANGED <<drawn, live, stored, blobs, turn, mic, send, server, shown, asked, discarded, unwritten>>

PageHides ==
  /\ lag' = Absent
  /\ stored' = live
  /\ UNCHANGED <<drawn, live, blobs, queue, turn, mic, send, server, shown, asked, discarded, unwritten>>

SelectScope ==
  /\ ~Sending /\ ~WasInterrupted
  /\ Persist(live)
  /\ UNCHANGED <<drawn, blobs, queue, turn, lag, mic, send, server, asked, discarded>>

(******************************************************************************)
(* The recorder: a new recording drops the one before; every chunk goes       *)
(* through the queue, the last one before the end is reported.                *)
(******************************************************************************)
StartRecording ==
  /\ ~Sending /\ ~WasInterrupted /\ mic.state = "idle"
  /\ IF live.recording = NoRecording
     THEN mic' = [mic EXCEPT !.state = "starting"] /\ UNCHANGED queue
     ELSE mic' = [mic EXCEPT !.state = "waiting"] /\ Enqueue(<<[kind |-> "discard"]>>)
  /\ UNCHANGED <<drawn, live, stored, blobs, turn, lag, send, server, shown, asked, discarded, unwritten>>

RecordingDropped ==
  /\ mic.state = "waiting" /\ \A n \in DOMAIN queue : queue[n].kind # "discard"
  /\ mic' = [mic EXCEPT !.state = "starting"]
  /\ UNCHANGED <<drawn, live, stored, blobs, queue, turn, lag, send, server, shown, asked, discarded, unwritten>>

\* The microphone is granted, or it is not.
RecorderStarts ==
  /\ mic.state = "starting"
  /\ \/ mic' = [mic EXCEPT !.state = "idle"] /\ UNCHANGED queue
     \/ /\ mic.take < Takes
        /\ mic' = [state |-> "recording", take |-> mic.take + 1, chunk |-> 0]
        /\ Enqueue(<<[kind |-> "start", take |-> mic.take + 1]>>)
  /\ UNCHANGED <<drawn, live, stored, blobs, turn, lag, send, server, shown, asked, discarded, unwritten>>

NextChunk == [kind |-> "append", take |-> mic.take, chunk |-> mic.chunk + 1]

ChunkArrives ==
  /\ mic.state = "recording" /\ mic.chunk < MaxChunks
  /\ Enqueue(<<NextChunk>>)
  /\ mic' = [mic EXCEPT !.chunk = @ + 1]
  /\ UNCHANGED <<drawn, live, stored, blobs, turn, lag, send, server, shown, asked, discarded, unwritten>>

StopRecording ==
  /\ mic.state = "recording" /\ mic.chunk < MaxChunks
  /\ Enqueue(<<NextChunk, [kind |-> "stop"]>>)
  /\ mic' = [mic EXCEPT !.state = "idle"]
  /\ UNCHANGED <<drawn, live, stored, blobs, turn, lag, send, server, shown, asked, discarded, unwritten>>

\* The button stays while a message is sent.
DiscardRecording ==
  /\ live.recording # NoRecording /\ ~Capturing
  /\ Enqueue(<<[kind |-> "discard"]>>)
  /\ mic' = [mic EXCEPT !.state = IF @ = "waiting" THEN @ ELSE "idle"]
  /\ UNCHANGED <<drawn, live, stored, blobs, turn, lag, send, server, shown, asked, discarded, unwritten>>

AddPhoto(p) ==
  /\ ~Sending /\ ~WasInterrupted
  /\ p \notin Used \union blobs.photos
  /\ Len(live.photos) + (IF live.recording = NoRecording THEN 0 ELSE 1) < MaxAttachments
  /\ Enqueue(<<[kind |-> "add", photo |-> p]>>)
  /\ UNCHANGED <<drawn, live, stored, blobs, turn, lag, mic, send, server, shown, asked, discarded, unwritten>>

RemovePhoto(p) ==
  /\ ~Sending /\ ~WasInterrupted
  /\ \E n \in DOMAIN live.photos : live.photos[n] = p
  /\ Enqueue(<<[kind |-> "remove", photo |-> p]>>)
  /\ UNCHANGED <<drawn, live, stored, blobs, turn, lag, mic, send, server, shown, asked, discarded, unwritten>>

(******************************************************************************)
(* The send.  The record is read once; the material is read from the storage; *)
(* then every call is made until it is answered, and given up after Attempts  *)
(* lost ones.  A person is slower than one write: no task of an earlier draft *)
(* is under way when a message is sent.                                       *)
(******************************************************************************)
HasMedia(row) == row.recording.count > 0 \/ row.photos # << >>

MaySend ==
  /\ ~Sending /\ ~Capturing
  /\ turn.step # "idle" => turn.held.id = live.id

Assembled(row) ==
  [a \in Slots |->
     IF a = 0 THEN [n \in 1 .. row.recording.count |-> blobs.chunks[n]]
     ELSE IF a \in DOMAIN row.photos THEN <<row.photos[a]>> ELSE << >>]

Begins(row) ==
  /\ send' = [NoSend EXCEPT !.step = "prepare", !.record = row, !.material = Assembled(row), !.tries = 1]
  /\ Persist([row EXCEPT !.phase = "uploading"])
  /\ asked' = asked \union {row.id}

\* Words alone go out at once.
SendWords ==
  /\ MaySend /\ live.words # NoWords /\ ~HasMedia(live)
  /\ Begins(live)
  /\ UNCHANGED <<drawn, blobs, queue, turn, lag, mic, server, discarded>>

SendMedia ==
  /\ MaySend /\ HasMedia(live)
  /\ send' = [NoSend EXCEPT !.step = "read", !.record = live]
  /\ shown' = [shown EXCEPT !.sent = FALSE]
  /\ UNCHANGED <<drawn, live, stored, blobs, queue, turn, lag, mic, server, asked, discarded, unwritten>>

Readable(row) ==
  /\ \A n \in ChunksOf(row) : blobs.chunks[n] # 0
  /\ \A n \in DOMAIN row.photos : row.photos[n] \in blobs.photos

\* What cannot be read back is not sent.
ReadMaterial ==
  /\ send.step = "read"
  /\ \/ Readable(send.record) /\ Begins(send.record)
     \/ /\ ~Readable(send.record)
        /\ send' = NoSend
        /\ UNCHANGED <<live, asked>>
        /\ \/ stored' = live /\ UNCHANGED unwritten
           \/ StorageFails /\ unwritten' = TRUE /\ UNCHANGED stored
        /\ shown' = [shown EXCEPT !.alarm = @ \/ unwritten'
                                     \/ \E n \in ChunksOf(send.record) : blobs.chunks[n] = 0]
  /\ UNCHANGED <<drawn, blobs, queue, turn, lag, mic, server, discarded>>

\* A fault: a send that fails ends like one that was answered.
FailsAsSent ==
  /\ send' = [send EXCEPT !.step = "clear"]
  /\ UNCHANGED <<live, stored, shown, unwritten>>

SendFails ==
  /\ send' = NoSend
  /\ Persist([live EXCEPT !.phase = IF @ = "accepting" THEN @ ELSE "uploading"])

\* A call that gets no answer, whether or not it was carried out.
Unanswered ==
  \/ /\ send.tries < Attempts /\ send' = [send EXCEPT !.tries = @ + 1]
     /\ UNCHANGED <<live, stored, shown, unwritten>>
  \/ send.tries = Attempts /\ SendFails

Makes(calls) == send' = [calls EXCEPT !.tries = 1]
Upload == server[send.record.id]
Serves(row) == server' = [server EXCEPT ![send.record.id] = row]

Audible == send.material[0] # << >>
Images == Cardinality({a \in Slots \ {0} : send.material[a] # << >>})
Attached == {a \in Slots : send.material[a] # << >>}
Longest == IF Len(send.material[0]) > 1 THEN Len(send.material[0]) ELSE 1
Declaration == [images |-> Images, parts |-> Longest, audio |-> Audible]

Missing(row, a) == {n \in 1 .. Len(send.material[a]) : row.manifest[a][n] = Absent}

\* The progress shows the acceptance, and the record with it.
Accepts(calls) == Makes([calls EXCEPT !.step = "accept"]) /\ Persist([live EXCEPT !.phase = "accepting"])

PrepareUpload ==
  /\ send.step = "prepare"
  /\ LET row == IF Upload.declared = Undeclared THEN [Upload EXCEPT !.declared = Declaration] ELSE Upload
         open == Attached \ row.completed
         calls == [send EXCEPT !.step = "upload", !.open = open,
                               !.left = [a \in Slots |-> IF a \in open THEN Missing(row, a) ELSE {}]]
     IN \/ UNCHANGED server /\ Unanswered
        \/ Serves(row) /\ Unanswered
        \/ row.declared # Declaration /\ UNCHANGED server /\ SendFails
        \/ /\ row.declared = Declaration /\ Serves(row)
           /\ IF Attached = {} \/ row.finalized THEN Accepts(send)
              ELSE Makes(calls) /\ UNCHANGED <<live, stored, shown, unwritten>>
  /\ UNCHANGED <<drawn, blobs, queue, turn, lag, mic, asked, discarded>>

Next1(S) == CHOOSE n \in S : \A m \in S : n <= m

\* The store refuses a part now and then, and an answer that says so is not looked at.
PutPart ==
  /\ send.step = "upload" /\ send.open # {}
  /\ LET a == Next1(send.open)
         n == Next1(send.left[a])
         row == [Upload EXCEPT !.manifest[a][n] = send.material[a][n]]
         taken == a \notin Upload.completed /\ Upload.manifest[a][n] = Absent
     IN /\ send.left[a] # {}
        /\ \/ UNCHANGED server
           \/ taken /\ Serves(row)
        /\ \/ Unanswered
           \/ /\ Makes([send EXCEPT !.left[a] = @ \ {n}])
              /\ UNCHANGED <<live, stored, shown, unwritten>>
  /\ UNCHANGED <<drawn, blobs, queue, turn, lag, mic, asked, discarded>>

\* An attachment completes from the parts that are recorded, if there are any.
CompleteAttachment ==
  /\ send.step = "upload" /\ send.open # {}
  /\ LET a == Next1(send.open)
         some == a \in Upload.completed \/ \E n \in Chunks : Upload.manifest[a][n] # Absent
         row == [Upload EXCEPT !.completed = @ \union {a}]
     IN /\ send.left[a] = {}
        /\ \/ UNCHANGED server /\ (Unanswered \/ SendFails)
           \/ some /\ Serves(row) /\ Unanswered
           \/ /\ some /\ Serves(row)
              /\ Makes([send EXCEPT !.open = @ \ {a}, !.step = IF send.open = {a} THEN "finalize" ELSE @])
              /\ UNCHANGED <<live, stored, shown, unwritten>>
  /\ UNCHANGED <<drawn, blobs, queue, turn, lag, mic, asked, discarded>>

FinalizeUpload ==
  /\ send.step = "finalize"
  /\ LET row == [Upload EXCEPT !.finalized = TRUE]
     IN \/ UNCHANGED server /\ Unanswered
        \/ Serves(row) /\ Unanswered
        \/ Serves(row) /\ Accepts(send)
  /\ UNCHANGED <<drawn, blobs, queue, turn, lag, mic, asked, discarded>>

\* One source per draft: the same message again is answered from it, another is refused.
AcceptDraft ==
  /\ send.step = "accept"
  /\ LET source == [words |-> send.record.words, media |-> Upload.manifest]
         row == IF Upload.source = Absent THEN [Upload EXCEPT !.source = source] ELSE Upload
     IN \/ UNCHANGED server /\ Unanswered
        \/ Serves(row) /\ Unanswered
        \/ UNCHANGED server /\ row.source # source /\ SendFails
        \/ /\ row.source = source /\ Serves(row)
           /\ Makes([send EXCEPT !.step = "clear"])
           /\ UNCHANGED <<live, stored, shown, unwritten>>
  /\ UNCHANGED <<drawn, blobs, queue, turn, lag, mic, asked, discarded>>

(******************************************************************************)
(* After the receipt the draft is cleared, blobs first, and the next begins.  *)
(******************************************************************************)
Cleared(row) ==
  [chunks |-> [n \in Chunks |-> IF n \in ChunksOf(row) THEN 0 ELSE blobs.chunks[n]],
   photos |-> blobs.photos \ {row.photos[n] : n \in DOMAIN row.photos}]

ClearBlobs ==
  /\ send.step = "clear"
  /\ blobs' = Cleared(live)
  /\ send' = [send EXCEPT !.step = "next"]
  /\ UNCHANGED <<drawn, live, stored, queue, turn, lag, mic, server, shown, asked, discarded, unwritten>>

BeginsNext == drawn < LastDraft /\ drawn' = drawn + 1 /\ live' = FreshDraft(drawn')

NextDraft ==
  /\ send.step = "next" /\ BeginsNext
  /\ \/ stored' = live' /\ UNCHANGED unwritten
     \/ StorageFails /\ unwritten' = TRUE /\ UNCHANGED stored
  /\ send' = NoSend
  /\ shown' = [shown EXCEPT !.sent = TRUE]
  /\ UNCHANGED <<blobs, queue, turn, lag, mic, server, asked, discarded>>

\* Offered after an interruption and beside an error of the storage.
DiscardDraft ==
  /\ ~Sending
  /\ WasInterrupted \/ shown.alarm
  /\ BeginsNext
  /\ blobs' = Cleared(live)
  /\ \/ stored' = live' /\ UNCHANGED unwritten
     \/ StorageFails /\ unwritten' = TRUE /\ UNCHANGED stored
  /\ mic' = [mic EXCEPT !.state = "idle"]
  /\ discarded' = discarded \union {live.id}
  /\ shown' = [shown EXCEPT !.sent = FALSE]
  /\ UNCHANGED <<queue, turn, lag, send, server, asked>>

(* The tab dies at any point and is opened again: what is stored is all there *)
(* is; what the server was asked may have been done.                          *)
Reopen ==
  /\ live' = stored
  /\ queue' = << >> /\ turn' = NoTurn /\ lag' = Absent
  /\ mic' = [mic EXCEPT !.state = "idle", !.chunk = 0]
  /\ send' = NoSend
  /\ shown' = [alarm |-> FALSE, sent |-> FALSE]
  /\ UNCHANGED <<drawn, stored, blobs, server, asked, discarded, unwritten>>

CaptureNext ==
  \/ BeginMutation \/ SaveMutation \/ EndMutation
  \/ FlushDue \/ PageHides \/ SelectScope
  \/ StartRecording \/ RecordingDropped \/ RecorderStarts \/ ChunkArrives \/ StopRecording
  \/ DiscardRecording
  \/ SendWords \/ SendMedia \/ ReadMaterial \/ PrepareUpload \/ PutPart \/ CompleteAttachment \/ FinalizeUpload
  \/ AcceptDraft \/ ClearBlobs \/ NextDraft \/ DiscardDraft \/ Reopen
  \/ \E w \in Words : EditText(w)
  \/ \E p \in Photos : AddPhoto(p) \/ RemovePhoto(p)

CaptureSpec == CaptureInit /\ [][CaptureNext]_<<captureVars, captureHistory>>

(******************************************************************************)
(* Properties.                                                                *)
(******************************************************************************)
(* What was sent and not given up is a source of the server, or the tab that  *)
(* dies now opens on it again, unless a write has failed, which was shown     *)
(* (useCaptureComposer, runSend, DraftsStore).                                *)
NothingSentIsLost ==
  \A d \in asked \ discarded : server[d].source # Absent \/ stored.id = d \/ unwritten

(* The text of a draft changes by typing alone: no chunk, photo or send that  *)
(* was under way meanwhile brings older words back (serializeRecord).         *)
NothingTypedIsUndone ==
  [][live'.id = live.id /\ live'.words # live.words
       => lag' = live'.words \/ (live' = stored /\ queue' = << >>)]_<<live, lag>>
=============================================================================
