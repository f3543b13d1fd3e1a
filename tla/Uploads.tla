------------------------------- MODULE Uploads -------------------------------
(* The upload of a large file in chunks: handleChunkedUpload and              *)
(* handleUploadCancel (files.go) with the task manager of the desktop that    *)
(* calls them (uploadTasks.js). A task sends its chunks one after another;    *)
(* each goes to a file of a directory the name of the upload gives, and the   *)
(* request with the last one joins them. A pause, a cancellation or a broken  *)
(* connection aborts the call of the client and not its handler.              *)
(* All tasks are uploads, of one version each, of one name.                   *)
EXTENDS Naturals, FiniteSets

CONSTANTS
  UploadTasks,     \* the versions that are uploaded
  TotalChunks,     \* X-Total-Chunks
  MaxUploadRequests,                  \* how many may be in the daemon at once
  MaxUploadAborts, MaxUploadFaults

ASSUME UploadsAssumption ==
  /\ TotalChunks \in Nat \ {0} /\ MaxUploadRequests \in Nat
  /\ MaxUploadAborts \in Nat /\ MaxUploadFaults \in Nat
  /\ UploadTasks \cap {"missing", "partial", "none"} = {}

VARIABLES
  tasks,       \* uploadTasks and taskMeta: the status and lastChunk + 1
  handlers,    \* requests in the daemon
  chunks,      \* .nimchunks/<hash>: what each chunk file holds
  final,       \* the uploaded file: there or not, and its pieces
  shown,       \* the task that was shown as done last
  met,         \* history: two uploads of the name were under way at once, or a
               \* request went on working after an upload was started behind it
  uploadWork   \* aborts and faults so far

uploadVars == <<tasks, handlers, chunks, final, shown, met, uploadWork>>

Indices == 0 .. TotalChunks - 1
Missing == "missing"
Partial == "partial"
NoTask == "none"

Empty == [i \in Indices |-> Missing]
Absent == [there |-> FALSE, pieces |-> Empty]

\* What was uploaded, whole.
FileOf(t) == [there |-> TRUE, pieces |-> [i \in Indices |-> t]]

Moves(h, g) == handlers' = (handlers \ {h}) \cup {g}
Of(t) == {h \in handlers : h.task = t}

-----------------------------------------------------------------------------
(* The desktop *)

\* addTask and startUpload, of a task that is new or was paused: chunks that
\* were answered are not sent again. Nothing is asked of other uploads of the
\* name, nor of requests whose call was given up: those are late from now on.
StartUpload(t) ==
  /\ tasks[t].status \in {"new", "paused"}
  /\ tasks' = [tasks EXCEPT ![t].status = "uploading"]
  /\ handlers' = {[h EXCEPT !.late = TRUE] : h \in handlers}
  /\ met' = (met \/ \E u \in UploadTasks \ {t} : tasks[u].status \in {"uploading", "paused"})
  /\ UNCHANGED <<chunks, final, shown, uploadWork>>

\* The next chunk is posted when the answer to the last one is there.
SendChunk(t) ==
  /\ tasks[t].status = "uploading" /\ \A h \in Of(t) : ~h.live
  /\ tasks[t].next \in Indices /\ Cardinality(handlers) < MaxUploadRequests
  /\ handlers' = handlers \cup
       {[task |-> t, index |-> tasks[t].next, pc |-> "open", join |-> 0, ok |-> TRUE,
         live |-> TRUE, late |-> FALSE, chunkGone |-> FALSE, fileGone |-> FALSE]}
  /\ UNCHANGED <<tasks, chunks, final, shown, met, uploadWork>>

\* Mutant: the loop over the chunks ends one too early.
CompleteEarly(t) ==
  /\ tasks[t].status = "uploading" /\ tasks[t].next = TotalChunks - 1
  /\ tasks' = [tasks EXCEPT ![t].status = "done"]
  /\ shown' = t
  /\ UNCHANGED <<handlers, chunks, final, met, uploadWork>>

CompleteTask(t) ==
  /\ tasks[t].status = "uploading" /\ tasks[t].next = TotalChunks
  /\ tasks' = [tasks EXCEPT ![t].status = "done"]
  /\ shown' = t
  /\ UNCHANGED <<handlers, chunks, final, met, uploadWork>>

\* The answer arrives: the next chunk, or failTask.
TakeAnswer(h) ==
  /\ h.pc = "answered"
  /\ handlers' = handlers \ {h}
  /\ tasks' = IF ~h.live THEN tasks
              ELSE IF h.ok THEN [tasks EXCEPT ![h.task].next = h.index + 1]
              ELSE [tasks EXCEPT ![h.task].status = "error"]
  /\ UNCHANGED <<chunks, final, shown, met, uploadWork>>

\* controller.abort(), or the connection breaks: nobody waits for the answer.
Abort(t, status) ==
  /\ tasks[t].status = "uploading" /\ uploadWork.aborts < MaxUploadAborts
  /\ uploadWork' = [uploadWork EXCEPT !.aborts = @ + 1]
  /\ tasks' = [tasks EXCEPT ![t].status = status]
  /\ handlers' = {[h EXCEPT !.live = @ /\ h.task # t] : h \in handlers}

PauseTask(t) == Abort(t, "paused") /\ UNCHANGED <<chunks, final, shown, met>>

ConnectionBreaks(t) ==
  /\ \E h \in Of(t) : h.live
  /\ Abort(t, "error")
  /\ UNCHANGED <<chunks, final, shown, met>>

-----------------------------------------------------------------------------
(* The daemon *)

\* cancelTask calls handleUploadCancel, which removes the chunks; a handler
\* that writes one goes on writing to a file that has no name any more.
CancelTask(t) ==
  /\ tasks[t].status \in {"uploading", "paused"} /\ uploadWork.aborts < MaxUploadAborts
  /\ uploadWork' = [uploadWork EXCEPT !.aborts = @ + 1]
  /\ tasks' = [tasks EXCEPT ![t].status = "cancelled"]
  /\ chunks' = Empty
  /\ handlers' = {[h EXCEPT !.chunkGone = @ \/ h.pc = "body", !.live = @ /\ h.task # t] :
                    h \in handlers}
  /\ UNCHANGED <<final, shown, met>>

\* The chunk file is made, or emptied.
OpenChunk(h) ==
  /\ h.pc = "open"
  /\ chunks' = [chunks EXCEPT ![h.index] = Partial]
  /\ Moves(h, [h EXCEPT !.pc = "body"])
  /\ UNCHANGED <<tasks, final, shown, uploadWork>>

\* There is no room, or the directory or the chunk file cannot be made.
OpenFails(h) ==
  /\ h.pc = "open" /\ uploadWork.faults < MaxUploadFaults
  /\ uploadWork' = [uploadWork EXCEPT !.faults = @ + 1]
  /\ Moves(h, [h EXCEPT !.pc = "answered", !.ok = FALSE])
  /\ UNCHANGED <<tasks, chunks, final, shown>>

\* The body was read to its end: the chunk is whole, or mingled with another
\* version's that was written to the same file meanwhile. The last chunk is
\* followed by the others.
WriteChunk(h) ==
  /\ h.pc = "body"
  /\ IF h.chunkGone THEN UNCHANGED chunks
     ELSE \E piece \in {h.task} \cup {p \in {Partial} : chunks[h.index] \in UploadTasks \ {h.task}} :
            chunks' = [chunks EXCEPT ![h.index] = piece]
  /\ Moves(h, [h EXCEPT !.pc = IF h.index = TotalChunks - 1 THEN "create" ELSE "answered"])
  /\ UNCHANGED <<tasks, final, shown, uploadWork>>

\* The client goes away before the end of the body, or the chunk cannot be
\* written: it is removed.
ChunkBreaks(h) ==
  /\ h.pc = "body"
  /\ IF h.live
     THEN uploadWork.faults < MaxUploadFaults /\ uploadWork' = [uploadWork EXCEPT !.faults = @ + 1]
     ELSE UNCHANGED uploadWork
  /\ chunks' = [chunks EXCEPT ![h.index] = Missing]
  /\ handlers' = {[g EXCEPT !.chunkGone = @ \/ (g.pc = "body" /\ g.index = h.index)] :
                    g \in handlers \ {h}}
                   \cup {[h EXCEPT !.pc = "answered", !.ok = FALSE]}
  /\ UNCHANGED <<tasks, final, shown>>

\* The final file cannot be made: the chunks are removed, and it stays.
CreateFails(h) ==
  /\ h.pc = "create" /\ uploadWork.faults < MaxUploadFaults
  /\ uploadWork' = [uploadWork EXCEPT !.faults = @ + 1]
  /\ Moves(h, [h EXCEPT !.pc = "drop", !.ok = FALSE])
  /\ UNCHANGED <<tasks, chunks, final, shown>>

\* root.Create of the final file empties a version that was there.
CreateFile(h) ==
  /\ h.pc = "create"
  /\ final' = [there |-> TRUE, pieces |-> Empty]
  /\ shown' = IF shown = h.task THEN shown ELSE NoTask
  /\ Moves(h, [h EXCEPT !.pc = "join"])
  /\ UNCHANGED <<tasks, chunks, uploadWork>>

\* The chunks are joined in order, until one is missing.
JoinChunk(h) ==
  /\ h.pc = "join"
  /\ IF chunks[h.join] = Missing
     THEN UNCHANGED final /\ Moves(h, [h EXCEPT !.pc = "sweep", !.ok = FALSE])
     ELSE /\ final' = IF h.fileGone THEN final
                      ELSE [final EXCEPT !.pieces[h.join] = chunks[h.join]]
          /\ Moves(h, IF h.join = TotalChunks - 1 THEN [h EXCEPT !.pc = "sweep"]
                      ELSE [h EXCEPT !.join = @ + 1])
  /\ UNCHANGED <<tasks, chunks, shown, uploadWork>>

JoinBreaks(h) ==
  /\ h.pc = "join" /\ uploadWork.faults < MaxUploadFaults
  /\ uploadWork' = [uploadWork EXCEPT !.faults = @ + 1]
  /\ Moves(h, [h EXCEPT !.pc = "sweep", !.ok = FALSE])
  /\ UNCHANGED <<tasks, chunks, final, shown>>

\* The chunks are removed, whether they were joined or not.
SweepChunks(h) ==
  /\ h.pc \in {"sweep", "drop"}
  /\ chunks' = Empty
  /\ handlers' = {[g EXCEPT !.chunkGone = @ \/ g.pc = "body"] : g \in handlers \ {h}}
                   \cup {[h EXCEPT !.pc = IF h.pc = "sweep" /\ ~h.ok THEN "undo" ELSE "answered"]}
  /\ UNCHANGED <<tasks, final, shown, uploadWork>>

\* What could not be joined is removed by its name.
RemoveFinal(h) ==
  /\ h.pc = "undo"
  /\ final' = Absent
  /\ handlers' = {[g EXCEPT !.fileGone = @ \/ g.pc = "join"] : g \in handlers \ {h}}
                   \cup {[h EXCEPT !.pc = "answered"]}
  /\ UNCHANGED <<tasks, chunks, shown, uploadWork>>

\* The daemon dies; a client that waits for an answer fails its task.
UploadCrash ==
  /\ handlers # {} /\ uploadWork.faults < MaxUploadFaults
  /\ uploadWork' = [uploadWork EXCEPT !.faults = @ + 1]
  /\ tasks' = [t \in UploadTasks |->
       IF \E h \in Of(t) : h.live THEN [tasks[t] EXCEPT !.status = "error"] ELSE tasks[t]]
  /\ handlers' = {}
  /\ UNCHANGED <<chunks, final, shown, met>>

UploadsInit ==
  /\ tasks = [t \in UploadTasks |-> [status |-> "new", next |-> 0]]
  /\ handlers = {} /\ chunks = Empty /\ final = Absent /\ shown = NoTask /\ met = FALSE
  /\ uploadWork = [aborts |-> 0, faults |-> 0]

\* A step of handleChunkedUpload.
ChunkedUpload(h) ==
  /\ \/ OpenChunk(h) \/ OpenFails(h) \/ WriteChunk(h) \/ ChunkBreaks(h)
     \/ CreateFile(h) \/ CreateFails(h) \/ JoinChunk(h) \/ JoinBreaks(h)
     \/ SweepChunks(h) \/ RemoveFinal(h)
  /\ met' = (met \/ h.late)

UploadsNext ==
  \/ \E t \in UploadTasks :
       \/ StartUpload(t) \/ SendChunk(t) \/ CompleteTask(t)
       \/ PauseTask(t) \/ ConnectionBreaks(t) \/ CancelTask(t)
  \/ \E h \in handlers : ChunkedUpload(h) \/ TakeAnswer(h)
  \/ UploadCrash

UploadsSpec == UploadsInit /\ [][UploadsNext]_uploadVars

-----------------------------------------------------------------------------
(* Properties *)

\* The file of the upload that was shown as done last is whole, until another
\* upload of the name replaces it: a task that was paused goes on where it
\* was ("Resume from last completed chunk", uploadTasks.js).
DoneIsWhole == shown # NoTask => final = FileOf(shown)

\* DoneIsWhole does not hold when requests of the name meet: neither the task
\* manager nor handleChunkedUpload keeps them apart. As long as no two uploads
\* of the name were under way at once, and no request whose call was given up
\* took another step after an upload was started or resumed behind it, it does:
\* chunks left by an upload that failed, was paused or cancelled, chunks that
\* are sent again, requests that end after their call, failing steps and a
\* crash of the daemon do not get into the file.
WholeUnlessMet == ~met => DoneIsWhole
=============================================================================
