----------------------------- MODULE Downloads -----------------------------
(***************************************************************************)
(* Files the browser downloads while an asynchronous session runs its      *)
(* programs: the download part of the target listener in doRun, the fresh  *)
(* downloadFile that RunAsync puts in place for every message, and         *)
(* waitFileDownload, which programs call.                                  *)
(*                                                                         *)
(* The listener runs on the goroutine of the browser's event loop, the     *)
(* programs on the session's.  They share programCtx.downloadFileInfo      *)
(* without a lock, and the listener reads that pointer anew for each of    *)
(* its steps, so a new message may come between them.  The record of       *)
(* message k is number k; 0 is the one doRun makes before any message.     *)
(*                                                                         *)
(* A definition whose comment begins with "Fault:" is a wrong version of   *)
(* the one after it; no behaviour uses it.                                 *)
(***************************************************************************)
EXTENDS Naturals, Sequences, FiniteSets

CONSTANTS Files,        \* the files the pages download, each once
          MaxMessages,  \* bound: messages the session runs
          NoFile

ASSUME DownloadsAssumption == MaxMessages \in Nat /\ NoFile \notin Files

Records == 0..MaxMessages

VARIABLES
  message,      \* the record programCtx.downloadFileInfo points to
  program,      \* what the session does: "idle", "running" a program, "waiting" in it
  started,      \* started[k]: the flag of record k
  complete,     \* complete[k]: the flag of record k
  channel,      \* channel[k]: what is in fileState of record k, which has room for one
  closed,       \* closed[k]: fileState of record k is closed
  content,      \* content[k]: the file whose content record k holds
  download,     \* download[f]: the last event of the file that the listener took
  listener,     \* the step the listener is at, and the file it is about
  response,     \* response[k]: the file the response to message k carries
  completedIn,  \* completedIn[f]: the message during which f was found complete (history)
  firstIn,      \* firstIn[k]: the first file found complete in message k (history)
  offered,      \* offered[k]: the files that were put into channel k (history)
  raced         \* a message began while the listener was at an event (history)

histories == <<completedIn, firstIn, offered, raced>>
vars == <<message, program, started, complete, channel, closed, content,
          download, listener, response, histories>>

Ready == [at |-> "ready", file |-> NoFile]

Init ==
  /\ message = 0
  /\ program = "idle"
  /\ started = [k \in Records |-> FALSE]
  /\ complete = [k \in Records |-> FALSE]
  /\ channel = [k \in Records |-> <<>>]
  /\ closed = [k \in Records |-> FALSE]
  /\ content = [k \in Records |-> NoFile]
  /\ download = [f \in Files |-> "none"]
  /\ listener = Ready
  /\ response = [k \in Records |-> NoFile]
  /\ completedIn = [f \in Files |-> 0]
  /\ firstIn = [k \in Records |-> NoFile]
  /\ offered = [k \in Records |-> {}]
  /\ raced = FALSE

-----------------------------------------------------------------------------
(* The session's goroutine.                                                *)

\* Fault: the record of the last message stays in place.
NewMessageSameRecord ==
  /\ program = "idle"
  /\ message < MaxMessages
  /\ message' = message + 1
  /\ program' = "running"
  /\ started' = [started EXCEPT ![message'] = started[message]]
  /\ complete' = [complete EXCEPT ![message'] = complete[message]]
  /\ channel' = [channel EXCEPT ![message'] = channel[message]]
  /\ closed' = [closed EXCEPT ![message'] = closed[message]]
  /\ content' = [content EXCEPT ![message'] = content[message]]
  /\ UNCHANGED <<download, listener, response, histories>>

\* A message: its program starts with a new record.
NewMessage ==
  /\ program = "idle"
  /\ message < MaxMessages
  /\ message' = message + 1
  /\ program' = "running"
  /\ raced' = (raced \/ listener # Ready)
  /\ UNCHANGED <<started, complete, channel, closed, content, download, listener,
                 response, completedIn, firstIn, offered>>

\* The program calls waitFileDownload.
StartWait ==
  /\ program = "running"
  /\ program' = "waiting"
  /\ UNCHANGED <<message, started, complete, channel, closed, content,
                 download, listener, response, histories>>

\* The wait is over: the program goes on, and is told whether the record of its
\* message has content by now, from this wait or from an earlier one.
EndWait ==
  /\ program' = "running"
  /\ UNCHANGED <<message, started, complete, closed, download, listener, response, histories>>

\* select takes the file from the channel, and its content is read.
WaitReceive ==
  /\ program = "waiting"
  /\ channel[message] # <<>>
  /\ channel' = [channel EXCEPT ![message] = Tail(@)]
  /\ content' = [content EXCEPT ![message] = Head(channel[message])]
  /\ EndWait

\* The file taken from the channel cannot be read; or the channel is closed and
\* yields the state of no file, or the duration is over.  The error is dropped
\* and the record stays.
WaitFails ==
  /\ program = "waiting"
  /\ \/ channel[message] # <<>> /\ channel' = [channel EXCEPT ![message] = Tail(@)]
     \/ UNCHANGED channel
  /\ UNCHANGED content
  /\ EndWait

\* The program ends and its response takes the record's content.
Respond ==
  /\ program = "running"
  /\ program' = "idle"
  /\ response' = [response EXCEPT ![message] = content[message]]
  /\ UNCHANGED <<message, started, complete, channel, closed, content,
                 download, listener, histories>>

-----------------------------------------------------------------------------
(* The listener's goroutine: one event at a time.                          *)

\* EventDownloadProgress with a file in progress.  (The name announced by
\* EventDownloadWillBegin is in a variable of that call and is lost.)
DownloadProgress(f) ==
  /\ listener = Ready
  /\ download[f] \in {"none", "inProgress"}
  /\ download' = [download EXCEPT ![f] = "inProgress"]
  /\ started' = [started EXCEPT ![message] = TRUE]
  /\ UNCHANGED <<message, program, complete, channel, closed, content,
                 listener, response, histories>>

\* A completed event, as the histories remember it.
NoteCompleted(f) ==
  /\ download' = [download EXCEPT ![f] = "completed"]
  /\ completedIn' = [completedIn EXCEPT ![f] = message]
  /\ firstIn' = [firstIn EXCEPT ![message] = IF @ = NoFile THEN f ELSE @]

\* Fault: only a file that was seen in progress in this message counts.
DownloadCompletedIfStarted(f) ==
  /\ listener = Ready
  /\ download[f] = "inProgress"
  /\ NoteCompleted(f)
  /\ IF complete[message] \/ ~started[message] THEN UNCHANGED <<complete, listener>>
     ELSE /\ complete' = [complete EXCEPT ![message] = TRUE]
          /\ listener' = [at |-> "send", file |-> f]
  /\ UNCHANGED <<message, program, started, channel, closed, content,
                 response, offered, raced>>

\* EventDownloadProgress with a completed file: the first to set the flag of
\* the record is sent to the program, any other is dropped.
DownloadCompleted(f) ==
  /\ listener = Ready
  /\ download[f] = "inProgress"
  /\ NoteCompleted(f)
  /\ IF complete[message] THEN UNCHANGED <<complete, listener>>
     ELSE /\ complete' = [complete EXCEPT ![message] = TRUE]
          /\ listener' = [at |-> "send", file |-> f]
  /\ UNCHANGED <<message, program, started, channel, closed, content,
                 response, offered, raced>>

\* The file goes into the channel of the record that is in place by now; on a
\* closed channel that is a panic, which the listener recovers from.
SendState ==
  /\ listener.at = "send"
  /\ \/ /\ closed[message]
        /\ listener' = Ready
        /\ UNCHANGED <<channel, offered>>
     \/ /\ ~closed[message] /\ channel[message] = <<>>
        /\ channel' = [channel EXCEPT ![message] = <<listener.file>>]
        /\ offered' = [offered EXCEPT ![message] = @ \union {listener.file}]
        /\ listener' = [listener EXCEPT !.at = "close"]
  /\ UNCHANGED <<message, program, started, complete, closed, content, download,
                 response, completedIn, firstIn, raced>>

\* Fault: the channel is left open.
LeaveOpen ==
  /\ listener.at = "close"
  /\ listener' = Ready
  /\ UNCHANGED <<message, program, started, complete, channel, closed, content,
                 download, response, histories>>

\* The channel of the record that is in place by now is closed.
CloseState ==
  /\ listener.at = "close"
  /\ closed' = [closed EXCEPT ![message] = TRUE]
  /\ listener' = Ready
  /\ UNCHANGED <<message, program, started, complete, channel, content,
                 download, response, histories>>

-----------------------------------------------------------------------------
Next ==
  \/ NewMessage \/ StartWait \/ WaitReceive \/ WaitFails \/ Respond
  \/ \E f \in Files : DownloadProgress(f) \/ DownloadCompleted(f)
  \/ SendState \/ CloseState

Spec == Init /\ [][Next]_vars

-----------------------------------------------------------------------------
TypeOK ==
  /\ message \in Records
  /\ program \in {"idle", "running", "waiting"}
  /\ started \in [Records -> BOOLEAN]
  /\ complete \in [Records -> BOOLEAN]
  /\ channel \in [Records -> Seq(Files)]
  /\ \A k \in Records : Len(channel[k]) <= 1
  /\ closed \in [Records -> BOOLEAN]
  /\ content \in [Records -> Files \union {NoFile}]
  /\ download \in [Files -> {"none", "inProgress", "completed"}]
  /\ listener \in {Ready} \union [at : {"send", "close"}, file : Files]
  /\ response \in [Records -> Files \union {NoFile}]
  /\ completedIn \in [Files -> Records]
  /\ firstIn \in [Records -> Files \union {NoFile}]
  /\ offered \in [Records -> SUBSET Files]
  /\ raced \in BOOLEAN

\* The event loop of the browser is never stuck in the listener: when a file is
\* to be sent, the channel is closed or has room, whatever messages began in
\* between.
ListenerNeverBlocks ==
  listener.at = "send" => closed[message] \/ channel[message] = <<>>

\* A file is in the response to one message at most.
EachFileOnce ==
  \A j, k \in Records : response[j] = response[k] /\ response[j] # NoFile => j = k

\* "erase download file info, so we can download file multiple times": the
\* first file found complete during a message is offered to that message's
\* program, as long as no message began while the listener was at an event.
FirstFileIsOffered ==
  ~raced => \A k \in Records :
    firstIn[k] # NoFile => firstIn[k] \in offered[k] \/ listener = [at |-> "send", file |-> firstIn[k]]

\* What waitFileDownload answers from, and the response carries, is the first
\* file found complete in that very message, as long as no message began while
\* the listener was at an event.  (So true may be said again of a file that an
\* earlier wait of the program took, though "returns true if file was
\* downloaded successfully, returns false if file wasn't downloaded within the
\* provided duration": never of a file of another message.)
TrueIsOfThisMessage ==
  ~raced => \A k \in Records : content[k] # NoFile => content[k] = firstIn[k]
=============================================================================
