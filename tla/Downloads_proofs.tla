-------------------------- MODULE Downloads_proofs --------------------------
(***************************************************************************)
(* Proofs about Downloads, for any set of files and any number of          *)
(* messages: type correctness, that the browser's event loop is never      *)
(* stuck in the listener, that no file is given twice, and that the first  *)
(* file of a message reaches its program.                                  *)
(***************************************************************************)
EXTENDS Downloads, SequenceTheorems, TLAPS

\* The records of messages to come are untouched.
FreshAhead ==
  \A k \in Records : k > message =>
    /\ ~complete[k] /\ ~closed[k] /\ channel[k] = <<>>
    /\ content[k] = NoFile /\ response[k] = NoFile
    /\ firstIn[k] = NoFile /\ offered[k] = {}

\* A file in a channel is the last one it will be given.
RoomOrOver ==
  /\ ListenerNeverBlocks
  /\ channel[message] # <<>> =>
       closed[message] \/ complete[message] \/ listener.at = "close"

\* A file is offered to one record, when it is complete, and what a record has
\* it was offered.
OfferedOnce ==
  /\ \A f \in Files : listener = [at |-> "send", file |-> f] =>
       download[f] = "completed" /\ \A k \in Records : f \notin offered[k]
  /\ \A f \in Files, k \in Records : f \in offered[k] => download[f] = "completed"
  /\ \A j, k \in Records : \A f \in Files : f \in offered[j] /\ f \in offered[k] => j = k
  /\ \A k \in Records : channel[k] # <<>> => Head(channel[k]) \in offered[k]
  /\ \A k \in Records : content[k] # NoFile => content[k] \in offered[k]
  /\ \A k \in Records : response[k] # NoFile => response[k] \in offered[k]

\* As long as no message began while the listener was at an event, the event it
\* is at is the first of the message, and every other first file was offered.
SendsTheFirst ==
  /\ \A k \in Records : complete[k] <=> firstIn[k] # NoFile
  /\ ~raced =>
       /\ \A k \in Records : closed[k] => complete[k]
       /\ listener # Ready => complete[message]
       /\ listener.at = "send" => ~closed[message] /\ firstIn[message] = listener.file
       /\ \A k \in Records : firstIn[k] # NoFile =>
            \/ firstIn[k] \in offered[k]
            \/ k = message /\ listener = [at |-> "send", file |-> firstIn[k]]

\* And nothing but the first file of a message was offered to it.
OffersTheFirst ==
  ~raced => \A k \in Records : \A f \in offered[k] : f = firstIn[k]

Inv == FreshAhead /\ RoomOrOver /\ OfferedOnce /\ SendsTheFirst /\ OffersTheFirst

IInv == TypeOK /\ Inv

-----------------------------------------------------------------------------
\* The types hold in the beginning, and the rest of the invariant with them.
LEMMA InitInv ==
  Init => IInv
<1> SUFFICES ASSUME Init PROVE IInv
  OBVIOUS
<1>1. TypeOK
  <2>1. /\ message \in Records /\ program \in {"idle", "running", "waiting"}
        /\ started \in [Records -> BOOLEAN] /\ complete \in [Records -> BOOLEAN]
        /\ closed \in [Records -> BOOLEAN]
    BY DownloadsAssumption DEF Init, Records
  <2>2. /\ channel \in [Records -> Seq(Files)]
        /\ \A k \in Records : Len(channel[k]) <= 1
    BY DEF Init
  <2>3. /\ content \in [Records -> Files \union {NoFile}]
        /\ download \in [Files -> {"none", "inProgress", "completed"}]
        /\ response \in [Records -> Files \union {NoFile}]
        /\ completedIn \in [Files -> Records]
        /\ firstIn \in [Records -> Files \union {NoFile}]
    BY DownloadsAssumption DEF Init, Records
  <2>4. offered \in [Records -> SUBSET Files]
    BY DEF Init
  <2>5. /\ listener \in {Ready} \union [at : {"send", "close"}, file : Files]
        /\ raced \in BOOLEAN
    BY DEF Init
  <2> QED BY <2>1, <2>2, <2>3, <2>4, <2>5 DEF TypeOK
<1>2. FreshAhead /\ RoomOrOver
  BY DownloadsAssumption
  DEF Init, FreshAhead, RoomOrOver, ListenerNeverBlocks, Records, Ready
<1>3. OfferedOnce /\ SendsTheFirst /\ OffersTheFirst
  BY DownloadsAssumption
  DEF Init, OfferedOnce, SendsTheFirst, OffersTheFirst, Records, Ready
<1> QED BY <1>1, <1>2, <1>3 DEF IInv, Inv

\* Every step keeps the types.
LEMMA TypeStep ==
  ASSUME TypeOK, [Next]_vars
  PROVE  TypeOK'
<1>1. CASE NewMessage
  <2>1. message' \in Records
    BY <1>1, DownloadsAssumption DEF NewMessage, TypeOK, Records
  <2>2. raced' \in BOOLEAN
    BY <1>1 DEF NewMessage
  <2> QED BY <1>1, <2>1, <2>2 DEF NewMessage, TypeOK, histories
<1>2. CASE StartWait
  BY <1>2, DownloadsAssumption DEF StartWait, TypeOK, Records, Ready, histories
<1>3. CASE WaitReceive
  <2>1. message \in Records /\ Head(channel[message]) \in Files
    BY <1>3 DEF WaitReceive, TypeOK
  <2>2. content' \in [Records -> Files \union {NoFile}]
    BY <1>3, <2>1 DEF WaitReceive, TypeOK
  <2>3. channel' \in [Records -> Seq(Files)] /\ \A k \in Records : Len(channel'[k]) <= 1
    BY <1>3, <2>1 DEF WaitReceive, TypeOK
  <2>4. program' \in {"idle", "running", "waiting"}
    BY <1>3 DEF WaitReceive, EndWait
  <2> QED BY <1>3, <2>2, <2>3, <2>4 DEF WaitReceive, EndWait, TypeOK, histories
<1>4. CASE WaitFails
  <2>1. message \in Records /\ channel \in [Records -> Seq(Files)]
        /\ \A k \in Records : Len(channel[k]) <= 1
    BY DEF TypeOK
  <2>2. ASSUME channel[message] # <<>>, channel' = [channel EXCEPT ![message] = Tail(@)]
        PROVE  channel' \in [Records -> Seq(Files)] /\ \A k \in Records : Len(channel'[k]) <= 1
    BY <2>1, <2>2
  <2>3. channel' \in [Records -> Seq(Files)] /\ \A k \in Records : Len(channel'[k]) <= 1
    BY <1>4, <2>1, <2>2 DEF WaitFails
  <2>4. program' \in {"idle", "running", "waiting"}
    BY <1>4 DEF WaitFails, EndWait
  <2> QED BY <1>4, <2>3, <2>4 DEF WaitFails, EndWait, TypeOK, histories
<1>5. CASE Respond
  BY <1>5, DownloadsAssumption DEF Respond, TypeOK, Records, Ready, histories
<1>6. ASSUME NEW f \in Files, DownloadProgress(f) PROVE TypeOK'
  BY <1>6, DownloadsAssumption DEF DownloadProgress, TypeOK, Records, Ready, histories
<1>7. ASSUME NEW f \in Files, DownloadCompleted(f) PROVE TypeOK'
  <2>1. download' \in [Files -> {"none", "inProgress", "completed"}]
    BY <1>7 DEF DownloadCompleted, NoteCompleted, TypeOK
  <2>2. completedIn' \in [Files -> Records]
    BY <1>7 DEF DownloadCompleted, NoteCompleted, TypeOK
  <2>3. firstIn' \in [Records -> Files \union {NoFile}]
    BY <1>7 DEF DownloadCompleted, NoteCompleted, TypeOK
  <2>4. complete' \in [Records -> BOOLEAN]
    BY <1>7 DEF DownloadCompleted, TypeOK
  <2>5. listener' \in {Ready} \union [at : {"send", "close"}, file : Files]
    BY <1>7 DEF DownloadCompleted, TypeOK
  <2> QED BY <1>7, <2>1, <2>2, <2>3, <2>4, <2>5 DEF DownloadCompleted, TypeOK
<1>8. CASE SendState
  <2>1. listener \in [at : {"send", "close"}, file : Files]
    BY <1>8 DEF SendState, TypeOK, Ready
  <2>2. listener' \in {Ready} \union [at : {"send", "close"}, file : Files]
    BY <1>8, <2>1 DEF SendState
  <2>3. /\ listener.file \in Files /\ message \in Records
        /\ <<listener.file>> \in Seq(Files) /\ Len(<<listener.file>>) = 1
    BY <2>1 DEF TypeOK
  <2>4. \/ UNCHANGED <<channel, offered>>
        \/ /\ channel' = [channel EXCEPT ![message] = <<listener.file>>]
           /\ offered' = [offered EXCEPT ![message] = @ \union {listener.file}]
    BY <1>8 DEF SendState
  <2>5. channel' \in [Records -> Seq(Files)]
    BY <2>3, <2>4 DEF TypeOK
  <2>6. ASSUME NEW k \in Records PROVE Len(channel'[k]) <= 1
    <3>1. channel'[k] = channel[k] \/ channel'[k] = <<listener.file>>
      BY <2>3, <2>4 DEF TypeOK
    <3>2. Len(channel[k]) <= 1
      BY DEF TypeOK
    <3>3. CASE channel'[k] = channel[k]
      BY <3>2, <3>3
    <3>4. CASE channel'[k] = <<listener.file>>
      BY <2>3, <3>4
    <3> QED BY <3>1, <3>3, <3>4
  <2>7. offered' \in [Records -> SUBSET Files]
    <3>1. offered \in [Records -> SUBSET Files]
      BY DEF TypeOK
    <3>2. ASSUME offered' = [offered EXCEPT ![message] = @ \union {listener.file}]
          PROVE  offered' \in [Records -> SUBSET Files]
      <4>1. offered[message] \union {listener.file} \in SUBSET Files
        BY <2>3, <3>1
      <4> QED BY <3>1, <3>2, <4>1
    <3> QED BY <2>4, <3>1, <3>2
  <2> QED BY <1>8, <2>2, <2>5, <2>6, <2>7 DEF SendState, TypeOK
<1>9. CASE CloseState
  BY <1>9, DownloadsAssumption DEF CloseState, TypeOK, Records, Ready, histories
<1>10. CASE UNCHANGED vars
  BY <1>10 DEF vars, histories, TypeOK, Records, Ready
<1> QED BY <1>1, <1>2, <1>3, <1>4, <1>5, <1>6, <1>7, <1>8, <1>9, <1>10 DEF Next

\* A channel is empty when its only file is taken.
LEMMA OneTail ==
  ASSUME NEW S, NEW s \in Seq(S), Len(s) <= 1, s # <<>>
  PROVE  Tail(s) = <<>>
<1>0. Len(s) \in Nat \ {0}
  BY EmptySeq
<1>1. Len(s) = 1
  BY <1>0
<1>2. Tail(s) \in Seq(S) /\ Len(Tail(s)) = 0
  BY <1>1, HeadTailProperties
<1> QED BY <1>2, EmptySeq

\* Only the record of the current message, or of one before, is written.
LEMMA FreshStep ==
  ASSUME TypeOK, FreshAhead, [Next]_vars
  PROVE  FreshAhead'
<1>1. CASE NewMessage
  <2> SUFFICES ASSUME NEW k \in Records, k > message'
        PROVE  /\ ~complete'[k] /\ ~closed'[k] /\ channel'[k] = <<>>
               /\ content'[k] = NoFile /\ response'[k] = NoFile
               /\ firstIn'[k] = NoFile /\ offered'[k] = {}
    BY DEF FreshAhead
  <2>1. k > message
    BY <1>1, DownloadsAssumption DEF NewMessage, TypeOK, Records
  <2> QED BY <1>1, <2>1 DEF NewMessage, FreshAhead
<1>2. CASE StartWait
  BY <1>2, DownloadsAssumption DEF StartWait, TypeOK, FreshAhead, Records, Ready, histories
<1>3. CASE WaitReceive
  BY <1>3, DownloadsAssumption
  DEF WaitReceive, EndWait, TypeOK, FreshAhead, Records, Ready, histories
<1>4. CASE WaitFails
  BY <1>4, DownloadsAssumption
  DEF WaitFails, EndWait, TypeOK, FreshAhead, Records, Ready, histories
<1>5. CASE Respond
  BY <1>5, DownloadsAssumption DEF Respond, TypeOK, FreshAhead, Records, Ready, histories
<1>6. ASSUME NEW f \in Files, DownloadProgress(f) PROVE FreshAhead'
  BY <1>6, DownloadsAssumption
  DEF DownloadProgress, TypeOK, FreshAhead, Records, Ready, histories
<1>7. ASSUME NEW f \in Files, DownloadCompleted(f) PROVE FreshAhead'
  <2> SUFFICES ASSUME NEW k \in Records, k > message'
        PROVE  /\ ~complete'[k] /\ ~closed'[k] /\ channel'[k] = <<>>
               /\ content'[k] = NoFile /\ response'[k] = NoFile
               /\ firstIn'[k] = NoFile /\ offered'[k] = {}
    BY DEF FreshAhead
  <2>1. message' = message /\ k > message /\ k # message
    BY <1>7, DownloadsAssumption DEF DownloadCompleted, TypeOK, Records
  <2>2. complete'[k] = complete[k]
    BY <1>7, <2>1 DEF DownloadCompleted, TypeOK
  <2>3. firstIn'[k] = firstIn[k]
    BY <1>7, <2>1 DEF DownloadCompleted, NoteCompleted, TypeOK
  <2> QED BY <1>7, <2>1, <2>2, <2>3 DEF DownloadCompleted, FreshAhead
<1>8. CASE SendState
  <2> SUFFICES ASSUME NEW k \in Records, k > message'
        PROVE  /\ ~complete'[k] /\ ~closed'[k] /\ channel'[k] = <<>>
               /\ content'[k] = NoFile /\ response'[k] = NoFile
               /\ firstIn'[k] = NoFile /\ offered'[k] = {}
    BY DEF FreshAhead
  <2>1. message' = message /\ k > message /\ k # message
    BY <1>8, DownloadsAssumption DEF SendState, TypeOK, Records
  <2>2. channel'[k] = channel[k] /\ offered'[k] = offered[k]
    BY <1>8, <2>1 DEF SendState, TypeOK
  <2> QED BY <1>8, <2>1, <2>2 DEF SendState, FreshAhead
<1>9. CASE CloseState
  <2> SUFFICES ASSUME NEW k \in Records, k > message'
        PROVE  /\ ~complete'[k] /\ ~closed'[k] /\ channel'[k] = <<>>
               /\ content'[k] = NoFile /\ response'[k] = NoFile
               /\ firstIn'[k] = NoFile /\ offered'[k] = {}
    BY DEF FreshAhead
  <2>1. message' = message /\ k > message /\ k # message
    BY <1>9, DownloadsAssumption DEF CloseState, TypeOK, Records
  <2>2. closed'[k] = closed[k]
    BY <1>9, <2>1 DEF CloseState, TypeOK
  <2> QED BY <1>9, <2>1, <2>2 DEF CloseState, histories, FreshAhead
<1>10. CASE UNCHANGED vars
  BY <1>10 DEF vars, histories, TypeOK, FreshAhead, Records, Ready
<1> QED BY <1>1, <1>2, <1>3, <1>4, <1>5, <1>6, <1>7, <1>8, <1>9, <1>10 DEF Next

\* No step leaves the listener before a full channel.
LEMMA RoomStep ==
  ASSUME TypeOK, FreshAhead, RoomOrOver, [Next]_vars
  PROVE  RoomOrOver'
<1>1. CASE NewMessage
  <2>1. message' \in Records /\ message' > message
    BY <1>1, DownloadsAssumption DEF NewMessage, TypeOK, Records
  <2>2. channel[message'] = <<>>
    BY <2>1 DEF FreshAhead
  <2>3. channel'[message'] = <<>>
    BY <1>1, <2>2 DEF NewMessage
  <2> QED BY <2>3 DEF RoomOrOver, ListenerNeverBlocks
<1>2. CASE StartWait
  BY <1>2, DownloadsAssumption
  DEF StartWait, TypeOK, FreshAhead, RoomOrOver, ListenerNeverBlocks, Records, Ready,
      histories
<1>3. CASE WaitReceive
  BY <1>3, DownloadsAssumption
  DEF WaitReceive, EndWait, TypeOK, FreshAhead, RoomOrOver, ListenerNeverBlocks, Records,
      Ready, histories
<1>4. CASE WaitFails
  BY <1>4, DownloadsAssumption
  DEF WaitFails, EndWait, TypeOK, FreshAhead, RoomOrOver, ListenerNeverBlocks, Records,
      Ready, histories
<1>5. CASE Respond
  BY <1>5, DownloadsAssumption
  DEF Respond, TypeOK, FreshAhead, RoomOrOver, ListenerNeverBlocks, Records, Ready,
      histories
<1>6. ASSUME NEW f \in Files, DownloadProgress(f) PROVE RoomOrOver'
  BY <1>6, DownloadsAssumption
  DEF DownloadProgress, TypeOK, FreshAhead, RoomOrOver, ListenerNeverBlocks, Records,
      Ready, histories
<1>7. ASSUME NEW f \in Files, DownloadCompleted(f) PROVE RoomOrOver'
  BY <1>7, DownloadsAssumption
  DEF DownloadCompleted, NoteCompleted, TypeOK, FreshAhead, RoomOrOver,
      ListenerNeverBlocks, Records, Ready, histories
<1>8. CASE SendState
  BY <1>8, DownloadsAssumption
  DEF SendState, TypeOK, FreshAhead, RoomOrOver, ListenerNeverBlocks, Records, Ready,
      histories
<1>9. CASE CloseState
  BY <1>9, DownloadsAssumption
  DEF CloseState, TypeOK, FreshAhead, RoomOrOver, ListenerNeverBlocks, Records, Ready,
      histories
<1>10. CASE UNCHANGED vars
  BY <1>10
  DEF vars, histories, TypeOK, FreshAhead, RoomOrOver, ListenerNeverBlocks, Records,
      Ready
<1> QED BY <1>1, <1>2, <1>3, <1>4, <1>5, <1>6, <1>7, <1>8, <1>9, <1>10 DEF Next

\* No step gives a file to a second record.
LEMMA OfferedStep ==
  ASSUME TypeOK, FreshAhead, RoomOrOver, OfferedOnce, [Next]_vars
  PROVE  OfferedOnce'
<1>1. CASE NewMessage
  BY <1>1, DownloadsAssumption
  DEF NewMessage, TypeOK, FreshAhead, RoomOrOver, ListenerNeverBlocks, OfferedOnce,
      Records, Ready, histories
<1>2. CASE StartWait
  BY <1>2, DownloadsAssumption
  DEF StartWait, TypeOK, FreshAhead, RoomOrOver, ListenerNeverBlocks, OfferedOnce,
      Records, Ready, histories
<1>3. CASE WaitReceive
  <2>1. /\ message \in Records /\ channel \in [Records -> Seq(Files)]
        /\ Len(channel[message]) <= 1 /\ channel[message] # <<>>
    BY <1>3 DEF WaitReceive, TypeOK
  <2>2. channel' = [channel EXCEPT ![message] = <<>>]
    <3>1. channel[message] \in Seq(Files)
      BY <2>1
    <3>2. Tail(channel[message]) = <<>>
      BY <2>1, <3>1, OneTail
    <3> QED BY <1>3, <3>2 DEF WaitReceive
  <2>3. \A k \in Records : channel'[k] # <<>> => channel'[k] = channel[k]
    BY <2>1, <2>2
  <2>4. \A k \in Records : content'[k] # NoFile => content'[k] \in offered[k]
    BY <1>3, <2>1 DEF WaitReceive, OfferedOnce, TypeOK
  <2>5. UNCHANGED <<listener, download, offered, response>>
    BY <1>3 DEF WaitReceive, EndWait, histories
  <2> QED BY <2>3, <2>4, <2>5 DEF OfferedOnce
<1>4. CASE WaitFails
  <2>1. /\ message \in Records /\ channel \in [Records -> Seq(Files)]
        /\ Len(channel[message]) <= 1
    BY DEF TypeOK
  <2>2. ASSUME channel[message] # <<>>, channel' = [channel EXCEPT ![message] = Tail(@)]
        PROVE  channel' = [channel EXCEPT ![message] = <<>>]
    <3>1. channel[message] \in Seq(Files)
      BY <2>1
    <3>2. Tail(channel[message]) = <<>>
      BY <2>1, <2>2, <3>1, OneTail
    <3> QED BY <2>2, <3>2
  <2>3. \A k \in Records : channel'[k] # <<>> => channel'[k] = channel[k]
    BY <1>4, <2>1, <2>2 DEF WaitFails
  <2>4. UNCHANGED <<listener, download, offered, response, content>>
    BY <1>4 DEF WaitFails, EndWait, histories
  <2> QED BY <2>3, <2>4 DEF OfferedOnce
<1>5. CASE Respond
  BY <1>5, DownloadsAssumption
  DEF Respond, TypeOK, FreshAhead, RoomOrOver, ListenerNeverBlocks, OfferedOnce, Records,
      Ready, histories
<1>6. ASSUME NEW f \in Files, DownloadProgress(f) PROVE OfferedOnce'
  <2>1. \A g \in Files : download[g] = "completed" => download'[g] = "completed"
    BY <1>6 DEF DownloadProgress, TypeOK
  <2>2. UNCHANGED <<listener, channel, offered, response, content>>
    BY <1>6 DEF DownloadProgress, histories
  <2> QED BY <2>1, <2>2 DEF OfferedOnce
<1>7. ASSUME NEW f \in Files, DownloadCompleted(f) PROVE OfferedOnce'
  <2>1. \A g \in Files : download[g] = "completed" => download'[g] = "completed"
    BY <1>7 DEF DownloadCompleted, NoteCompleted, TypeOK
  <2>2. download[f] # "completed" /\ download'[f] = "completed"
    BY <1>7 DEF DownloadCompleted, NoteCompleted, TypeOK
  <2>3. listener' \in {Ready, [at |-> "send", file |-> f]}
    BY <1>7 DEF DownloadCompleted
  <2>4. \A g \in Files : listener' = [at |-> "send", file |-> g] => g = f
    BY <2>3 DEF Ready
  <2>5. UNCHANGED <<channel, offered, response, content>>
    BY <1>7 DEF DownloadCompleted
  <2> QED BY <2>1, <2>2, <2>4, <2>5 DEF OfferedOnce
<1>8. CASE SendState
  <2>1. /\ message \in Records /\ listener \in [at : {"send", "close"}, file : Files]
        /\ listener.at = "send"
    BY <1>8 DEF SendState, TypeOK, Ready
  <2>2. PICK f \in Files : listener = [at |-> "send", file |-> f]
    BY <2>1
  <2>3. UNCHANGED <<download, content, response>>
    BY <1>8 DEF SendState
  <2>4. \A g \in Files : listener' # [at |-> "send", file |-> g]
    BY <1>8, <2>2 DEF SendState, Ready
  <2>5. CASE UNCHANGED <<channel, offered>>
    BY <2>3, <2>4, <2>5 DEF OfferedOnce
  <2>6. CASE /\ channel' = [channel EXCEPT ![message] = <<f>>]
             /\ offered' = [offered EXCEPT ![message] = @ \union {f}]
    <3>1. \A k \in Records : offered'[k] = IF k = message THEN offered[k] \union {f} ELSE offered[k]
      BY <2>6 DEF TypeOK
    <3>2. \A k \in Records : channel'[k] # <<>> => Head(channel'[k]) \in offered'[k]
      BY <2>1, <2>6, <3>1 DEF TypeOK, OfferedOnce
    <3>3. download[f] = "completed" /\ \A k \in Records : f \notin offered[k]
      BY <2>2 DEF OfferedOnce
    <3>4. ASSUME NEW g \in Files, NEW k \in Records, g \in offered'[k]
          PROVE  download[g] = "completed"
      <4>1. g \in offered[k] \/ g = f
        BY <3>1, <3>4
      <4> QED BY <3>3, <4>1 DEF OfferedOnce
    <3>5. ASSUME NEW j \in Records, NEW k \in Records, NEW g \in Files,
                 g \in offered'[j], g \in offered'[k]
          PROVE  j = k
      <4>1. CASE g = f
        BY <3>1, <3>3, <3>5, <4>1
      <4>2. CASE g # f
        <5>1. g \in offered[j] /\ g \in offered[k]
          <6>1. ASSUME NEW i \in Records, g \in offered'[i] PROVE g \in offered[i]
            BY <3>1, <4>2, <6>1
          <6> QED BY <3>5, <6>1
        <5>2. \A h \in Files : h \in offered[j] /\ h \in offered[k] => j = k
          BY DEF OfferedOnce
        <5> QED BY <5>1, <5>2
      <4> QED BY <4>1, <4>2
    <3>6. \A k \in Records : offered[k] \subseteq offered'[k]
      BY <3>1
    <3> QED BY <2>3, <2>4, <3>2, <3>4, <3>5, <3>6 DEF OfferedOnce
  <2> QED BY <1>8, <2>2, <2>5, <2>6 DEF SendState
<1>9. CASE CloseState
  BY <1>9, DownloadsAssumption
  DEF CloseState, TypeOK, FreshAhead, RoomOrOver, ListenerNeverBlocks, OfferedOnce,
      Records, Ready, histories
<1>10. CASE UNCHANGED vars
  BY <1>10
  DEF vars, histories, TypeOK, FreshAhead, RoomOrOver, ListenerNeverBlocks, OfferedOnce,
      Records, Ready
<1> QED BY <1>1, <1>2, <1>3, <1>4, <1>5, <1>6, <1>7, <1>8, <1>9, <1>10 DEF Next

\* No step passes over the first file of a message.
LEMMA FirstStep ==
  ASSUME TypeOK, FreshAhead, RoomOrOver, SendsTheFirst, [Next]_vars
  PROVE  SendsTheFirst'
<1>1. CASE NewMessage
  <2>1. message' \in Records /\ message' > message /\ ~closed[message']
    BY <1>1, DownloadsAssumption DEF NewMessage, TypeOK, Records, FreshAhead
  <2>2. UNCHANGED <<complete, closed, listener, firstIn, offered>>
    BY <1>1 DEF NewMessage
  <2>3. ~raced' => ~raced /\ listener = Ready
    BY <1>1 DEF NewMessage
  <2>4. listener = Ready => listener.at # "send" /\ \A f : listener # [at |-> "send", file |-> f]
    BY DEF Ready
  <2> QED BY <2>1, <2>2, <2>3, <2>4 DEF SendsTheFirst
<1>2. CASE StartWait
  BY <1>2, DownloadsAssumption
  DEF StartWait, TypeOK, FreshAhead, RoomOrOver, ListenerNeverBlocks, SendsTheFirst,
      Records, Ready, histories
<1>3. CASE WaitReceive
  BY <1>3, DownloadsAssumption
  DEF WaitReceive, EndWait, TypeOK, FreshAhead, RoomOrOver, ListenerNeverBlocks,
      SendsTheFirst, Records, Ready, histories
<1>4. CASE WaitFails
  BY <1>4, DownloadsAssumption
  DEF WaitFails, EndWait, TypeOK, FreshAhead, RoomOrOver, ListenerNeverBlocks,
      SendsTheFirst, Records, Ready, histories
<1>5. CASE Respond
  BY <1>5, DownloadsAssumption
  DEF Respond, TypeOK, FreshAhead, RoomOrOver, ListenerNeverBlocks, SendsTheFirst,
      Records, Ready, histories
<1>6. ASSUME NEW f \in Files, DownloadProgress(f) PROVE SendsTheFirst'
  BY <1>6, DownloadsAssumption
  DEF DownloadProgress, TypeOK, FreshAhead, RoomOrOver, ListenerNeverBlocks,
      SendsTheFirst, Records, Ready, histories
<1>7. ASSUME NEW f \in Files, DownloadCompleted(f) PROVE SendsTheFirst'
  <2>1. message \in Records /\ listener = Ready /\ f # NoFile
    BY <1>7, DownloadsAssumption DEF DownloadCompleted, TypeOK
  <2>2. UNCHANGED <<message, closed, offered, raced>>
    BY <1>7 DEF DownloadCompleted
  <2>3. listener.at # "send" /\ \A g : listener # [at |-> "send", file |-> g]
    BY <2>1 DEF Ready
  <2>4. firstIn' = [firstIn EXCEPT ![message] = IF @ = NoFile THEN f ELSE @]
    BY <1>7 DEF DownloadCompleted, NoteCompleted
  <2>5. CASE complete[message]
    <3>1. UNCHANGED <<complete, listener>>
      BY <1>7, <2>5 DEF DownloadCompleted
    <3>2. firstIn' = firstIn
      BY <2>1, <2>4, <2>5 DEF SendsTheFirst, TypeOK
    <3> QED BY <2>2, <3>1, <3>2 DEF SendsTheFirst
  <2>6. CASE ~complete[message]
    <3>1. complete' = [complete EXCEPT ![message] = TRUE]
      BY <1>7, <2>6 DEF DownloadCompleted
    <3>2. listener' = [at |-> "send", file |-> f]
      BY <1>7, <2>6 DEF DownloadCompleted
    <3>3. firstIn'[message] = f
      BY <2>1, <2>4, <2>6 DEF SendsTheFirst, TypeOK
    <3>4. \A k \in Records : k # message => firstIn'[k] = firstIn[k] /\ complete'[k] = complete[k]
      BY <2>4, <3>1 DEF TypeOK
    <3>5. complete'[message]
      BY <2>1, <3>1 DEF TypeOK
    <3>6. \A k \in Records : complete'[k] <=> firstIn'[k] # NoFile
      BY <2>1, <3>3, <3>4, <3>5 DEF SendsTheFirst
    <3>7. ASSUME ~raced PROVE \A k \in Records : closed[k] => complete'[k]
      BY <2>6, <3>4, <3>5, <3>7 DEF SendsTheFirst
    <3>8. ASSUME ~raced PROVE ~closed[message]
      BY <2>1, <2>6, <3>8 DEF SendsTheFirst
    <3>9. ASSUME ~raced, NEW k \in Records, k # message, firstIn'[k] # NoFile
          PROVE  firstIn'[k] \in offered[k]
      BY <2>3, <3>4, <3>9 DEF SendsTheFirst
    <3>10. listener'.file = f
      BY <3>2
    <3> QED BY <2>2, <3>2, <3>3, <3>5, <3>6, <3>7, <3>8, <3>9, <3>10 DEF SendsTheFirst
  <2> QED BY <2>5, <2>6
<1>8. CASE SendState
  <2>1. /\ message \in Records /\ listener \in [at : {"send", "close"}, file : Files]
        /\ listener.at = "send" /\ listener # Ready
    BY <1>8 DEF SendState, TypeOK, Ready
  <2>2. UNCHANGED <<message, complete, closed, firstIn, raced>>
    BY <1>8 DEF SendState
  <2>3. \A k \in Records : complete'[k] <=> firstIn'[k] # NoFile
    BY <2>2 DEF SendsTheFirst
  <2>4. ASSUME ~raced PROVE ~closed[message] /\ firstIn[message] = listener.file /\ complete[message]
    BY <2>1, <2>4 DEF SendsTheFirst
  <2>5. ASSUME ~raced PROVE listener'.at = "close"
    BY <1>8, <2>1, <2>4, <2>5 DEF SendState
  <2>6. ASSUME ~raced PROVE \A k \in Records : offered[k] \subseteq offered'[k]
    <3>1. offered \in [Records -> SUBSET Files]
      BY DEF TypeOK
    <3>2. offered' = [offered EXCEPT ![message] = @ \union {listener.file}]
      BY <1>8, <2>4, <2>6 DEF SendState
    <3>3. \A k \in Records : offered'[k] = offered[k]
                             \/ offered'[k] = offered[k] \union {listener.file}
      BY <3>1, <3>2
    <3> QED BY <3>3
  <2>7. ASSUME ~raced PROVE firstIn[message] \in offered'[message]
    BY <1>8, <2>1, <2>4, <2>7 DEF SendState, TypeOK
  <2>8. ASSUME ~raced, NEW k \in Records, firstIn[k] # NoFile PROVE firstIn[k] \in offered'[k]
    BY <2>6, <2>7, <2>8 DEF SendsTheFirst
  <2> QED BY <2>2, <2>3, <2>4, <2>5, <2>8 DEF SendsTheFirst
<1>9. CASE CloseState
  BY <1>9, DownloadsAssumption
  DEF CloseState, TypeOK, FreshAhead, RoomOrOver, ListenerNeverBlocks, SendsTheFirst,
      Records, Ready, histories
<1>10. CASE UNCHANGED vars
  BY <1>10
  DEF vars, histories, TypeOK, FreshAhead, RoomOrOver, ListenerNeverBlocks,
      SendsTheFirst, Records, Ready
<1> QED BY <1>1, <1>2, <1>3, <1>4, <1>5, <1>6, <1>7, <1>8, <1>9, <1>10 DEF Next

\* What is offered is the file the listener is at, which is the first.
LEMMA OffersStep ==
  ASSUME TypeOK, FreshAhead, SendsTheFirst, OffersTheFirst, [Next]_vars
  PROVE  OffersTheFirst'
<1> SUFFICES ASSUME ~raced', NEW k \in Records, NEW g \in offered'[k]
             PROVE  g = firstIn'[k]
  BY DEF OffersTheFirst
<1>1. ASSUME UNCHANGED <<firstIn, offered>>, raced' => raced, ~raced' => ~raced
      PROVE  g = firstIn'[k]
  BY <1>1 DEF OffersTheFirst
<1>2. CASE NewMessage
  BY <1>1, <1>2 DEF NewMessage
<1>3. CASE StartWait \/ Respond \/ CloseState
  BY <1>1, <1>3 DEF StartWait, Respond, CloseState, histories
<1>4. CASE WaitReceive \/ WaitFails
  BY <1>1, <1>4 DEF WaitReceive, WaitFails, EndWait, histories
<1>5. ASSUME NEW f \in Files, DownloadProgress(f) PROVE g = firstIn'[k]
  BY <1>1, <1>5 DEF DownloadProgress, histories
<1>6. ASSUME NEW f \in Files, DownloadCompleted(f) PROVE g = firstIn'[k]
  <2>1. offered' = offered /\ raced' = raced /\ message \in Records
    BY <1>6 DEF DownloadCompleted, TypeOK
  <2>2. g \in Files /\ g = firstIn[k] /\ g # NoFile
    BY <2>1, DownloadsAssumption DEF OffersTheFirst, TypeOK
  <2>3. firstIn' = [firstIn EXCEPT ![message] = IF @ = NoFile THEN f ELSE @]
    BY <1>6 DEF DownloadCompleted, NoteCompleted
  <2> QED BY <2>1, <2>2, <2>3 DEF TypeOK
<1>7. CASE SendState
  <2>1. UNCHANGED <<firstIn, raced>> /\ message \in Records /\ listener.at = "send"
    BY <1>7 DEF SendState, TypeOK
  <2>2. firstIn[message] = listener.file
    BY <2>1 DEF SendsTheFirst
  <2>3. CASE offered' = offered
    BY <1>1, <2>1, <2>3
  <2>4. CASE offered' = [offered EXCEPT ![message] = @ \union {listener.file}]
    <3>1. \/ offered'[k] = offered[k]
          \/ (k = message /\ offered'[k] = offered[k] \union {listener.file})
      BY <2>1, <2>4 DEF TypeOK
    <3> QED BY <2>1, <2>2, <3>1 DEF OffersTheFirst
  <2> QED BY <1>7, <2>3, <2>4 DEF SendState
<1>8. CASE UNCHANGED vars
  BY <1>1, <1>8 DEF vars, histories
<1> QED BY <1>2, <1>3, <1>4, <1>5, <1>6, <1>7, <1>8 DEF Next

\* The inductive invariant holds in every reachable state, for any set of files
\* and any number of messages.
THEOREM DownloadsInvariant == Spec => []IInv
<1>1. IInv /\ [Next]_vars => IInv'
  BY TypeStep, FreshStep, RoomStep, OfferedStep, FirstStep, OffersStep DEF IInv, Inv
<1> QED BY <1>1, InitInv, PTL DEF Spec

\* Type correctness of the downloads of a session.
THEOREM DownloadsTypeCorrect == Spec => []TypeOK
BY DownloadsInvariant, PTL DEF IInv

\* The browser's event loop is never stuck in the listener (browser.go:617-623),
\* whatever messages begin between its steps.
THEOREM LoopIsFree == Spec => []ListenerNeverBlocks
<1>1. IInv => ListenerNeverBlocks
  BY DEF IInv, Inv, RoomOrOver
<1> QED BY <1>1, DownloadsInvariant, PTL

\* A file is in the response to one message at most (browser.go:387).
THEOREM FilesAreGivenOnce == Spec => []EachFileOnce
<1>1. IInv => EachFileOnce
  BY DEF IInv, Inv, OfferedOnce, EachFileOnce, TypeOK
<1> QED BY <1>1, DownloadsInvariant, PTL

\* The first file found complete during a message is offered to its program,
\* unless a message began inside the listener's steps (browser.go:257, 617-623).
THEOREM FirstFileReachesProgram == Spec => []FirstFileIsOffered
<1>1. IInv => FirstFileIsOffered
  BY DEF IInv, Inv, SendsTheFirst, FirstFileIsOffered
<1> QED BY <1>1, DownloadsInvariant, PTL

\* What a wait of a message answers from is the first file of that message
\* (browser.go:1566), unless a message began inside the listener's steps.
THEOREM WaitsAreOfTheirMessage == Spec => []TrueIsOfThisMessage
<1>1. IInv => TrueIsOfThisMessage
  BY DEF IInv, Inv, OfferedOnce, OffersTheFirst, TrueIsOfThisMessage
<1> QED BY <1>1, DownloadsInvariant, PTL
=============================================================================
