------------------------- MODULE FilePipelineProofs -------------------------
(* Theorems about FilePipeline for every value of its constants. *)
EXTENDS FilePipeline, SequenceTheorems, TLAPS

AllAssumptions ==
    /\ Scopes \subseteq SUBSET Paths
    /\ MaxSize \in Nat \ {0}
    /\ Capacity \in Nat \ {0}
    /\ None \notin Requests
    /\ MaxCrashes \in Nat

\* The assumptions on the constants, under one name.
LEMMA Assumptions == AllAssumptions
BY ScopesAssumption, MaxSizeAssumption, CapacityAssumption, NoneAssumption,
   MaxCrashesAssumption DEF AllAssumptions

\* The empty server is well typed.
LEMMA InitTypeOK == Init => TypeOK
<1>1. SUFFICES ASSUME Init PROVE TypeOK
  OBVIOUS
<1>2. NoCall \in Calls /\ NoReply \in Replies
  BY DEF Calls, Replies, NoReply
<1>3. queue \in Seq(Requests)
  BY <1>1 DEF Init
<1>4. crashes \in 0 .. MaxCrashes
  BY <1>1, Assumptions DEF Init, AllAssumptions
<1> QED
  BY <1>1, <1>2, <1>3, <1>4 DEF Init, TypeOK, Files, PCs

\* The fields of a call have the types its kind promises.
LEMMA CallTypes ==
    ASSUME TypeOK, NEW r \in Requests
    PROVE  /\ IsUpload(r) => call[r].path \in Paths /\ call[r].size \in 0 .. MaxSize
           /\ IsDelete(r) => call[r].scope \in Scopes /\ call[r].listed \subseteq Chunks
           /\ call[r].kind = "download" => call[r].file \in Files
<1>1. call[r] \in Calls
  BY DEF TypeOK
<1> QED
  BY <1>1 DEF Calls, UploadCalls, DownloadCalls, DeleteCalls, NoCall, IsUpload, IsDelete

\* The chunks of a typed upload are chunks.
LEMMA ChunksOfType ==
    ASSUME TypeOK, NEW r \in Requests, IsUpload(r)
    PROVE  ChunksOf(r) \subseteq Chunks
<1>1. call[r].size \in 0 .. MaxSize
  BY CallTypes
<1>2. 0 .. call[r].size - 1 \subseteq 0 .. MaxSize - 1
  BY <1>1, Assumptions DEF AllAssumptions
<1> QED
  BY <1>2 DEF ChunksOf, Chunks, Files

\* Every step of a handler, of the manager and of the environment keeps every type.
LEMMA StepTypeOK == TypeOK /\ [Next]_vars => TypeOK'
<1> SUFFICES ASSUME TypeOK, [Next]_vars PROVE TypeOK'
  OBVIOUS
<1> USE Assumptions DEF AllAssumptions
<1>r. /\ \A b \in SUBSET Chunks : Ok(b) \in Replies
      /\ Ok({}) \in Replies
      /\ Err \in Replies
  BY DEF Ok, Err, Replies
<1>1. ASSUME NEW r \in Requests, NEW p \in Paths, NEW size \in 0 .. MaxSize,
             CreateFile(r, p, size)
      PROVE  TypeOK'
  <2>1. [kind |-> "upload", path |-> p, size |-> size] \in Calls
    BY DEF Calls, UploadCalls
  <2> QED
    BY <1>1, <2>1 DEF CreateFile, TypeOK, Goto, manager, Files, PCs
<1>2. ASSUME NEW r \in Requests, NEW p \in Paths, GetFileByPath(r, p)
      PROVE  TypeOK'
  <2>1. \A f \in RowsAt({p}) : [kind |-> "download", file |-> f] \in Calls
    BY DEF Calls, DownloadCalls, RowsAt
  <2> QED
    BY <1>2, <2>1 DEF GetFileByPath, TypeOK, Goto, tables, manager, Files, PCs
<1>3. ASSUME NEW r \in Requests, NEW S \in Scopes, ListMessageIds(r, S)
      PROVE  TypeOK'
  <2> DEFINE listed == {c \in chunks : c[1] \in RowsAt(S)}
  <2>1. [kind |-> "delete", scope |-> S, listed |-> listed] \in Calls
    BY DEF Calls, DeleteCalls, TypeOK
  <2> QED
    BY <1>3, <2>1 DEF ListMessageIds, TypeOK, Goto, tables, manager, Files, PCs
<1>4. ASSUME NEW r \in Requests, Refuse(r) PROVE TypeOK'
  BY <1>4, <1>r DEF Refuse, TypeOK, Return, tables, manager, PCs
<1>5. ASSUME NEW r \in Requests, Send(r) PROVE TypeOK'
  BY <1>5 DEF Send, TypeOK, Goto, tables, manager, PCs
<1>6. ASSUME NEW kind, Receive(kind) PROVE Head(queue) \in Requests /\ queue' \in Seq(Requests)
  BY <1>6 DEF Receive, TypeOK
<1>7. CASE StartUpload
  <2> DEFINE r == Head(queue)
  <2>1. r \in Requests /\ queue' \in Seq(Requests) /\ IsUpload(r)
    BY <1>7, <1>6 DEF StartUpload, Receive, IsUpload
  <2>2. ChunksOf(r) \subseteq Chunks
    BY <2>1, ChunksOfType
  <2> QED
    BY <1>7, <1>r, <2>1, <2>2
    DEF StartUpload, Receive, Begin, GiveUp, TypeOK, tables, handlers, manager
<1>8. CASE StartDownload
  BY <1>8, <1>6, <1>r
  DEF StartDownload, Receive, Begin, GiveUp, TypeOK, tables, handlers, manager
<1>9. CASE StartDelete
  <2> DEFINE r == Head(queue)
  <2>1. r \in Requests /\ queue' \in Seq(Requests) /\ IsDelete(r)
    BY <1>9, <1>6 DEF StartDelete, Receive, IsDelete
  <2>2. call[r].listed \subseteq Chunks
    BY <2>1, CallTypes
  <2> QED
    BY <1>9, <1>r, <2>1, <2>2
    DEF StartDelete, Receive, Begin, GiveUp, TypeOK, tables, handlers, manager
<1>10. ASSUME NEW c \in todo, UploadChunk(c) \/ DownloadChunk(c) \/ DeleteMessage(c)
       PROVE  TypeOK'
  <2>1. c \in Chunks
    BY DEF TypeOK
  <2>2. TaskDone(c, TRUE) \/ TaskDone(c, FALSE)
    BY <1>10 DEF UploadChunk, DownloadChunk, DeleteMessage
  <2>3. messages' \subseteq Chunks
    BY <1>10, <2>1 DEF UploadChunk, DownloadChunk, DeleteMessage, TypeOK
  <2> QED
    BY <2>2, <2>3 DEF TaskDone, TypeOK, tables, handlers
<1>a. ASSUME NEW kind, NEW a \in Replies, Joined(kind), chunks' \subseteq Chunks, Answering(a)
      PROVE  TypeOK'
  BY <1>a DEF Joined, Answering, TypeOK, handlers
<1>11. CASE FinishUpload
  <2>1. chunks' \subseteq Chunks
    BY <1>11 DEF FinishUpload, TypeOK
  <2> QED
    BY <1>11, <1>r, <1>a, <2>1 DEF FinishUpload
<1>12. CASE FinishDownload
  <2>1. work \in SUBSET Chunks /\ chunks' \subseteq Chunks
    BY <1>12 DEF FinishDownload, TypeOK
  <2> QED
    BY <1>12, <1>r, <1>a, <2>1 DEF FinishDownload
<1>13. CASE FinishDelete
  <2>1. chunks' \subseteq Chunks
    BY <1>13 DEF FinishDelete, TypeOK
  <2> QED
    BY <1>13, <1>r, <1>a, <2>1 DEF FinishDelete
<1>14. ASSUME NEW r \in Requests, SetAsUploaded(r) PROVE TypeOK'
  BY <1>14, <1>r
  DEF SetAsUploaded, Replied, Return, Goto, TypeOK, manager, PCs, Files
<1>15. ASSUME NEW r \in Requests, DeleteWithFolders(r) PROVE TypeOK'
  BY <1>15, <1>r
  DEF DeleteWithFolders, DeleteFiles, Return, TypeOK, tables, manager, PCs
<1>16. ASSUME NEW r \in Requests, ReturnDownload(r) PROVE TypeOK'
  BY <1>16 DEF ReturnDownload, Replied, Return, TypeOK, tables, manager, PCs
<1>17. ASSUME NEW r \in Requests, TelegramDone(r) PROVE TypeOK'
  BY <1>17 DEF TelegramDone, Replied, Goto, TypeOK, tables, manager, PCs
<1>18. ASSUME NEW r \in Requests, DeleteRows(r) PROVE TypeOK'
  BY <1>18, <1>r DEF DeleteRows, DeleteFiles, Return, TypeOK, tables, manager, PCs
<1>19. ASSUME NEW r \in Requests, HangUp(r) PROVE TypeOK'
  BY <1>19 DEF HangUp, Goto, TypeOK, tables, manager, PCs
<1>20. CASE Crash
  <2>1. queue' \in Seq(Requests)
    BY <1>20 DEF Crash
  <2>2. crashes' \in 0 .. MaxCrashes
    BY <1>20 DEF Crash, TypeOK
  <2>3. pc' \in [Requests -> PCs]
    BY <1>20 DEF Crash, TypeOK, PCs
  <2> QED
    BY <1>20, <2>1, <2>2, <2>3 DEF Crash, TypeOK, tables
<1>21. CASE UNCHANGED vars
  BY <1>21 DEF vars, TypeOK
<1> QED
  BY <1>1, <1>2, <1>3, <1>4, <1>5, <1>7, <1>8, <1>9, <1>10, <1>11, <1>12, <1>13,
     <1>14, <1>15, <1>16, <1>17, <1>18, <1>19, <1>20, <1>21
  DEF Next, Arrive, Handle, Manage, Idle

\* Every variable keeps its type in every reachable state.
THEOREM TypeCorrect == Spec => []TypeOK
<1> QED
  BY InitTypeOK, StepTypeOK, PTL DEF Spec

-----------------------------------------------------------------------------
(***************************************************************************)
(* The channel protocol: what holds between a handler, the channel, the    *)
(* manager and the oneshot channel.  It is what makes NoReplyIsLost        *)
(* inductive.                                                              *)
(***************************************************************************)
Distinct == \A i, j \in DOMAIN queue : queue[i] = queue[j] => i = j

Protocol(r) ==
    /\ pc[r] = "new" => call[r].kind = "none"
    /\ pc[r] \in {"new", "send"} => ~InQueue(r) /\ job # r /\ reply[r].status = "none"
    /\ pc[r] = "wait" => InQueue(r) \/ job = r \/ reply[r].status # "none"
    /\ pc[r] \in {"send", "wait"} => call[r].kind # "none"
    /\ pc[r] = "undo" => IsUpload(r) /\ reply[r].status # "none"
    /\ pc[r] = "rows" => IsDelete(r)
    /\ InQueue(r) => job # r /\ reply[r].status = "none" /\ call[r].kind # "none"
    /\ job = r => reply[r].status = "none" /\ call[r].kind # "none"
    /\ InQueue(r) \/ job = r => pc[r] \in {"wait", "gone"}
    /\ answer[r].status # "none" => pc[r] = "done"

ProtocolInv == Distinct /\ \A r \in Requests : Protocol(r)

\* rx.recv() takes the first message: the others stay, each still queued once.
LEMMA Receiving ==
    ASSUME TypeOK, Distinct, queue # <<>>, queue' = Tail(queue)
    PROVE  /\ Head(queue) \in Requests
           /\ InQueue(Head(queue))
           /\ Distinct'
           /\ \A r : InQueue(r)' <=> InQueue(r) /\ r # Head(queue)
<1>1. /\ queue \in Seq(Requests)
      /\ Len(queue) \in Nat \ {0}
      /\ Head(queue) = queue[1]
      /\ DOMAIN queue = 1 .. Len(queue)
  BY DEF TypeOK
<1>2. /\ Len(queue') = Len(queue) - 1
      /\ DOMAIN (queue') = 1 .. Len(queue) - 1
      /\ \A i \in 1 .. Len(queue) - 1 : queue'[i] = queue[i + 1]
  BY <1>1
<1>3. Head(queue) \in Requests /\ InQueue(Head(queue))
  BY <1>1 DEF InQueue
<1>4. Distinct'
  BY <1>1, <1>2 DEF Distinct
<1>5. ASSUME NEW r PROVE InQueue(r)' => InQueue(r) /\ r # Head(queue)
  BY <1>1, <1>2 DEF InQueue, Distinct
<1>6. ASSUME NEW r, InQueue(r), r # Head(queue) PROVE InQueue(r)'
  <2>1. PICK i \in 1 .. Len(queue) : queue[i] = r
    BY <1>1, <1>6 DEF InQueue
  <2>2. i # 1 /\ i - 1 \in 1 .. Len(queue) - 1 /\ queue'[i - 1] = r
    BY <1>1, <1>2, <1>6, <2>1
  <2> QED
    BY <1>2, <2>2 DEF InQueue
<1> QED
  BY <1>3, <1>4, <1>5, <1>6

\* tx.send(message) adds one message behind the others.
LEMMA Sending ==
    ASSUME TypeOK, Distinct, NEW s \in Requests, ~InQueue(s), queue' = Append(queue, s)
    PROVE  /\ Distinct'
           /\ \A r : InQueue(r)' <=> InQueue(r) \/ r = s
<1>1. /\ queue \in Seq(Requests)
      /\ Len(queue) \in Nat
      /\ DOMAIN queue = 1 .. Len(queue)
  BY DEF TypeOK
<1>2. /\ DOMAIN (queue') = 1 .. Len(queue) + 1
      /\ \A i \in 1 .. Len(queue) : queue'[i] = queue[i]
      /\ queue'[Len(queue) + 1] = s
  BY <1>1
<1>3. Distinct'
  BY <1>1, <1>2 DEF Distinct, InQueue
<1>4. ASSUME NEW r PROVE InQueue(r)' => InQueue(r) \/ r = s
  BY <1>1, <1>2 DEF InQueue
<1>5. ASSUME NEW r, InQueue(r) \/ r = s PROVE InQueue(r)'
  BY <1>1, <1>2, <1>5 DEF InQueue
<1> QED
  BY <1>3, <1>4, <1>5

\* A step that leaves the channel alone leaves everybody who waits in it there.
LEMMA QueueUnchanged ==
    ASSUME UNCHANGED queue
    PROVE  (Distinct' <=> Distinct) /\ \A r : InQueue(r)' <=> InQueue(r)
BY DEF Distinct, InQueue

\* Nobody waits at the start.
LEMMA InitProtocol == Init => ProtocolInv
BY Assumptions DEF AllAssumptions, Init, ProtocolInv, Distinct, Protocol, InQueue,
   NoReply, NoCall, IsUpload, IsDelete

\* Every step keeps each message between a handler and the manager in one place.
LEMMA StepProtocol ==
    ASSUME TypeOK, TypeOK', ProtocolInv, [Next]_vars
    PROVE  ProtocolInv'
<1> USE DEF IsUpload, IsDelete, Active
<1>0. Distinct /\ \A r \in Requests : Protocol(r)
  BY DEF ProtocolInv
<1>n. None \notin Requests
  BY Assumptions DEF AllAssumptions
\* A step that leaves the channel, the manager and the oneshot channels alone.
<1>q. ASSUME UNCHANGED <<queue, job, reply>>,
             \A r \in Requests :
                /\ pc'[r] = "new" => call'[r].kind = "none"
                /\ pc'[r] \in {"new", "send"} => pc[r] \in {"new", "send"}
                /\ pc'[r] = "wait" => pc[r] = "wait"
                /\ pc'[r] \in {"send", "wait"} => call'[r].kind # "none"
                /\ pc'[r] = "undo" => call'[r].kind = "upload" /\ reply[r].status # "none"
                /\ pc'[r] = "rows" => call'[r].kind = "delete"
                /\ pc[r] = "wait" /\ reply[r].status = "none" => pc'[r] \in {"wait", "gone"}
                /\ pc[r] = "gone" => pc'[r] = "gone"
                /\ call[r].kind # "none" => call'[r].kind # "none"
                /\ answer'[r].status # "none" => pc'[r] = "done"
      PROVE  ProtocolInv'
  BY <1>0, <1>q, QueueUnchanged DEF ProtocolInv, Protocol
<1>1. ASSUME NEW r \in Requests, NEW p \in Paths, NEW size \in 0 .. MaxSize,
             CreateFile(r, p, size)
      PROVE  ProtocolInv'
  BY <1>0, <1>1, <1>q DEF CreateFile, Goto, manager, Protocol, TypeOK
<1>2. ASSUME NEW r \in Requests, NEW p \in Paths, GetFileByPath(r, p)
      PROVE  ProtocolInv'
  BY <1>0, <1>2, <1>q DEF GetFileByPath, Goto, manager, Protocol, TypeOK
<1>3. ASSUME NEW r \in Requests, NEW S \in Scopes, ListMessageIds(r, S)
      PROVE  ProtocolInv'
  BY <1>0, <1>3, <1>q DEF ListMessageIds, Goto, manager, Protocol, TypeOK
<1>4. ASSUME NEW r \in Requests, Refuse(r) PROVE ProtocolInv'
  BY <1>0, <1>4, <1>q DEF Refuse, Return, manager, Protocol, TypeOK
<1>5. ASSUME NEW s \in Requests, Send(s) PROVE ProtocolInv'
  <2>1. /\ pc[s] = "send" /\ queue' = Append(queue, s)
        /\ pc' = [pc EXCEPT ![s] = "wait"]
        /\ UNCHANGED <<call, answer, reply, job>>
    BY <1>5 DEF Send, Goto, manager
  <2>2. Distinct' /\ \A r : InQueue(r)' <=> InQueue(r) \/ r = s
    BY <1>0, <2>1, Sending DEF Protocol
  <2>3. ASSUME NEW r \in Requests PROVE Protocol(r)'
    BY <1>0, <2>1, <2>2 DEF Protocol, TypeOK
  <2> QED
    BY <2>2, <2>3 DEF ProtocolInv
\* A message leaves the channel for the manager, or is answered at once.
<1>6. ASSUME NEW kind, Receive(kind), kind # "none",
             \/ job' = Head(queue) /\ UNCHANGED reply
             \/ UNCHANGED job /\ reply' = [reply EXCEPT ![Head(queue)] = Err]
      PROVE  ProtocolInv'
  <2> DEFINE s == Head(queue)
  <2>1. /\ queue # <<>> /\ queue' = Tail(queue) /\ call[s].kind # "none"
        /\ job = None
        /\ UNCHANGED <<call, pc, answer>>
    BY <1>6 DEF Receive, handlers
  <2>2. /\ s \in Requests
        /\ InQueue(s)
        /\ Distinct'
        /\ \A r : InQueue(r)' <=> InQueue(r) /\ r # s
    BY <1>0, <2>1, Receiving
  <2>3. ASSUME NEW r \in Requests PROVE Protocol(r)'
    BY <1>0, <1>6, <1>n, <2>1, <2>2 DEF Protocol, TypeOK, Err
  <2> QED
    BY <2>2, <2>3 DEF ProtocolInv
<1>7. CASE StartUpload
  BY <1>6, <1>7 DEF StartUpload, Begin, GiveUp, manager
<1>8. CASE StartDownload
  BY <1>6, <1>8 DEF StartDownload, Begin, GiveUp, manager
<1>9. CASE StartDelete
  BY <1>6, <1>9 DEF StartDelete, Begin, GiveUp, manager
<1>10. ASSUME NEW c \in todo, UploadChunk(c) \/ DownloadChunk(c) \/ DeleteMessage(c)
       PROVE  ProtocolInv'
  <2>1. TaskDone(c, TRUE) \/ TaskDone(c, FALSE)
    BY <1>10 DEF UploadChunk, DownloadChunk, DeleteMessage
  <2>2. UNCHANGED <<pc, call, answer, queue, job, reply>>
    BY <2>1 DEF TaskDone, handlers
  <2> QED
    BY <1>0, <1>q, <2>2 DEF Protocol
<1>11. ASSUME NEW kind, NEW a \in Replies, Joined(kind), Answering(a), a.status # "none"
       PROVE  ProtocolInv'
  <2>1. /\ job \in Requests /\ job' = None /\ reply' = [reply EXCEPT ![job] = a]
        /\ UNCHANGED <<call, pc, answer, queue>>
    BY <1>11 DEF Joined, Answering, handlers, TypeOK
  <2>2. ASSUME NEW r \in Requests PROVE Protocol(r)'
    BY <1>0, <1>11, <1>n, <2>1, QueueUnchanged DEF Protocol, TypeOK
  <2> QED
    BY <1>0, <2>1, <2>2, QueueUnchanged DEF ProtocolInv
<1>r. \A b \in SUBSET Chunks : /\ Ok(b) \in Replies /\ Ok(b).status # "none"
                               /\ Err \in Replies /\ Err.status # "none"
  BY DEF Ok, Err, Replies
<1>12. CASE FinishUpload
  BY <1>11, <1>12, <1>r DEF FinishUpload
<1>13. CASE FinishDownload
  <2>1. work \in SUBSET Chunks
    BY DEF TypeOK
  <2> QED
    BY <1>11, <1>13, <1>r, <2>1 DEF FinishDownload
<1>14. CASE FinishDelete
  BY <1>11, <1>14, <1>r DEF FinishDelete
<1>15. ASSUME NEW r \in Requests, SetAsUploaded(r) PROVE ProtocolInv'
  BY <1>0, <1>15, <1>q DEF SetAsUploaded, Replied, Return, Goto, manager, Protocol, TypeOK
<1>16. ASSUME NEW r \in Requests, DeleteWithFolders(r) PROVE ProtocolInv'
  BY <1>0, <1>16, <1>q DEF DeleteWithFolders, Return, manager, Protocol, TypeOK
<1>17. ASSUME NEW r \in Requests, ReturnDownload(r) PROVE ProtocolInv'
  BY <1>0, <1>17, <1>q DEF ReturnDownload, Replied, Return, manager, Protocol, TypeOK
<1>18. ASSUME NEW r \in Requests, TelegramDone(r) PROVE ProtocolInv'
  BY <1>0, <1>18, <1>q DEF TelegramDone, Replied, Goto, manager, Protocol, TypeOK
<1>19. ASSUME NEW r \in Requests, DeleteRows(r) PROVE ProtocolInv'
  BY <1>0, <1>19, <1>q DEF DeleteRows, Return, manager, Protocol, TypeOK
<1>20. ASSUME NEW r \in Requests, HangUp(r) PROVE ProtocolInv'
  BY <1>0, <1>20, <1>q DEF HangUp, Goto, manager, Protocol, TypeOK
<1>21. CASE Crash
  <2>1. Distinct' /\ \A r : ~InQueue(r)'
    BY <1>21 DEF Crash, Distinct, InQueue
  <2>2. ASSUME NEW r \in Requests PROVE Protocol(r)'
    BY <1>0, <1>21, <1>n, <2>1 DEF Crash, Protocol, TypeOK
  <2> QED
    BY <2>1, <2>2 DEF ProtocolInv
<1>22. CASE UNCHANGED vars
  BY <1>0, <1>22, <1>q DEF vars, Protocol
<1> QED
  BY <1>1, <1>2, <1>3, <1>4, <1>5, <1>7, <1>8, <1>9, <1>10, <1>12, <1>13, <1>14,
     <1>15, <1>16, <1>17, <1>18, <1>19, <1>20, <1>21, <1>22
  DEF Next, Arrive, Handle, Manage, Idle

\* A waiting handler's message is in exactly one place: resp_rx.await.unwrap() in
\* _upload and download never meets a sender dropped without an answer.
THEOREM NoReplyIsLostAlways == Spec => []NoReplyIsLost
<1>1. TypeOK /\ ProtocolInv => NoReplyIsLost
  BY DEF ProtocolInv, Distinct, Protocol, NoReplyIsLost, Holds, Holders
<1>2. TypeOK /\ TypeOK' /\ ProtocolInv /\ [Next]_vars => ProtocolInv'
  BY StepProtocol
<1> QED
  BY <1>1, <1>2, TypeCorrect, InitProtocol, PTL DEF Spec

-----------------------------------------------------------------------------
(***************************************************************************)
(* The data: what the tables, the messages and the manager's job say about *)
(* each other.                                                             *)
(***************************************************************************)

\* The tables.  file_chunks holds exactly the chunks of the live saved files.
RowsInv ==
    \A f \in Files :
        /\ ~IsUpload(f) => ~Live(f)
        /\ \A c \in chunks : c[1] = f => Live(f) /\ Saved(f) /\ c \in ChunksOf(f)
        /\ Live(f) /\ Saved(f) => ChunksOf(f) \subseteq chunks
        /\ Saved(f) => ChunksOf(f) # {}
        /\ Acknowledged(f) => Saved(f) /\ files[f] # "pending"

\* Downloads: in the hands of the manager, answered, returned.
Whole(body, f) == body # {} => Saved(f) /\ body = ChunksOf(f)

ReadsInv ==
    \A r \in Requests : call[r].kind = "download" =>
        /\ job = r => Whole(work, call[r].file)
        /\ reply[r].status = "ok" => Whole(reply[r].body, call[r].file)
        /\ answer[r].status = "ok" => answer[r] = reply[r]

\* Messages: what the job of an upload has sent, and what deletes may remove.
MessagesInv ==
    /\ job # None /\ IsUpload(job) =>
          /\ work = ChunksOf(job)
          /\ ~failed => work \ todo \subseteq messages
    /\ \A d \in Requests : IsDelete(d) =>
          /\ job = d => work = call[d].listed
          /\ \A c \in call[d].listed :
                /\ Saved(c[1])
                /\ call[c[1]].path \in call[d].scope
                /\ answer[d].status = "ok" => c \notin chunks

\* What a request asked, what the manager answered and what the client got never
\* change once they are there.
Settled ==
    \A r \in Requests :
        /\ call[r].kind # "none" => call'[r] = call[r]
        /\ reply[r].status # "none" => reply'[r] = reply[r]
        /\ answer[r].status # "none" => answer'[r] = answer[r]
        /\ call'[r] # call[r] => pc[r] = "new" /\ UNCHANGED <<job, reply, answer>>

\* What a handler or the manager has settled stays: the call of a request, a reply
\* and an answer once given are never changed.
LEMMA StepSettles ==
    ASSUME TypeOK, ProtocolInv, [Next]_vars
    PROVE  Settled
<1>0. Distinct /\ \A r \in Requests : Protocol(r)
  BY DEF ProtocolInv
<1>1. ASSUME NEW r \in Requests, Arrive(r) PROVE Settled
  BY <1>0, <1>1
  DEF Arrive, CreateFile, GetFileByPath, ListMessageIds, Refuse, Goto, Return, manager,
      Protocol, Settled, TypeOK
<1>2. ASSUME NEW r \in Requests, Send(r) \/ HangUp(r) PROVE Settled
  BY <1>2 DEF Send, HangUp, Goto, Settled
<1>3. ASSUME NEW r \in Requests, Handle(r) PROVE Settled
  BY <1>0, <1>3
  DEF Handle, SetAsUploaded, DeleteWithFolders, ReturnDownload, TelegramDone, DeleteRows,
      Replied, Goto, Return, Protocol, Settled, TypeOK
<1>4. ASSUME NEW kind, Receive(kind),
             UNCHANGED reply \/ reply' = [reply EXCEPT ![Head(queue)] = Err]
      PROVE  Settled
  <2>1. queue # <<>> /\ queue' = Tail(queue) /\ UNCHANGED <<call, answer>>
    BY <1>4 DEF Receive, handlers
  <2>2. Head(queue) \in Requests /\ reply[Head(queue)].status = "none"
    BY <1>0, <2>1, Receiving DEF Protocol
  <2> QED
    BY <1>4, <2>1, <2>2 DEF Settled, TypeOK
<1>5. CASE StartUpload \/ StartDownload \/ StartDelete
  BY <1>4, <1>5 DEF StartUpload, StartDownload, StartDelete, Begin, GiveUp
<1>6. ASSUME NEW c \in todo, UploadChunk(c) \/ DownloadChunk(c) \/ DeleteMessage(c)
      PROVE  Settled
  BY <1>6 DEF UploadChunk, DownloadChunk, DeleteMessage, TaskDone, handlers, Settled
<1>7. ASSUME NEW kind, NEW a, Joined(kind), Answering(a) PROVE Settled
  BY <1>0, <1>7 DEF Joined, Answering, handlers, Protocol, Settled, TypeOK
<1>8. CASE FinishUpload \/ FinishDownload \/ FinishDelete
  BY <1>7, <1>8 DEF FinishUpload, FinishDownload, FinishDelete
<1>9. CASE Crash \/ UNCHANGED vars
  BY <1>9 DEF Crash, vars, Settled
<1> QED
  BY <1>1, <1>2, <1>3, <1>5, <1>6, <1>8, <1>9 DEF Next, Manage, Idle

\* An upload whose rows were committed counts as saved from then on.
LEMMA SavedForever ==
    ASSUME TypeOK, Settled, NEW f \in Files, IsUpload(f)
    PROVE  /\ IsUpload(f)' /\ ChunksOf(f)' = ChunksOf(f) /\ call'[f] = call[f]
           /\ Saved(f) => Saved(f)'
BY DEF Settled, Files, IsUpload, ChunksOf, Saved

DataInv == RowsInv /\ ReadsInv /\ MessagesInv /\ LostDataIsExplained

\* The empty tables satisfy the data invariant.
LEMMA InitData == Init => DataInv
BY Assumptions
DEF AllAssumptions, Init, DataInv, RowsInv, ReadsInv, MessagesInv, LostDataIsExplained,
    IsUpload, IsDelete, Live, Saved, Acknowledged, NoCall, NoReply, Files

\* Every step keeps the rows of files and file_chunks in agreement with the replies.
LEMMA StepRows ==
    ASSUME TypeOK, TypeOK', ProtocolInv, Settled, RowsInv, MessagesInv, [Next]_vars
    PROVE  RowsInv'
<1> USE DEF Files
<1>0. \A r \in Requests : Protocol(r)
  BY DEF ProtocolInv
\* A step that neither touches the tables nor settles an upload.
<1>q. ASSUME UNCHANGED <<files, chunks>>,
             \A f \in Files : /\ IsUpload(f)' => IsUpload(f)
                              /\ Saved(f)' => Saved(f)
                              /\ Acknowledged(f)' => Acknowledged(f)
      PROVE  RowsInv'
  <2>1. ASSUME NEW f \in Files, IsUpload(f)
        PROVE  IsUpload(f)' /\ ChunksOf(f)' = ChunksOf(f) /\ (Saved(f) => Saved(f)')
    BY <2>1, SavedForever
  <2>2. \A f \in Files : Live(f)' <=> Live(f)
    BY <1>q DEF Live
  <2>3. ASSUME NEW f \in Files, ~IsUpload(f)
        PROVE  ~IsUpload(f)' /\ ~Live(f)' /\ ~Saved(f)' /\ ~Acknowledged(f)'
               /\ \A c \in chunks' : c[1] # f
    BY <1>q, <2>2, <2>3 DEF RowsInv, Saved, Acknowledged, IsUpload
  <2>4. ASSUME NEW f \in Files, IsUpload(f)
        PROVE  /\ Saved(f)' <=> Saved(f)
               /\ Acknowledged(f)' => Acknowledged(f)
               /\ ChunksOf(f)' = ChunksOf(f)
               /\ IsUpload(f)'
    BY <1>q, <2>1, <2>4 DEF Saved, Acknowledged, IsUpload, ChunksOf
  <2>5. files' = files /\ chunks' = chunks
    BY <1>q
  <2> QED
    BY <2>2, <2>3, <2>4, <2>5 DEF RowsInv
<1>1. ASSUME NEW r \in Requests, NEW p \in Paths, NEW size \in 0 .. MaxSize,
             CreateFile(r, p, size)
      PROVE  RowsInv'
  <2>1. /\ pc[r] = "new" /\ call[r].kind = "none" /\ reply[r].status = "none"
        /\ answer[r].status = "none"
    BY <1>0, <1>1 DEF CreateFile, Protocol, TypeOK
  <2>2. /\ files' = [files EXCEPT ![r] = "pending"]
        /\ call' = [call EXCEPT ![r] = [kind |-> "upload", path |-> p, size |-> size]]
        /\ UNCHANGED <<chunks, reply, answer>>
    BY <1>1 DEF CreateFile, Goto
  <2>3. ~Live(r) /\ \A c \in chunks : c[1] # r
    BY <2>1 DEF RowsInv, IsUpload, Saved
  <2> QED
    BY <2>1, <2>2, <2>3
    DEF RowsInv, IsUpload, Live, Saved, Acknowledged, ChunksOf, TypeOK
<1>2. ASSUME NEW r \in Requests,
             \/ \E p \in Paths : GetFileByPath(r, p)
             \/ \E S \in Scopes : ListMessageIds(r, S)
             \/ Refuse(r)
      PROVE  RowsInv'
  <2>1. pc[r] = "new" /\ UNCHANGED <<files, chunks, reply>>
    BY <1>2 DEF GetFileByPath, ListMessageIds, Refuse, tables
  <2>2. /\ UNCHANGED answer \/ answer' = [answer EXCEPT ![r] = Err]
        /\ \/ UNCHANGED call
           \/ \E a : a.kind # "upload" /\ call' = [call EXCEPT ![r] = a]
    BY <1>2 DEF GetFileByPath, ListMessageIds, Refuse, Goto, Return
  <2>3. ~IsUpload(r) /\ ~IsUpload(r)'
    BY <1>0, <2>1, <2>2 DEF Protocol, IsUpload, TypeOK
  <2> QED
    BY <1>q, <2>1, <2>2, <2>3 DEF IsUpload, Saved, Acknowledged, TypeOK
<1>3. ASSUME NEW r \in Requests, Send(r) \/ HangUp(r) \/ ReturnDownload(r) \/ TelegramDone(r)
      PROVE  RowsInv'
  <2>1. UNCHANGED <<files, chunks, call, reply>>
    BY <1>3 DEF Send, HangUp, ReturnDownload, TelegramDone, Replied, tables
  <2>2. UNCHANGED answer \/ (~IsUpload(r) /\ \E a : answer' = [answer EXCEPT ![r] = a])
    BY <1>3 DEF Send, HangUp, ReturnDownload, TelegramDone, Replied, Goto, Return, IsUpload
  <2> QED
    BY <1>q, <2>1, <2>2 DEF IsUpload, Saved, Acknowledged, TypeOK
<1>4. ASSUME NEW kind, Receive(kind),
             UNCHANGED reply \/ reply' = [reply EXCEPT ![Head(queue)] = Err]
      PROVE  RowsInv'
  BY <1>4, <1>q
  DEF Receive, tables, handlers, TypeOK, IsUpload, Saved, Acknowledged, Err
<1>5. CASE StartUpload \/ StartDownload \/ StartDelete
  BY <1>4, <1>5 DEF StartUpload, StartDownload, StartDelete, Begin, GiveUp
<1>6. ASSUME NEW c \in todo, UploadChunk(c) \/ DownloadChunk(c) \/ DeleteMessage(c)
      PROVE  RowsInv'
  BY <1>6, <1>q
  DEF UploadChunk, DownloadChunk, DeleteMessage, TaskDone, tables, handlers,
      IsUpload, Saved, Acknowledged
\* The batch insert: the chunks of a live, unsaved file appear together.
<1>7. ASSUME Joined("upload"), ~failed, work # {}, Live(job), work = ChunksOf(job),
             chunks' = chunks \cup work, Answering(Ok({}))
      PROVE  RowsInv'
  <2>1. /\ job \in Requests /\ IsUpload(job) /\ reply[job].status = "none"
        /\ answer[job].status = "none"
    BY <1>0, <1>7 DEF Joined, IsUpload, Protocol, TypeOK, PCs
  <2>2. /\ UNCHANGED <<files, call, answer>>
        /\ reply' = [reply EXCEPT ![job] = Ok({})]
    BY <1>7 DEF Joined, Answering, handlers
  <2>3. ASSUME NEW f \in Files
        PROVE  /\ ChunksOf(f)' = ChunksOf(f) /\ (Live(f)' <=> Live(f))
               /\ IsUpload(f)' <=> IsUpload(f)
               /\ Saved(f)' <=> (Saved(f) \/ f = job)
               /\ Acknowledged(f)' <=> Acknowledged(f)
    BY <2>1, <2>2 DEF ChunksOf, Live, IsUpload, Saved, Acknowledged, Ok, TypeOK
  <2>4. \A c \in work : c[1] = job
    BY <1>7 DEF ChunksOf
  <2> QED
    BY <1>7, <2>1, <2>2, <2>3, <2>4 DEF RowsInv
<1>8. ASSUME Joined("upload"), UNCHANGED chunks, Answering(Err)
      PROVE  RowsInv'
  BY <1>8, <1>q
  DEF Joined, Answering, handlers, TypeOK, IsUpload, Saved, Acknowledged, Err
<1>9. CASE FinishUpload
  <2>1. job \in Requests /\ IsUpload(job)
    BY <1>9 DEF FinishUpload, Joined, TypeOK, IsUpload
  <2>2. work = ChunksOf(job)
    BY <1>9, <2>1 DEF FinishUpload, Joined, MessagesInv
  <2> QED
    BY <1>7, <1>8, <1>9, <2>2 DEF FinishUpload
<1>10. ASSUME NEW kind \in {"download", "delete"}, NEW a, Joined(kind), UNCHANGED chunks,
              Answering(a)
       PROVE  RowsInv'
  BY <1>10, <1>q
  DEF Joined, Answering, handlers, TypeOK, IsUpload, Saved, Acknowledged
<1>11. CASE FinishDownload \/ FinishDelete
  BY <1>10, <1>11 DEF FinishDownload, FinishDelete
<1>12. ASSUME NEW r \in Requests, SetAsUploaded(r) PROVE RowsInv'
  <2>1. /\ IsUpload(r) /\ UNCHANGED <<chunks, call, reply>>
        /\ \/ /\ files' = [files EXCEPT ![r] = IF Live(r) THEN "uploaded" ELSE "absent"]
              /\ reply[r].status = "ok" \/ UNCHANGED answer
           \/ UNCHANGED files /\ UNCHANGED answer
        /\ UNCHANGED answer \/ answer' = [answer EXCEPT ![r] = Ok({})]
    BY <1>12 DEF SetAsUploaded, Replied, Goto, Return, IsUpload
  <2>2. ASSUME NEW f \in Files PROVE Live(f)' <=> Live(f)
    <3>1. files \in [Requests -> {"absent", "pending", "uploaded"}]
      BY DEF TypeOK
    <3>2. CASE UNCHANGED files
      BY <3>2 DEF Live
    <3>3. CASE files' = [files EXCEPT ![r] = IF Live(r) THEN "uploaded" ELSE "absent"]
      <4>1. files'[f] = IF f = r THEN IF Live(r) THEN "uploaded" ELSE "absent" ELSE files[f]
        BY <3>1, <3>3
      <4> QED
        BY <4>1 DEF Live
    <3> QED
      BY <2>1, <3>2, <3>3
  <2>3. ASSUME NEW f \in Files
        PROVE  /\ ChunksOf(f)' = ChunksOf(f)
               /\ IsUpload(f)' <=> IsUpload(f)
               /\ Saved(f)' <=> Saved(f)
    BY <2>1 DEF ChunksOf, IsUpload, Saved
  <2>4. ASSUME NEW f \in Files, Acknowledged(f)'
        PROVE  Saved(f)' /\ files'[f] # "pending"
    <3>1. CASE Acknowledged(f)
      BY <2>1, <2>3, <3>1 DEF RowsInv, TypeOK
    <3>2. CASE ~Acknowledged(f)
      <4>1. f = r /\ answer' # answer
        BY <2>1, <2>4, <3>2 DEF Acknowledged, IsUpload, TypeOK
      <4> QED
        BY <2>1, <2>3, <4>1 DEF Saved, TypeOK
    <3> QED
      BY <3>1, <3>2
  <2>5. ASSUME NEW f \in Files PROVE chunks' = chunks
    BY <2>1
  <2> QED
    BY <2>2, <2>3, <2>4, <2>5 DEF RowsInv
\* A DELETE on files with its cascade.
<1>13. ASSUME NEW F \in SUBSET Files, DeleteFiles(F), UNCHANGED <<call, reply>>,
              \A f \in Files : Acknowledged(f)' => Acknowledged(f)
       PROVE  RowsInv'
  <2>1. ASSUME NEW f \in Files
        PROVE  /\ ChunksOf(f)' = ChunksOf(f) /\ (Live(f)' <=> Live(f) /\ f \notin F)
               /\ IsUpload(f)' <=> IsUpload(f)
               /\ Saved(f)' <=> Saved(f)
    BY <1>13 DEF DeleteFiles, ChunksOf, Live, IsUpload, Saved, TypeOK
  <2> QED
    BY <1>13, <2>1 DEF DeleteFiles, RowsInv, ChunksOf, TypeOK
<1>14. ASSUME NEW r \in Requests, DeleteWithFolders(r) PROVE RowsInv'
  <2>1. \A f \in Files : Acknowledged(f)' => Acknowledged(f)
    BY <1>14 DEF DeleteWithFolders, Return, Acknowledged, IsUpload, Err, TypeOK
  <2>2. CASE DeleteFiles({r})
    BY <1>13, <1>14, <2>1, <2>2 DEF DeleteWithFolders
  <2>3. CASE UNCHANGED tables
    BY <1>14, <1>q, <2>1, <2>3 DEF DeleteWithFolders, tables, IsUpload, Saved
  <2> QED
    BY <1>14, <2>2, <2>3 DEF DeleteWithFolders
<1>15. ASSUME NEW r \in Requests, DeleteRows(r) PROVE RowsInv'
  <2>1. \A f \in Files : Acknowledged(f)' => Acknowledged(f)
    BY <1>0, <1>15 DEF DeleteRows, Return, Acknowledged, IsUpload, IsDelete, Protocol, TypeOK
  <2>2. CASE DeleteFiles(RowsAt(call[r].scope))
    <3>1. RowsAt(call[r].scope) \in SUBSET Files
      BY DEF RowsAt
    <3> QED
      BY <1>13, <1>15, <2>1, <2>2, <3>1 DEF DeleteRows
  <2>3. CASE UNCHANGED tables
    BY <1>15, <1>q, <2>1, <2>3 DEF DeleteRows, tables, IsUpload, Saved
  <2> QED
    BY <1>15, <2>2, <2>3 DEF DeleteRows
<1>16. CASE Crash \/ UNCHANGED vars
  BY <1>16, <1>q DEF Crash, tables, vars, IsUpload, Saved, Acknowledged
<1> QED
  BY <1>1, <1>2, <1>3, <1>5, <1>6, <1>9, <1>11, <1>12, <1>14, <1>15, <1>16
  DEF Next, Arrive, Handle, Manage, Idle

\* Every step keeps what a download holds whole.
LEMMA StepReads ==
    ASSUME TypeOK, TypeOK', ProtocolInv, Settled, RowsInv, ReadsInv, [Next]_vars
    PROVE  ReadsInv'
<1> USE DEF Files
<1>0. Distinct /\ \A r \in Requests : Protocol(r)
  BY DEF ProtocolInv
\* Where the job of the next state comes from.
<1>1. \/ job' = None
      \/ job' = job /\ work' = work
      \/ /\ job' \in Requests /\ call[job'].kind # "none"
         /\ call[job'].kind = "download" =>
               work' = {c \in chunks : c[1] = call[job'].file}
  <2>1. ASSUME NEW kind, Receive(kind) PROVE Head(queue) \in Requests
    BY <1>0, <2>1, Receiving DEF Receive
  <2>2. CASE StartUpload \/ StartDownload \/ StartDelete
    BY <2>1, <2>2
    DEF StartUpload, StartDownload, StartDelete, Receive, Begin, GiveUp, manager
  <2>3. CASE FinishUpload \/ FinishDownload \/ FinishDelete \/ Crash
    BY <2>3 DEF FinishUpload, FinishDownload, FinishDelete, Answering, Crash
  <2>4. ASSUME NEW c \in todo, UploadChunk(c) \/ DownloadChunk(c) \/ DeleteMessage(c)
        PROVE  job' = job /\ work' = work
    BY <2>4 DEF UploadChunk, DownloadChunk, DeleteMessage, TaskDone
  <2>5. ASSUME NEW r \in Requests, Arrive(r) \/ Send(r) \/ Handle(r) \/ HangUp(r)
        PROVE  job' = job /\ work' = work
    BY <2>5
    DEF Arrive, CreateFile, GetFileByPath, ListMessageIds, Refuse, Send, Handle,
        SetAsUploaded, DeleteWithFolders, ReturnDownload, TelegramDone, DeleteRows,
        Replied, HangUp, manager
  <2> QED
    BY <2>2, <2>3, <2>4, <2>5 DEF Next, Manage, Idle, vars
\* Where the manager's answers come from.
<1>2. ASSUME NEW r \in Requests
      PROVE  \/ reply'[r] = reply[r]
             \/ reply'[r].status = "err"
             \/ call[r].kind # "download"
             \/ r = job /\ reply'[r] = Ok(work)
  <2>1. CASE StartUpload \/ StartDownload \/ StartDelete
    BY <2>1
    DEF StartUpload, StartDownload, StartDelete, Begin, GiveUp, Err, TypeOK
  <2>2. CASE FinishUpload \/ FinishDelete
    BY <2>2 DEF FinishUpload, FinishDelete, Joined, Answering, TypeOK
  <2>3. CASE FinishDownload
    BY <2>3 DEF FinishDownload, Answering, Err, TypeOK
  <2>4. ASSUME NEW c \in todo, UploadChunk(c) \/ DownloadChunk(c) \/ DeleteMessage(c)
        PROVE  UNCHANGED reply
    BY <2>4 DEF UploadChunk, DownloadChunk, DeleteMessage, TaskDone
  <2>5. ASSUME NEW s \in Requests, Arrive(s) \/ Send(s) \/ Handle(s) \/ HangUp(s)
        PROVE  UNCHANGED reply
    BY <2>5
    DEF Arrive, CreateFile, GetFileByPath, ListMessageIds, Refuse, Send, Handle,
        SetAsUploaded, DeleteWithFolders, ReturnDownload, TelegramDone, DeleteRows,
        Replied, HangUp
  <2>6. CASE Crash \/ UNCHANGED vars
    BY <2>6 DEF Crash, vars
  <2> QED
    BY <2>1, <2>2, <2>3, <2>4, <2>5, <2>6 DEF Next, Manage, Idle
\* Where the answers to the clients come from.
<1>3. ASSUME NEW r \in Requests
      PROVE  \/ answer'[r] = answer[r]
             \/ answer'[r].status = "err"
             \/ call'[r].kind # "download"
             \/ answer'[r] = reply[r]
  <2>1. ASSUME NEW s \in Requests, Arrive(s) \/ Send(s) \/ HangUp(s)
        PROVE  UNCHANGED answer \/ answer' = [answer EXCEPT ![s] = Err]
    BY <2>1
    DEF Arrive, CreateFile, GetFileByPath, ListMessageIds, Refuse, Send, HangUp, Goto, Return
  <2>2. ASSUME NEW s \in Requests, SetAsUploaded(s) \/ TelegramDone(s)
        PROVE  UNCHANGED answer \/
               (call'[s].kind # "download" /\ answer' = [answer EXCEPT ![s] = Ok({})])
    BY <2>2 DEF SetAsUploaded, TelegramDone, Replied, Goto, Return
  <2>3. ASSUME NEW s \in Requests, DeleteWithFolders(s) \/ DeleteRows(s)
        PROVE  /\ call'[s].kind # "download"
               /\ \E a : answer' = [answer EXCEPT ![s] = a]
    BY <1>0, <2>3 DEF DeleteWithFolders, DeleteRows, Return, Protocol, IsUpload, IsDelete
  <2>4. ASSUME NEW s \in Requests, ReturnDownload(s)
        PROVE  answer' = [answer EXCEPT ![s] = reply[s]]
    BY <2>4 DEF ReturnDownload, Return
  <2>5. CASE Manage \/ Crash \/ UNCHANGED vars
    BY <2>5
    DEF Manage, StartUpload, StartDownload, StartDelete, Receive, UploadChunk,
        DownloadChunk, DeleteMessage, TaskDone, FinishUpload, FinishDownload,
        FinishDelete, Joined, handlers, Crash, vars
  <2> QED
    BY <2>1, <2>2, <2>3, <2>4, <2>5 DEF Next, Handle, Idle, Err, TypeOK
<1> SUFFICES ASSUME NEW r \in Requests, call'[r].kind = "download"
             PROVE  /\ job' = r => Whole(work, call[r].file)'
                    /\ reply'[r].status = "ok" => Whole(reply[r].body, call[r].file)'
                    /\ answer'[r].status = "ok" => answer'[r] = reply'[r]
  BY DEF ReadsInv
<1>4. CASE call'[r] # call[r]
  <2>1. pc[r] = "new" /\ UNCHANGED <<job, reply, answer>>
    BY <1>4 DEF Settled
  <2> QED
    BY <1>0, <2>1 DEF Protocol
<1>5. CASE call'[r] = call[r]
  <2>0. PICK f \in Files : call[r].kind = "download" /\ f = call[r].file
    BY <1>5, CallTypes
  <2>1. /\ call[r].kind = "download" /\ f = call[r].file /\ f \in Files
        /\ call'[r].file = f
    BY <1>5, <2>0
  <2>2. \A b : Whole(b, f) => (b # {} => Saved(f)' /\ b = ChunksOf(f)')
    <3>1. ASSUME Saved(f) PROVE Saved(f)' /\ ChunksOf(f)' = ChunksOf(f)
      <4>1. IsUpload(f)
        BY <3>1 DEF Saved
      <4> QED
        BY <2>1, <3>1, <4>1, SavedForever
    <3> QED
      BY <3>1 DEF Whole
  <2>3. /\ job = r => Whole(work, f)
        /\ reply[r].status = "ok" => Whole(reply[r].body, f)
        /\ answer[r].status = "ok" => answer[r] = reply[r]
    BY <2>1 DEF ReadsInv
  <2>4. job' = r => Whole(work, f)'
    <3>1. SUFFICES ASSUME job' = r PROVE work' # {} => Saved(f)' /\ work' = ChunksOf(f)'
      BY <1>5 DEF Whole
    <3>2. CASE job' = job /\ work' = work
      BY <2>2, <2>3, <3>1, <3>2
    <3>3. CASE work' = {c \in chunks : c[1] = f}
      <4>1. ASSUME work' # {} PROVE Saved(f) /\ Live(f) /\ work' \subseteq ChunksOf(f)
        BY <2>1, <3>3, <4>1 DEF RowsInv
      <4>2. \A c \in ChunksOf(f) : c[1] = f
        BY DEF ChunksOf
      <4>3. Saved(f) /\ Live(f) => ChunksOf(f) \subseteq chunks
        BY <2>1 DEF RowsInv
      <4>4. Whole(work', f)
        BY <3>3, <4>1, <4>2, <4>3 DEF Whole
      <4> QED
        BY <2>2, <4>4
    <3> QED
      BY <1>1, <2>1, <3>1, <3>2, <3>3, Assumptions DEF AllAssumptions
  <2>5. reply'[r].status = "ok" => Whole(reply[r].body, f)'
    <3>1. SUFFICES ASSUME reply'[r].status = "ok"
                   PROVE  reply'[r].body # {} => Saved(f)' /\ reply'[r].body = ChunksOf(f)'
      BY <1>5 DEF Whole
    <3>2. CASE reply'[r] = reply[r]
      BY <2>2, <2>3, <3>1, <3>2
    <3>3. CASE r = job /\ reply'[r] = Ok(work)
      BY <2>2, <2>3, <3>3 DEF Ok
    <3> QED
      BY <1>2, <2>1, <3>1, <3>2, <3>3
  <2>6. answer'[r].status = "ok" => answer'[r] = reply'[r]
    <3>1. reply[r].status = "ok" => reply'[r] = reply[r]
      BY DEF Settled
    <3> QED
      BY <1>3, <1>5, <2>1, <2>3, <3>1
  <2> QED
    BY <2>1, <2>4, <2>5, <2>6 DEF Whole
<1> QED
  BY <1>4, <1>5

\* Every step keeps, for each chunk row whose message is gone, a delete to blame.
LEMMA StepMessages ==
    ASSUME TypeOK, TypeOK', ProtocolInv, Settled, RowsInv, MessagesInv,
           LostDataIsExplained, [Next]_vars
    PROVE  MessagesInv' /\ LostDataIsExplained'
<1> USE DEF Files
<1>0. Distinct /\ \A r \in Requests : Protocol(r)
  BY DEF ProtocolInv
<1>n. None \notin Requests
  BY Assumptions DEF AllAssumptions
\* The actions, grouped by what they do to the job.
<1>a. \/ UNCHANGED <<job, work, todo, failed, messages>>
      \/ job' = None /\ UNCHANGED messages
      \/ StartUpload \/ StartDownload \/ StartDelete
      \/ \E c \in todo : UploadChunk(c) \/ DownloadChunk(c) \/ DeleteMessage(c)
  <2>1. ASSUME NEW r \in Requests, Arrive(r) \/ Send(r) \/ Handle(r) \/ HangUp(r)
        PROVE  UNCHANGED <<job, work, todo, failed, messages>>
    BY <2>1
    DEF Arrive, CreateFile, GetFileByPath, ListMessageIds, Refuse, Send, Handle,
        SetAsUploaded, DeleteWithFolders, ReturnDownload, TelegramDone, DeleteRows,
        Replied, HangUp, manager
  <2>2. CASE FinishUpload \/ FinishDownload \/ FinishDelete \/ Crash
    BY <2>2 DEF FinishUpload, FinishDownload, FinishDelete, Joined, Answering, Crash
  <2> QED
    BY <2>1, <2>2 DEF Next, Manage, Idle, vars
<1>s. ASSUME NEW kind, Receive(kind)
      PROVE  /\ Head(queue) \in Requests
             /\ call[Head(queue)].kind = kind
             /\ UNCHANGED <<call, messages>>
             /\ job = None
  BY <1>0, <1>s, Receiving DEF Receive, handlers
<1>t. ASSUME NEW c \in todo, UploadChunk(c) \/ DownloadChunk(c) \/ DeleteMessage(c)
      PROVE  /\ job \in Requests /\ UNCHANGED <<job, work, call>>
             /\ todo' = todo \ {c}
             /\ failed \/ ~failed' => (failed' <=> failed)
             /\ IsUpload(job) => messages \subseteq messages' /\ (~failed' => c \in messages')
             /\ messages' # messages => \/ messages \subseteq messages'
                                        \/ IsDelete(job) /\ messages' = messages \ {c}
  BY <1>t
  DEF UploadChunk, DownloadChunk, DeleteMessage, TaskDone, handlers, IsUpload, IsDelete, TypeOK
\* What a running upload has sent.
<1>1. ASSUME job' # None, IsUpload(job)'
      PROVE  /\ work' = ChunksOf(job)'
             /\ ~failed' => work' \ todo' \subseteq messages'
  <2>1. CASE UNCHANGED <<job, work, todo, failed, messages>>
    <3>1. PICK j \in Requests : j = job
      BY <1>1, <2>1 DEF TypeOK
    <3>2. call'[j] = call[j]
      BY <1>0, <3>1 DEF Protocol, Settled
    <3> QED
      BY <1>1, <2>1, <3>1, <3>2 DEF MessagesInv, IsUpload, ChunksOf
  <2>2. CASE StartUpload
    BY <1>1, <1>s, <2>2 DEF StartUpload, Begin, GiveUp, manager, ChunksOf
  <2>3. CASE StartDownload
    BY <1>1, <1>s, <2>3 DEF StartDownload, Begin, GiveUp, manager, IsUpload
  <2>4. CASE StartDelete
    BY <1>1, <1>s, <2>4 DEF StartDelete, Begin, GiveUp, manager, IsUpload
  <2>5. ASSUME NEW c \in todo, UploadChunk(c) \/ DownloadChunk(c) \/ DeleteMessage(c)
        PROVE  /\ work' = ChunksOf(job)'
               /\ ~failed' => work' \ todo' \subseteq messages'
    <3>1. IsUpload(job) /\ ChunksOf(job)' = ChunksOf(job)
      BY <1>1, <1>t, <2>5 DEF IsUpload, ChunksOf
    <3>2. job # None /\ work = ChunksOf(job) /\ (~failed => work \ todo \subseteq messages)
      BY <1>1, <1>t, <1>n, <2>5, <3>1 DEF MessagesInv
    <3> QED
      BY <1>t, <2>5, <3>1, <3>2 DEF TypeOK
  <2> QED
    BY <1>a, <1>1, <2>1, <2>2, <2>3, <2>4, <2>5
\* Who adds chunk rows, and who removes messages.
<1>2. ASSUME NEW c \in chunks', c \notin chunks
      PROVE  /\ c[1] \in Requests /\ reply[c[1]].status = "none"
             /\ c \in messages'
  <2>1. CASE FinishUpload
    <3>1. /\ job \in Requests /\ IsUpload(job) /\ ~failed /\ todo = {}
          /\ c \in work /\ UNCHANGED messages
      BY <1>2, <2>1 DEF FinishUpload, Joined, IsUpload, TypeOK
    <3>2. c \in ChunksOf(job) /\ c \in messages
      BY <1>n, <3>1 DEF MessagesInv
    <3>3. c[1] = job
      BY <3>2 DEF ChunksOf
    <3> QED
      BY <1>0, <3>1, <3>2, <3>3 DEF Protocol
  <2>2. CASE ~FinishUpload
    <3>1. ASSUME NEW r \in Requests, Arrive(r) \/ Send(r) \/ Handle(r) \/ HangUp(r)
          PROVE  chunks' \subseteq chunks
      BY <3>1
      DEF Arrive, CreateFile, GetFileByPath, ListMessageIds, Refuse, Send, Handle,
          SetAsUploaded, DeleteWithFolders, ReturnDownload, TelegramDone, DeleteRows,
          DeleteFiles, Replied, HangUp, tables
    <3>2. CASE StartUpload \/ StartDownload \/ StartDelete
      <4>1. ASSUME NEW kind, Receive(kind) PROVE chunks' = chunks
        BY <4>1 DEF Receive, tables
      <4> QED
        BY <1>2, <3>2, <4>1 DEF StartUpload, StartDownload, StartDelete
    <3>4. CASE FinishDownload \/ FinishDelete \/ Crash
      BY <1>2, <3>4 DEF FinishDownload, FinishDelete, Crash, tables
    <3>3. ASSUME NEW d \in todo, UploadChunk(d) \/ DownloadChunk(d) \/ DeleteMessage(d)
          PROVE  chunks' = chunks
      BY <3>3 DEF UploadChunk, DownloadChunk, DeleteMessage, TaskDone, tables
    <3> QED
      BY <1>2, <2>2, <3>1, <3>2, <3>3, <3>4 DEF Next, Manage, Idle, vars
  <2> QED
    BY <2>1, <2>2
<1>3. ASSUME NEW c \in messages, c \notin messages'
      PROVE  \E d \in Requests : job = d /\ IsDelete(d) /\ c \in call[d].listed
  <2>1. CASE UNCHANGED messages
    BY <1>3, <2>1
  <2>2. CASE StartUpload \/ StartDownload \/ StartDelete
    BY <1>3, <1>s, <2>2 DEF StartUpload, StartDownload, StartDelete
  <2>3. ASSUME NEW d \in todo, UploadChunk(d) \/ DownloadChunk(d) \/ DeleteMessage(d)
        PROVE  \E e \in Requests : job = e /\ IsDelete(e) /\ c \in call[e].listed
    <3>1. job \in Requests /\ IsDelete(job) /\ c = d
      BY <1>3, <1>t, <2>3
    <3> QED
      BY <3>1 DEF MessagesInv, TypeOK
  <2> QED
    BY <1>a, <2>1, <2>2, <2>3
\* The only step that answers a delete with success removes the rows of its scope.
<1>4. ASSUME NEW d \in Requests, IsDelete(d)', answer[d].status # "ok", answer'[d].status = "ok"
      PROVE  /\ call'[d] = call[d]
             /\ \A c \in chunks' : c \in chunks /\ c[1] \notin RowsAt(call[d].scope)
  <2>1. ASSUME NEW r \in Requests, Arrive(r) \/ Send(r) \/ HangUp(r) \/ TelegramDone(r)
        PROVE  UNCHANGED answer \/ answer' = [answer EXCEPT ![r] = Err]
    BY <2>1
    DEF Arrive, CreateFile, GetFileByPath, ListMessageIds, Refuse, Send, HangUp,
        TelegramDone, Goto, Return
  <2>2. ASSUME NEW r \in Requests, SetAsUploaded(r) \/ ReturnDownload(r)
        PROVE  ~IsDelete(r)' /\ \/ UNCHANGED answer
                                \/ \E a : answer' = [answer EXCEPT ![r] = a]
    BY <2>2 DEF SetAsUploaded, ReturnDownload, Replied, Goto, Return, IsDelete
  <2>3. ASSUME NEW r \in Requests, DeleteWithFolders(r)
        PROVE  answer' = [answer EXCEPT ![r] = Err]
    BY <2>3 DEF DeleteWithFolders, Return
  <2>4. CASE DeleteRows(d)
    BY <1>4, <2>4 DEF DeleteRows, DeleteFiles, Return, Err, TypeOK
  <2>5. ASSUME NEW r \in Requests, DeleteRows(r), r # d
        PROVE  answer'[d] = answer[d]
    BY <2>5 DEF DeleteRows, Return, TypeOK
  <2>6. ~(Manage \/ Crash \/ UNCHANGED vars)
    <3> SUFFICES ASSUME Manage \/ Crash \/ UNCHANGED vars PROVE FALSE
      OBVIOUS
    <3>1. ASSUME NEW kind, Receive(kind) \/ Joined(kind) PROVE UNCHANGED answer
      BY <3>1 DEF Receive, Joined, handlers
    <3>2. ASSUME NEW c \in todo, UploadChunk(c) \/ DownloadChunk(c) \/ DeleteMessage(c)
          PROVE  UNCHANGED answer
      BY <3>2 DEF UploadChunk, DownloadChunk, DeleteMessage, TaskDone, handlers
    <3>3. CASE Crash \/ UNCHANGED vars
      BY <1>4, <3>3 DEF Crash, vars
    <3> QED
      BY <1>4, <3>1, <3>2, <3>3
      DEF Manage, StartUpload, StartDownload, StartDelete, FinishUpload, FinishDownload,
          FinishDelete
  <2>7. \E r \in Requests : DeleteRows(r)
    <3>1. PICK r \in Requests : Arrive(r) \/ Send(r) \/ Handle(r) \/ HangUp(r)
      BY <2>6 DEF Next, Idle
    <3>2. CASE Arrive(r) \/ Send(r) \/ HangUp(r) \/ TelegramDone(r) \/ DeleteWithFolders(r)
      <4>1. UNCHANGED answer \/ answer' = [answer EXCEPT ![r] = Err]
        BY <2>1, <2>3, <3>2
      <4> QED
        BY <1>4, <4>1 DEF Err, TypeOK
    <3>3. CASE SetAsUploaded(r) \/ ReturnDownload(r)
      BY <1>4, <2>2, <3>3 DEF IsDelete, TypeOK
    <3> QED
      BY <3>1, <3>2, <3>3 DEF Handle
  <2> QED
    BY <1>4, <2>4, <2>5, <2>7
\* The chunks a delete listed.
<1>5. ASSUME NEW d \in Requests, IsDelete(d)'
      PROVE  /\ job' = d => work' = call'[d].listed
             /\ \A c \in call'[d].listed :
                   /\ Saved(c[1])'
                   /\ call'[c[1]].path \in call'[d].scope
                   /\ answer'[d].status = "ok" => c \notin chunks'
  \* The delete that just listed its chunks.
  <2>1. CASE call'[d] # call[d]
    <3>1. /\ pc[d] = "new" /\ UNCHANGED <<job, reply, answer>>
          /\ job # d /\ answer[d].status = "none"
      <4>1. pc[d] = "new" /\ UNCHANGED <<job, reply, answer>>
        BY <2>1 DEF Settled
      <4>2. answer[d] \in Replies
        BY DEF TypeOK
      <4>3. answer[d].status = "none" \/ answer[d].status # "none"
        OBVIOUS
      <4> QED
        BY <1>0, <4>1 DEF Protocol
    <3>2. PICK S \in Scopes : ListMessageIds(d, S)
      <4>1. ASSUME NEW r \in Requests, Send(r) \/ Handle(r) \/ HangUp(r)
            PROVE  UNCHANGED call
        BY <4>1
        DEF Send, Handle, SetAsUploaded, DeleteWithFolders, ReturnDownload, TelegramDone,
            DeleteRows, Replied, HangUp
      <4>2. ASSUME NEW kind, Receive(kind) \/ Joined(kind) PROVE UNCHANGED call
        BY <4>2 DEF Receive, Joined, handlers
      <4>3. Manage \/ Crash \/ UNCHANGED vars => UNCHANGED call
        BY <1>t, <4>2
        DEF Manage, StartUpload, StartDownload, StartDelete, FinishUpload, FinishDownload,
            FinishDelete, Crash, vars
      <4>4. PICK r \in Requests : Arrive(r)
        BY <2>1, <4>1, <4>3 DEF Next, Idle
      <4>5. \/ \E S \in Scopes : ListMessageIds(r, S)
            \/ UNCHANGED call
            \/ \E a : call' = [call EXCEPT ![r] = a] /\ a.kind # "delete"
        <5>1. ASSUME NEW p \in Paths, NEW size \in 0 .. MaxSize, CreateFile(r, p, size)
              PROVE  \E a : call' = [call EXCEPT ![r] = a] /\ a.kind # "delete"
          <6> DEFINE a == [kind |-> "upload", path |-> p, size |-> size]
          <6>1. a.kind # "delete" /\ call' = [call EXCEPT ![r] = a]
            BY <5>1 DEF CreateFile
          <6> HIDE DEF a
          <6> QED
            BY <6>1
        <5>2. ASSUME NEW p \in Paths, GetFileByPath(r, p)
              PROVE  \E a : call' = [call EXCEPT ![r] = a] /\ a.kind # "delete"
          <6>1. PICK f \in RowsAt({p}) :
                   call' = [call EXCEPT ![r] = [kind |-> "download", file |-> f]]
            BY <5>2 DEF GetFileByPath
          <6> DEFINE a == [kind |-> "download", file |-> f]
          <6>2. a.kind # "delete" /\ call' = [call EXCEPT ![r] = a]
            BY <6>1
          <6> HIDE DEF a
          <6> QED
            BY <6>2
        <5>3. Refuse(r) => UNCHANGED call
          BY DEF Refuse
        <5> QED
          BY <4>4, <5>1, <5>2, <5>3 DEF Arrive
      <4>6. \E a : call' = [call EXCEPT ![r] = a]
        BY <2>1, <4>5 DEF ListMessageIds
      <4>7. r = d
        BY <2>1, <4>6 DEF TypeOK
      <4> QED
        BY <1>5, <2>1, <4>5, <4>7 DEF IsDelete, TypeOK
    <3>3. /\ call'[d] = [kind |-> "delete", scope |-> S,
                         listed |-> {c \in chunks : c[1] \in RowsAt(S)}]
          /\ \A f \in Files : f # d => call'[f] = call[f]
          /\ reply' = reply
      BY <3>2 DEF ListMessageIds, TypeOK
    <3>4. ASSUME NEW c \in call'[d].listed
          PROVE  Saved(c[1])' /\ call'[c[1]].path \in call'[d].scope
      <4>1. c \in chunks /\ c[1] \in Files /\ call[c[1]].path \in S
        BY <3>3 DEF RowsAt
      <4>2. Saved(c[1]) /\ c[1] # d
        BY <1>0, <3>1, <4>1 DEF RowsInv, Saved, IsUpload, Protocol
      <4> QED
        BY <3>3, <4>1, <4>2 DEF Saved, IsUpload
    <3> QED
      BY <3>1, <3>4
  \* A delete under way or finished.
  <2>2. CASE call'[d] = call[d]
    <3>1. /\ IsDelete(d)
          /\ job = d => work = call[d].listed
          /\ \A c \in call[d].listed : /\ Saved(c[1])
                                       /\ call[c[1]].path \in call[d].scope
                                       /\ answer[d].status = "ok" => c \notin chunks
      BY <1>5, <2>2 DEF MessagesInv, IsDelete
    <3>2. job' = d => work' = call[d].listed
      <4>1. CASE UNCHANGED <<job, work, todo, failed, messages>>
        BY <3>1, <4>1
      <4>2. CASE StartUpload \/ StartDownload
        BY <1>n, <1>s, <3>1, <4>2
        DEF StartUpload, StartDownload, Begin, GiveUp, manager, IsDelete
      <4>3. CASE StartDelete
        BY <1>n, <1>s, <3>1, <4>3 DEF StartDelete, Begin, GiveUp, manager
      <4>4. CASE \E c \in todo : UploadChunk(c) \/ DownloadChunk(c) \/ DeleteMessage(c)
        BY <1>t, <3>1, <4>4
      <4> QED
        BY <1>a, <1>n, <4>1, <4>2, <4>3, <4>4
    <3>3. ASSUME NEW c \in call[d].listed
          PROVE  /\ Saved(c[1])' /\ call'[c[1]].path = call[c[1]].path
                 /\ reply[c[1]].status = "ok"
      <4>1. PICK f \in Files : f = c[1]
        BY <3>1, CallTypes DEF Chunks
      <4>2. Saved(f) /\ IsUpload(f)
        BY <3>1, <4>1 DEF Saved
      <4> QED
        BY <4>1, <4>2, SavedForever DEF Saved
    <3>4. ASSUME NEW c \in call[d].listed, answer'[d].status = "ok"
          PROVE  c \notin chunks'
      <4>1. CASE answer[d].status = "ok"
        BY <1>2, <3>1, <3>3, <4>1
      <4>2. CASE answer[d].status # "ok"
        <5>1. SUFFICES ASSUME c \in chunks' PROVE FALSE
          OBVIOUS
        <5>2. c \in chunks /\ c[1] \notin RowsAt(call[d].scope)
          BY <1>4, <1>5, <3>4, <4>2, <5>1
        <5>3. c[1] \in Files /\ Live(c[1]) /\ call[c[1]].path \in call[d].scope
          BY <3>1, <5>2 DEF RowsInv, Chunks, TypeOK
        <5> QED
          BY <5>2, <5>3 DEF RowsAt
      <4> QED
        BY <4>1, <4>2
    <3> QED
      BY <2>2, <3>1, <3>2, <3>3, <3>4
  <2> QED
    BY <2>1, <2>2
<1>6. LostDataIsExplained'
  <2> SUFFICES ASSUME NEW c \in chunks', c \notin messages'
               PROVE  \E d \in Requests : IsDelete(d)' /\ c \in call'[d].listed
                                          /\ answer'[d].status # "ok"
    BY DEF LostDataIsExplained
  <2>1. c \in chunks
    BY <1>2
  <2>2. \E d \in Requests : IsDelete(d) /\ c \in call[d].listed
    BY <1>3, <2>1 DEF LostDataIsExplained
  <2>3. PICK d \in Requests : IsDelete(d) /\ c \in call[d].listed
    BY <2>2
  <2>4. IsDelete(d)' /\ call'[d] = call[d]
    BY <2>3 DEF Settled, IsDelete
  <2> QED
    BY <1>5, <2>3, <2>4
<1> QED
  BY <1>1, <1>5, <1>6 DEF MessagesInv

-----------------------------------------------------------------------------
IInv == TypeOK /\ ProtocolInv /\ DataInv

\* The inductive invariant holds at the start.
LEMMA InitIInv == Init => IInv
BY InitTypeOK, InitProtocol, InitData DEF IInv

\* The inductive invariant is preserved by every step.
LEMMA StepIInv == IInv /\ [Next]_vars => IInv'
<1> SUFFICES ASSUME IInv, [Next]_vars PROVE IInv'
  OBVIOUS
<1>1. TypeOK /\ ProtocolInv /\ RowsInv /\ ReadsInv /\ MessagesInv /\ LostDataIsExplained
  BY DEF IInv, DataInv
<1>2. TypeOK'
  BY <1>1, StepTypeOK
<1>3. Settled
  BY <1>1, StepSettles
<1>4. ProtocolInv'
  BY <1>1, <1>2, StepProtocol
<1>5. RowsInv'
  BY <1>1, <1>2, <1>3, StepRows
<1>6. ReadsInv'
  BY <1>1, <1>2, <1>3, StepReads
<1>7. MessagesInv' /\ LostDataIsExplained'
  BY <1>1, <1>2, <1>3, StepMessages
<1> QED
  BY <1>2, <1>4, <1>5, <1>6, <1>7 DEF IInv, DataInv

\* The inductive invariant holds in every reachable state.
LEMMA Invariance == Spec => []IInv
BY InitIInv, StepIInv, PTL DEF Spec

\* The chunk rows of a file are none or all of its chunks (create_chunks_batch and
\* the cascade of files to file_chunks).
THEOREM ChunksAreAllOrNothing == Spec => []ChunksAllOrNothing
<1>1. IInv => ChunksAllOrNothing
  <2> SUFFICES ASSUME IInv, NEW f \in Files, RowsOf(f) # {}
               PROVE  IsUpload(f) /\ RowsOf(f) = ChunksOf(f)
    BY DEF ChunksAllOrNothing
  <2>1. Live(f) /\ Saved(f) /\ RowsOf(f) \subseteq ChunksOf(f)
    BY DEF IInv, DataInv, RowsInv, RowsOf
  <2>2. ChunksOf(f) \subseteq RowsOf(f)
    BY <2>1 DEF IInv, DataInv, RowsInv, RowsOf, ChunksOf
  <2> QED
    BY <2>1, <2>2 DEF Saved
<1> QED
  BY <1>1, Invariance, PTL

\* A download returns nothing or a whole file (StorageManagerService::download).
THEOREM DownloadsAreWhole == Spec => []DownloadIsWhole
<1>1. IInv => DownloadIsWhole
  <2> SUFFICES ASSUME IInv, NEW r \in Requests, call[r].kind = "download",
                      answer[r].status = "ok", answer[r].body # {}
               PROVE  Saved(call[r].file) /\ answer[r].body = ChunksOf(call[r].file)
    BY DEF DownloadIsWhole
  <2>1. answer[r] = reply[r] /\ Whole(reply[r].body, call[r].file)
    BY DEF IInv, DataInv, ReadsInv
  <2> QED
    BY <2>1 DEF Whole
<1> QED
  BY <1>1, Invariance, PTL

\* A chunk row without its message is the doing of a delete that did not succeed
\* (FilesService::delete, lines 281-289).
THEOREM LostDataIsAlwaysExplained == Spec => []LostDataIsExplained
<1>1. IInv => LostDataIsExplained
  BY DEF IInv, DataInv
<1> QED
  BY <1>1, Invariance, PTL

-----------------------------------------------------------------------------
\* The four steps that touch the table files.
LEMMA FilesSteps ==
    ASSUME [Next]_vars
    PROVE  \/ UNCHANGED files
           \/ \E r \in Requests :
                 \/ \E p \in Paths, size \in 0 .. MaxSize : CreateFile(r, p, size)
                 \/ SetAsUploaded(r)
                 \/ DeleteWithFolders(r)
                 \/ DeleteRows(r)
<1>1. ASSUME NEW r \in Requests, Arrive(r), ~UNCHANGED files
      PROVE  \E p \in Paths, size \in 0 .. MaxSize : CreateFile(r, p, size)
  BY <1>1 DEF Arrive, GetFileByPath, ListMessageIds, Refuse, tables
<1>2. ASSUME NEW r \in Requests, Handle(r), ~UNCHANGED files
      PROVE  SetAsUploaded(r) \/ DeleteWithFolders(r) \/ DeleteRows(r)
  BY <1>2 DEF Handle, ReturnDownload, TelegramDone, tables
<1>3. ASSUME Manage
      PROVE  UNCHANGED files
  BY <1>3 DEF Manage, StartUpload, StartDownload, StartDelete, Receive, UploadChunk,
              DownloadChunk, DeleteMessage, TaskDone, FinishUpload, FinishDownload,
              FinishDelete, Joined, tables
<1>4. ASSUME NEW r \in Requests, Send(r) \/ HangUp(r)
      PROVE  UNCHANGED files
  BY <1>4 DEF Send, HangUp, tables
<1> QED
  BY <1>1, <1>2, <1>3, <1>4 DEF Next, Crash, Idle, vars, tables

\* A row that disappears goes by the fallback of its own upload or by a delete of
\* its path.
LEMMA RowsGo ==
    ASSUME TypeOK, [Next]_vars, NEW f \in Files, Live(f), files'[f] = "absent"
    PROVE  \/ DeleteWithFolders(f)
           \/ \E d \in Requests : /\ DeleteRows(d)
                                  /\ call[f].path \in call[d].scope
                                  /\ answer' = [answer EXCEPT ![d] = Ok({})]
<1>1. files[f] # "absent" /\ f \in Requests
  BY DEF Live, Files
<1>2. ASSUME NEW r \in Requests, NEW p \in Paths, NEW size \in 0 .. MaxSize,
             CreateFile(r, p, size)
      PROVE  FALSE
  BY <1>1, <1>2 DEF CreateFile, TypeOK
<1>3. ASSUME NEW r \in Requests, SetAsUploaded(r)
      PROVE  FALSE
  BY <1>1, <1>3 DEF SetAsUploaded, TypeOK, Live
<1>4. ASSUME NEW r \in Requests, DeleteWithFolders(r)
      PROVE  DeleteWithFolders(f)
  <2>1. r = f
    BY <1>1, <1>4 DEF DeleteWithFolders, DeleteFiles, tables
  <2> QED
    BY <1>4, <2>1
<1>5. ASSUME NEW d \in Requests, DeleteRows(d)
      PROVE  /\ call[f].path \in call[d].scope
             /\ answer' = [answer EXCEPT ![d] = Ok({})]
  BY <1>1, <1>5 DEF DeleteRows, DeleteFiles, RowsAt, Return, tables
<1> QED
  BY <1>1, <1>2, <1>3, <1>4, <1>5, FilesSteps

\* The same, as what the two steps leave behind.
LEMMA RowsGoFor ==
    ASSUME IInv, [Next]_vars, NEW f \in Files, Live(f), files'[f] = "absent"
    PROVE  \/ pc[f] = "undo" /\ answer'[f].status = "err"
           \/ \E d \in Requests : /\ IsDelete(d) /\ call[f].path \in call[d].scope
                                  /\ pc[d] = "rows" /\ answer'[d].status = "ok"
<1>1. TypeOK /\ f \in Requests
  BY DEF IInv, Files
<1>2. CASE DeleteWithFolders(f)
  BY <1>1, <1>2 DEF DeleteWithFolders, Return, Err, TypeOK
<1>3. ASSUME NEW d \in Requests, DeleteRows(d), call[f].path \in call[d].scope,
             answer' = [answer EXCEPT ![d] = Ok({})]
      PROVE  /\ IsDelete(d) /\ call[f].path \in call[d].scope
             /\ pc[d] = "rows" /\ answer'[d].status = "ok"
  <2>1. pc[d] = "rows" /\ IsDelete(d)
    BY <1>3 DEF DeleteRows, IInv, ProtocolInv, Protocol
  <2>2. answer'[d].status = "ok"
    BY <1>1, <1>3 DEF TypeOK, Ok
  <2> QED
    BY <1>3, <2>1, <2>2
<1> QED
  BY <1>1, <1>2, <1>3, RowsGo

\* A row leaves the table only by the fallback of its own upload or when a delete that
\* names its path commits (delete_with_folders, delete).
THEOREM RowsGoOnlyByDelete == Spec => RowsGoByDelete
<1>1. IInv /\ [Next]_vars =>
        \A f \in Files : Live(f) /\ files'[f] = "absent" =>
          \/ pc[f] = "undo" /\ answer'[f].status = "err"
          \/ \E d \in Requests : /\ IsDelete(d) /\ call[f].path \in call[d].scope
                                 /\ pc[d] = "rows" /\ answer'[d].status = "ok"
  BY RowsGoFor
<1> QED
  BY <1>1, Invariance, PTL DEF Spec, RowsGoByDelete

-----------------------------------------------------------------------------
\* An upload without row was answered with an error, or its path was deleted.
GoneInv == \A f \in Files : IsUpload(f) /\ ~Live(f) => answer[f].status = "err" \/ Deleted(f)

\* Every step that takes a row leaves the answer that explains it.
LEMMA StepGone == IInv /\ Settled /\ GoneInv /\ [Next]_vars => GoneInv'
<1> SUFFICES ASSUME IInv, Settled, GoneInv, [Next]_vars,
                    NEW f \in Files, IsUpload(f)', ~Live(f)'
             PROVE  (answer[f].status = "err")' \/ Deleted(f)'
  BY DEF GoneInv
<1>1. TypeOK /\ f \in Requests /\ files'[f] = "absent"
  BY DEF IInv, Files, Live
<1>2. ASSUME NEW d \in Requests, IsDelete(d)
      PROVE  call'[d] = call[d] /\ IsDelete(d)'
  BY <1>2 DEF Settled, IsDelete
<1>3. CASE ~IsUpload(f)
  <2>1. PICK p \in Paths, size \in 0 .. MaxSize : CreateFile(f, p, size)
    <3>1. call'[f] # call[f]
      BY <1>3 DEF IsUpload
    <3>2. ASSUME NEW r \in Requests, Arrive(r)
          PROVE  \E p \in Paths, size \in 0 .. MaxSize : CreateFile(f, p, size)
      <4>1. ASSUME \/ \E p \in Paths : GetFileByPath(r, p)
                   \/ \E S \in Scopes : ListMessageIds(r, S)
                   \/ Refuse(r)
            PROVE  FALSE
        <5>1. call \in [Requests -> Calls]
          BY <1>1 DEF TypeOK
        <5>2. CASE \E p \in Paths : GetFileByPath(r, p)
          <6>1. PICK g \in Files : call' = [call EXCEPT ![r] = [kind |-> "download", file |-> g]]
            BY <5>2 DEF GetFileByPath, RowsAt
          <6> QED
            BY <1>1, <3>1, <3>2, <5>1, <6>1 DEF IsUpload
        <5>3. CASE \E S \in Scopes : ListMessageIds(r, S)
          <6>1. PICK S \in Scopes : ListMessageIds(r, S)
            BY <5>3
          <6> DEFINE listed == {c \in chunks : c[1] \in RowsAt(S)}
          <6>2. call' = [call EXCEPT ![r] = [kind |-> "delete", scope |-> S, listed |-> listed]]
            BY <6>1 DEF ListMessageIds
          <6> HIDE DEF listed
          <6> QED
            BY <1>1, <3>1, <3>2, <5>1, <6>2 DEF IsUpload
        <5>4. CASE Refuse(r)
          BY <3>1, <5>4 DEF Refuse
        <5> QED
          BY <4>1, <5>2, <5>3, <5>4
      <4>2. ASSUME NEW p \in Paths, NEW size \in 0 .. MaxSize, CreateFile(r, p, size)
            PROVE  CreateFile(f, p, size)
        BY <1>1, <3>1, <4>2 DEF CreateFile, TypeOK
      <4> QED
        BY <3>2, <4>1, <4>2 DEF Arrive
    <3>3. ASSUME NEW r \in Requests, Send(r) \/ Handle(r) \/ HangUp(r)
          PROVE  FALSE
      BY <3>1, <3>3
         DEF Send, HangUp, Handle, SetAsUploaded, DeleteWithFolders, ReturnDownload,
             TelegramDone, DeleteRows, Replied
    <3>4. ASSUME Manage
          PROVE  FALSE
      BY <3>1, <3>4
         DEF Manage, StartUpload, StartDownload, StartDelete, Receive, UploadChunk,
             DownloadChunk, DeleteMessage, TaskDone, FinishUpload, FinishDownload,
             FinishDelete, Joined, handlers
    <3> QED
      BY <3>1, <3>2, <3>3, <3>4 DEF Next, Crash, Idle, vars
  <2> QED
    BY <1>1, <2>1 DEF CreateFile, TypeOK
<1>4. CASE IsUpload(f)
  <2>1. call'[f] = call[f]
    BY <1>1, <1>4 DEF Settled, IsUpload
  <2>2. CASE Live(f)
    <3>1. CASE pc[f] = "undo" /\ answer'[f].status = "err"
      BY <3>1
    <3>2. ASSUME NEW d \in Requests, IsDelete(d), call[f].path \in call[d].scope,
                 answer'[d].status = "ok"
          PROVE  Deleted(f)'
      BY <1>2, <2>1, <3>2 DEF Deleted
    <3> QED
      BY <1>1, <2>2, <3>1, <3>2, RowsGoFor
  <2>3. CASE ~Live(f)
    <3>1. CASE answer[f].status = "err"
      BY <1>1, <3>1 DEF Settled
    <3>2. CASE Deleted(f)
      <4>1. PICK d \in Requests : /\ IsDelete(d) /\ call[f].path \in call[d].scope
                                  /\ answer[d].status = "ok"
        BY <3>2 DEF Deleted
      <4>2. answer'[d] = answer[d]
        BY <4>1 DEF Settled
      <4> QED
        BY <1>2, <2>1, <4>1, <4>2 DEF Deleted
    <3> QED
      BY <1>4, <2>3, <3>1, <3>2 DEF GoneInv
  <2> QED
    BY <2>2, <2>3
<1> QED
  BY <1>3, <1>4

\* An upload answered with success is listed and complete until a delete of its path is
\* answered with success, through any failure and crash (_upload, lines 154-168).
THEOREM AcknowledgedStaysStored == Spec => []AcknowledgedIsStored
<1>1. ASSUME IInv, GoneInv, NEW f \in Files, Acknowledged(f)
      PROVE  IF Live(f)
             THEN files[f] = "uploaded" /\ ChunksOf(f) # {} /\ ChunksOf(f) \subseteq chunks
             ELSE Deleted(f)
  <2>1. Saved(f) /\ files[f] # "pending"
    BY <1>1 DEF IInv, DataInv, RowsInv
  <2>2. CASE Live(f)
    <3>1. files[f] = "uploaded"
      BY <1>1, <2>1, <2>2 DEF IInv, TypeOK, Live
    <3> QED
      BY <1>1, <2>1, <2>2, <3>1 DEF IInv, DataInv, RowsInv
  <2>3. CASE ~Live(f)
    BY <1>1, <2>3 DEF GoneInv, Acknowledged
  <2> QED
    BY <2>2, <2>3
<1>2. Init => GoneInv
  BY DEF Init, GoneInv, IsUpload, NoCall, Files
<1>3. IInv /\ [Next]_vars => Settled
  BY StepSettles DEF IInv, DataInv
<1>4. IInv /\ GoneInv => AcknowledgedIsStored
  BY <1>1 DEF AcknowledgedIsStored
<1> QED
  BY <1>2, <1>3, <1>4, StepGone, Invariance, PTL DEF Spec

-----------------------------------------------------------------------------
\* While the query of the fallback succeeds, no step leaves the row of an upload it refuses.
LEMMA StepFailedUpload ==
    ASSUME ~FallbackMayFail, IInv, IInv', Settled, FailedUploadLeavesNoRow, [Next]_vars
    PROVE  FailedUploadLeavesNoRow'
<1> SUFFICES ASSUME NEW f \in Files, IsUpload(f)', (answer[f].status = "err")', Live(f)'
             PROVE  FALSE
  BY DEF FailedUploadLeavesNoRow
<1>1. TypeOK /\ f \in Requests /\ Protocol(f)
  BY DEF IInv, ProtocolInv, Files
<1>2. CASE answer'[f] = answer[f]
  <2>1. answer[f].status = "err"
    BY <1>2
  <2>2. pc[f] = "done" /\ IsUpload(f)
    <3>1. pc[f] = "done"
      BY <1>1, <2>1 DEF Protocol
    <3>2. call'[f] = call[f]
      BY <1>1, <3>1 DEF Settled
    <3> QED
      BY <3>1, <3>2 DEF IsUpload
  <2>3. ~Live(f)
    BY <2>1, <2>2 DEF FailedUploadLeavesNoRow
  <2>4. ASSUME NEW r \in Requests, NEW p \in Paths, NEW size \in 0 .. MaxSize,
               CreateFile(r, p, size)
        PROVE  FALSE
    BY <1>1, <2>2, <2>3, <2>4 DEF CreateFile, TypeOK, Live
  <2>5. ASSUME NEW r \in Requests, SetAsUploaded(r)
        PROVE  FALSE
    BY <1>1, <2>3, <2>5 DEF SetAsUploaded, TypeOK, Live
  <2>6. ASSUME NEW r \in Requests, DeleteWithFolders(r) \/ DeleteRows(r)
        PROVE  FALSE
    BY <1>1, <2>3, <2>6 DEF DeleteWithFolders, DeleteRows, DeleteFiles, tables, Live
  <2>7. ASSUME UNCHANGED files
        PROVE  FALSE
    BY <2>3, <2>7 DEF Live
  <2> QED
    BY <2>4, <2>5, <2>6, <2>7, FilesSteps
<1>3. CASE answer'[f] # answer[f]
  <2>1. answer'[f].status # "none" /\ IsUpload(f)'
    BY <1>1
  <2>2. DeleteWithFolders(f) \/ answer'[f].status = "ok" \/ ~IsUpload(f)'
    <3>1. ASSUME NEW r \in Requests, Arrive(r)
          PROVE  ~IsUpload(f)'
      <4>1. Refuse(r) /\ r = f
        BY <1>1, <1>3, <3>1
           DEF Arrive, CreateFile, GetFileByPath, ListMessageIds, Refuse, Goto, Return, TypeOK
      <4>2. pc[f] = "new" /\ call'[f] = call[f]
        BY <4>1 DEF Refuse
      <4> QED
        BY <1>1, <4>2 DEF Protocol, IsUpload
    <3>2. ASSUME NEW r \in Requests, Handle(r)
          PROVE  DeleteWithFolders(f) \/ answer'[f].status = "ok" \/ ~IsUpload(f)'
      <4>0. r = f /\ UNCHANGED call
        BY <1>1, <1>3, <3>2
           DEF Handle, SetAsUploaded, DeleteWithFolders, ReturnDownload, TelegramDone,
               DeleteRows, Replied, Goto, Return, TypeOK
      <4>1. CASE SetAsUploaded(f)
        BY <1>1, <1>3, <4>1 DEF SetAsUploaded, Goto, Return, Ok, TypeOK
      <4>2. CASE ReturnDownload(f) \/ TelegramDone(f)
        BY <4>2 DEF ReturnDownload, TelegramDone, Replied, IsUpload
      <4>3. CASE DeleteRows(f)
        BY <1>1, <4>0, <4>3 DEF DeleteRows, Protocol, IsDelete, IsUpload
      <4> QED
        BY <3>2, <4>0, <4>1, <4>2, <4>3 DEF Handle
    <3>3. ASSUME Manage
          PROVE  FALSE
      BY <1>3, <3>3
         DEF Manage, StartUpload, StartDownload, StartDelete, Receive, UploadChunk,
             DownloadChunk, DeleteMessage, TaskDone, FinishUpload, FinishDownload,
             FinishDelete, Joined, handlers
    <3>4. ASSUME NEW r \in Requests, Send(r) \/ HangUp(r)
          PROVE  FALSE
      BY <1>3, <3>4 DEF Send, HangUp, Goto
    <3> QED
      BY <1>3, <3>1, <3>2, <3>3, <3>4 DEF Next, Crash, Idle, vars
  <2>3. DeleteWithFolders(f)
    BY <2>1, <2>2
  <2>4. files'[f] = "absent"
    BY <1>1, <2>3 DEF DeleteWithFolders, DeleteFiles
  <2> QED
    BY <2>4 DEF Live
<1> QED
  BY <1>2, <1>3

\* While the query of the fallback succeeds, an upload that is answered with an error
\* leaves no row, whatever other queries, Telegram, clients and crashes do (_upload).
THEOREM FailedUploadsLeaveNoRow ==
    ~FallbackMayFail => (Spec => []FailedUploadLeavesNoRow)
<1> SUFFICES ASSUME ~FallbackMayFail
             PROVE  Spec => []FailedUploadLeavesNoRow
  OBVIOUS
<1>1. Init => FailedUploadLeavesNoRow
  BY DEF Init, FailedUploadLeavesNoRow, IsUpload, NoCall, Files
<1>2. IInv /\ IInv' /\ FailedUploadLeavesNoRow /\ [Next]_vars => FailedUploadLeavesNoRow'
  <2>1. IInv /\ [Next]_vars => Settled
    BY StepSettles DEF IInv, DataInv
  <2> QED
    BY <2>1, StepFailedUpload
<1> QED
  BY <1>1, <1>2, Invariance, PTL DEF Spec
=============================================================================
