--------------------------- MODULE CollectionSync ---------------------------
(***************************************************************************)
(* The collection sync protocol: NormalSyncer and the full sync on a       *)
(* client, the requests it sends, and User and the SyncProtocol handlers   *)
(* on the server (rslib/src/sync/collection, rslib/src/sync/http_server).  *)
(*                                                                         *)
(* The server handles one request of an account at a time, so a handler is *)
(* one step; a client is between two awaits in a step.  A client waits for *)
(* one answer at a time.  When it stops waiting - a timeout, the user's    *)
(* abort, the end of the process - its request stays in the network and    *)
(* may reach the server at any later moment, or never.                     *)
(***************************************************************************)
EXTENDS SyncData, FiniteSetsExt

CONSTANTS
    Clients,       \* the devices of one account
    ChunkSize,     \* CHUNK_SIZE
    Reimportable,  \* ids that a shared package brings back after a deletion
    MaxEdits,      \* bound on edits of a row or of the configuration
    MaxClock,      \* bound on the timestamp of a local change
    MaxSyncs,      \* bound on the syncs started by clients
    MaxFaults      \* bound on failures of the network, a process or a request

ASSUME SyncBounds ==
    /\ MaxEdits \in Nat \ {0} /\ MaxClock \in Nat /\ MaxSyncs \in Nat /\ MaxFaults \in Nat
    /\ Stamp \in [0..MaxEdits -> Nat]
    /\ ChunkSize \in Nat \ {0}
    /\ IsFiniteSet(Objs)

VARIABLES
    srv,     \* the server's collection, as last committed
    torn,    \* history: srv was committed without its modification time
    user,    \* the server's User: [st : sync_state, col : the open transaction]
    cli,     \* cli[c]: the collection of client c, as last committed
    sess,    \* sess[c]: the sync client c is running
    net,     \* requests sent and not yet handled
    resp,    \* resp[c]: the answer on its way to c
    clk,     \* the last millisecond timestamp given out
    edits, born, syncs, faults,
    epoch    \* history: how often srv changed

srvVars == <<srv, torn, user, epoch>>
cliVars == <<cli, sess>>
counts  == <<edits, born, syncs, faults>>
vars    == <<srvVars, cliVars, net, resp, clk, counts>>

-----------------------------------------------------------------------------
(* States without a value.                                                 *)

NoConf == -1
NoReq  == [type |-> "none"]
NoResp == [type |-> "none"]

(* ClientSyncState and the locals of normal_sync_inner.  work is the       *)
(* client's transaction; bad is set while a failed sanity check aborts.    *)
NoSession == [await |-> NoReq, skey |-> 0, work |-> NoCol, local_is_newer |-> FALSE,
              server_usn |-> 0, remote |-> {}, todo |-> {}, last |-> FALSE,
              bad |-> FALSE, epoch |-> 0]

(* ServerSyncState; skey 0 stands for None.                                *)
NoSync == [skey |-> 0, server_usn |-> 0, client_usn |-> 0,
           client_is_newer |-> FALSE, have_ids |-> FALSE, ids |-> {}]

ClosedUser == [st |-> NoSync, col |-> NoCol]

(* Everybody has the collection col; from[o] is the edit that made o.       *)
Begin(col, from) ==
    /\ srv = col /\ torn = FALSE /\ user = ClosedUser /\ epoch = 0
    /\ cli = [c \in Clients |-> col]
    /\ sess = [c \in Clients |-> NoSession]
    /\ net = {}
    /\ resp = [c \in Clients |-> NoResp]
    /\ clk = 0
    /\ edits = 1 /\ born = from /\ syncs = 0 /\ faults = 0

Init == Begin(Initial, KnownFrom)

(* Another beginning: ids that were deleted, and came back with a package  *)
(* after all had synced the deletion.  Their graves are still there.       *)
Returned ==
    [Initial EXCEPT
       !.row   = [o \in Objs |-> IF o \in Reimportable THEN [ed |-> 1, usn |-> 0] ELSE @[o]],
       !.grave = [o \in Objs |-> IF o \in Reimportable THEN 0 ELSE @[o]]]

InitReturned == Begin(Returned, [o \in Objs |-> IF o \in Reimportable THEN 1 ELSE KnownFrom[o]])

Tick  == clk' = clk + 1
Fault == faults < MaxFaults /\ faults' = faults + 1

Idle(c)    == sess[c].await = NoReq
Waiting(m) == sess[m.from].await = m

-----------------------------------------------------------------------------
(* Changes made on a device between its syncs.                             *)

NewEdit == edits < MaxEdits /\ edits' = edits + 1

Change(c, col) ==
    /\ Idle(c)
    /\ clk < MaxClock /\ Tick
    /\ cli' = [cli EXCEPT ![c] = col]
    /\ UNCHANGED <<srvVars, sess, net, resp, syncs, faults>>

(* An id is new, or was deleted and comes back with a package.             *)
Add(c, o) ==
    /\ \/ born[o] = 0
       \/ o \in Reimportable /\ ~Present(cli[c].row[o])
    /\ born' = [born EXCEPT ![o] = edits + 1]
    /\ NewEdit
    /\ Change(c, WriteRow(cli[c], o, edits + 1, clk + 1))

Edit(c, o) ==
    /\ o \notin Revlog
    /\ Present(cli[c].row[o])
    /\ NewEdit
    /\ Change(c, WriteRow(cli[c], o, edits + 1, clk + 1))
    /\ UNCHANGED born

Remove(c, o) ==
    /\ o \in Graved
    /\ Present(cli[c].row[o])
    /\ Change(c, RemoveRow(cli[c], o, clk + 1))
    /\ UNCHANGED <<edits, born>>

SetConfig(c) ==
    /\ NewEdit
    /\ Change(c, WriteConfig(cli[c], edits + 1, clk + 1))
    /\ UNCHANGED born

ModifySchema(c) ==
    /\ Change(c, [SetSchemaModified(cli[c], clk + 1) EXCEPT !.mod = clk + 1])
    /\ UNCHANGED <<edits, born>>

-----------------------------------------------------------------------------
(* The server.  Every handler takes a request m out of the network; its    *)
(* answer counts only when the client still waits for it.                  *)

Answer(m, r) ==
    /\ net' = net \ {m}
    /\ resp' = IF Waiting(m) THEN [resp EXCEPT ![m.from] = r] ELSE resp

Served == UNCHANGED <<cliVars, edits, born, syncs>>

(* with_col: an active session is aborted, whoever it belongs to.          *)
HandleMeta(m) ==
    /\ m.type = "meta"
    /\ user' = ClosedUser
    /\ Answer(m, [type |-> "meta", mod |-> srv.mod, scm |-> srv.scm, usn |-> srv.usn,
                  empty |-> CountOf(srv, Cards) = 0, epoch |-> epoch])
    /\ UNCHANGED <<srv, torn, epoch, clk, faults>> /\ Served

(* start_new_sync replaces an active session; server_start opens the       *)
(* transaction and reads the server's usn again.                           *)
HandleStart(m) ==
    /\ m.type = "start"
    /\ user' = [st |-> [NoSync EXCEPT !.skey            = m.skey,
                                      !.server_usn      = srv.usn,
                                      !.client_usn      = m.client_usn,
                                      !.client_is_newer = m.local_is_newer],
                col |-> srv]
    /\ Answer(m, [type |-> "graves", ids |-> PendingGraves(srv, m.client_usn)])
    /\ UNCHANGED <<srv, torn, epoch, clk, faults>> /\ Served

Stateful == {"applyGraves", "applyChanges", "chunk", "applyChunk", "sanity", "finish"}

(* with_sync_state.                                                        *)
InSession(m) == user.st # NoSync /\ user.st.skey = m.skey

RejectConflict(m) ==
    /\ m.type \in Stateful /\ ~InSession(m)
    /\ Answer(m, [type |-> "error"])
    /\ UNCHANGED <<srvVars, clk, faults>> /\ Served

(* An operation that fails closes the collection, which rolls back.        *)
FailOperation(m) ==
    /\ m.type \in Stateful /\ InSession(m)
    /\ Fault
    /\ user' = ClosedUser
    /\ Answer(m, [type |-> "error"])
    /\ UNCHANGED <<srv, torn, epoch, clk>> /\ Served

(* A stateful operation that leaves the session and its transaction open.  *)
Operate(m, type, col, st, r) ==
    /\ m.type = type /\ InSession(m) /\ user.col # NoCol
    /\ user' = [st |-> st, col |-> col]
    /\ Answer(m, r)
    /\ UNCHANGED <<srv, torn, epoch, clk, faults>> /\ Served

HandleApplyGraves(m) ==
    Operate(m, "applyGraves",
            ApplyGraves(user.col, m.ids, user.st.server_usn), user.st, [type |-> "ok"])

(* The server's own changes are collected before the client's are applied, *)
(* with its configuration unless the client's is newer.                    *)
HandleApplyChanges(m) ==
    LET st     == user.st
        merged == MergeUnchunked(user.col, m.rows)
    IN  Operate(m, "applyChanges",
                [merged EXCEPT !.conf = IF m.conf = NoConf THEN @ ELSE m.conf], st,
                [type |-> "changes",
                 rows |-> SentRows(user.col, PendingRows(user.col, st.client_usn, Decks)),
                 conf |-> IF st.client_is_newer THEN NoConf ELSE user.col.conf])

(* get_chunk takes an id of each kind per round until the chunk is full or *)
(* no id is left, and is done when it did not fill up.                     *)
ChunkKinds == {Revlog, Notes, Cards}

Taken(kind, round, ids) == Min({round, Cardinality(ids \cap kind)})

TakenIn(round, ids) ==
    Taken(Revlog, round, ids) + Taken(Notes, round, ids) + Taken(Cards, round, ids)

ChunksOf(ids) ==
    {part \in SUBSET ids :
        \E round \in 0..Cardinality(ids) :
            /\ \A kind \in ChunkKinds :
                  Cardinality(part \cap kind) = Taken(kind, round, ids)
            /\ round > 0 => TakenIn(round - 1, ids) < ChunkSize
            /\ part = ids \/ TakenIn(round, ids) >= ChunkSize}

ChunkDoneBug(part) == Cardinality(part) > ChunkSize

ChunkDone(part) == Cardinality(part) < ChunkSize

HandleChunk(m) ==
    LET ids == IF user.st.have_ids THEN user.st.ids
               ELSE PendingRows(user.col, user.st.client_usn, Chunked)
    IN  /\ m.type = "chunk" /\ InSession(m) /\ user.col # NoCol
        /\ \E part \in ChunksOf(ids) :
             Operate(m, "chunk", user.col,
                     [user.st EXCEPT !.have_ids = TRUE, !.ids = ids \ part],
                     [type |-> "chunk", rows |-> SentRows(user.col, part),
                      done |-> ChunkDone(part)])

HandleApplyChunk(m) ==
    Operate(m, "applyChunk",
            MergeChunk(user.col, m.rows, user.st.client_usn), user.st, [type |-> "ok"])

(* When the counts differ the collection is closed at once, and the        *)
(* session stays until the client aborts it.                               *)
HandleSanity(m) ==
    LET good == ~HasPending(user.col) /\ m.counts = SanityCounts(user.col)
    IN  Operate(m, "sanity", IF good THEN user.col ELSE NoCol, user.st,
                [type |-> "sanity", good |-> good])

(* server_finish commits, and sets the modification time after that: a     *)
(* server that stops in between keeps the old one, and never answers.      *)
HandleFinish(m) ==
    /\ m.type = "finish" /\ InSession(m) /\ user.col # NoCol
    /\ Tick
    /\ srv' = Finish(user.col, user.col.usn + 1, clk + 1)
    /\ torn' = FALSE /\ epoch' = epoch + 1
    /\ user' = ClosedUser
    /\ Answer(m, [type |-> "finish", mod |-> clk + 1])
    /\ UNCHANGED faults /\ Served

FinishAndStop(m) ==
    /\ m.type = "finish" /\ InSession(m) /\ user.col # NoCol
    /\ Tick /\ Fault
    /\ srv' = Finish(user.col, user.col.usn + 1, srv.mod)
    /\ torn' = TRUE /\ epoch' = epoch + 1
    /\ user' = ClosedUser
    /\ net' = net \ {m}
    /\ UNCHANGED resp /\ Served

HandleAbortBug(m) ==
    /\ m.type = "abort"
    /\ user' = [user EXCEPT !.col = NoCol]
    /\ Answer(m, [type |-> "ok"])
    /\ UNCHANGED <<srv, torn, epoch, clk, faults>> /\ Served

(* abort looks at no session key.                                          *)
HandleAbort(m) ==
    /\ m.type = "abort"
    /\ user' = ClosedUser
    /\ Answer(m, [type |-> "ok"])
    /\ UNCHANGED <<srv, torn, epoch, clk, faults>> /\ Served

HandleUpload(m) ==
    /\ m.type = "upload"
    /\ srv' = m.col
    /\ torn' = FALSE /\ epoch' = epoch + 1
    /\ user' = ClosedUser
    /\ Answer(m, [type |-> "ok"])
    /\ UNCHANGED <<clk, faults>> /\ Served

HandleDownload(m) ==
    /\ m.type = "download"
    /\ Tick
    /\ srv' = BeforeDownload(srv, clk + 1)
    /\ torn' = FALSE /\ epoch' = epoch + 1
    /\ user' = ClosedUser
    /\ Answer(m, [type |-> "download", col |-> BeforeDownload(srv, clk + 1)])
    /\ UNCHANGED faults /\ Served

(* The server stops and starts again, with its open transaction lost.      *)
ServerRestart ==
    /\ user # ClosedUser
    /\ Fault
    /\ user' = ClosedUser
    /\ UNCHANGED <<srv, torn, epoch, net, resp, clk>> /\ Served

Handle(m) ==
    \/ HandleMeta(m) \/ HandleStart(m)
    \/ HandleApplyGraves(m) \/ HandleApplyChanges(m)
    \/ HandleChunk(m) \/ HandleApplyChunk(m)
    \/ HandleSanity(m) \/ HandleFinish(m)
    \/ HandleAbort(m) \/ HandleUpload(m) \/ HandleDownload(m)
    \/ RejectConflict(m)

-----------------------------------------------------------------------------
(* The client.                                                             *)

Send(c, s, m) ==
    /\ sess' = [sess EXCEPT ![c] = [s EXCEPT !.await = m]]
    /\ net' = net \cup {m}

Request(c, s, type) == [type |-> type, from |-> c, skey |-> s.skey]

Received(c, type) == ~Idle(c) /\ resp[c].type = type

Heard(c) ==
    /\ resp' = [resp EXCEPT ![c] = NoResp]
    /\ UNCHANGED <<srvVars, edits, born, faults>>

EndSession(c) == sess' = [sess EXCEPT ![c] = NoSession] /\ UNCHANGED net

Sync(c) ==
    /\ Idle(c)
    /\ syncs < MaxSyncs /\ syncs' = syncs + 1
    /\ LET s == [NoSession EXCEPT !.skey = syncs + 1]
       IN  Send(c, s, Request(c, s, "meta"))
    /\ UNCHANGED <<srvVars, cli, resp, clk, edits, born, faults>>

NothingToSync(c) ==
    /\ Received(c, "meta") /\ NoChanges(cli[c], resp[c].mod)
    /\ EndSession(c) /\ Heard(c)
    /\ UNCHANGED <<cli, clk, syncs>>

FullSyncRequired(c) ==
    Received(c, "meta") /\ ~NoChanges(cli[c], resp[c].mod) /\ cli[c].scm # resp[c].scm

(* The user may upload, download or leave it for later.                    *)
PostponeFullSync(c) ==
    /\ FullSyncRequired(c)
    /\ EndSession(c) /\ Heard(c)
    /\ UNCHANGED <<cli, clk, syncs>>

UploadCollection(c) ==
    /\ FullSyncRequired(c)
    /\ CountOf(cli[c], Cards) # 0 \/ resp[c].empty
    /\ Tick
    /\ LET col == BeforeUpload(cli[c], clk + 1)
           m   == [type |-> "upload", from |-> c, skey |-> sess[c].skey, col |-> col]
       IN  /\ cli' = [cli EXCEPT ![c] = col]
           /\ Send(c, NoSession, m)
    /\ Heard(c) /\ UNCHANGED syncs

DownloadCollection(c) ==
    /\ FullSyncRequired(c)
    /\ ~resp[c].empty \/ CountOf(cli[c], Cards) = 0
    /\ Send(c, NoSession, Request(c, sess[c], "download"))
    /\ Heard(c) /\ UNCHANGED <<cli, clk, syncs>>

UploadDone(c) ==
    /\ Received(c, "ok") /\ sess[c].await.type = "upload"
    /\ EndSession(c) /\ Heard(c)
    /\ UNCHANGED <<cli, clk, syncs>>

DownloadDone(c) ==
    /\ Received(c, "download")
    /\ cli' = [cli EXCEPT ![c] = resp[c].col]
    /\ EndSession(c) /\ Heard(c)
    /\ UNCHANGED <<clk, syncs>>

(* Cards are unburied for a new day before the transaction begins, without *)
(* being marked as modified: what a sync exchanges stays the same.         *)
StartSession(c) ==
    /\ Received(c, "meta") /\ NormalSyncRequired(cli[c], resp[c].mod, resp[c].scm)
    /\ LET s == [sess[c] EXCEPT !.work           = cli[c],
                                !.local_is_newer = LocalIsNewer(cli[c], resp[c].mod),
                                !.server_usn     = resp[c].usn,
                                !.epoch          = resp[c].epoch]
       IN  Send(c, s, [type |-> "start", from |-> c, skey |-> s.skey,
                       client_usn |-> cli[c].usn, local_is_newer |-> s.local_is_newer,
                       epoch |-> s.epoch])
    /\ Heard(c) /\ UNCHANGED <<cli, clk, syncs>>

(* An error rolls the client back, and it tells the server to abort.       *)
RollBack(c, bad) ==
    Send(c, [NoSession EXCEPT !.skey = sess[c].skey, !.bad = bad],
         Request(c, sess[c], "abort"))

(* A step inside the session: the client's transaction stays open.         *)
Continue(c, s, m) == Send(c, s, m) /\ Heard(c) /\ UNCHANGED <<cli, clk, syncs>>

(* start_and_process_deletions sends the local graves chunk by chunk and   *)
(* then applies the remote ones; process_unchunked_changes sends next.     *)
SendGraves(c, s) ==
    /\ s.todo # {}
    /\ \E part \in kSubset(Min({ChunkSize, Cardinality(s.todo)}), s.todo) :
         Continue(c, [s EXCEPT !.todo = @ \ part],
                  [type |-> "applyGraves", from |-> c, skey |-> s.skey, ids |-> part])

SendChanges(c, s) ==
    /\ s.todo = {}
    /\ LET deleted == ApplyGraves(s.work, s.remote, s.server_usn)
           sent    == PendingRows(deleted, PendingUsn, Decks)
           stamped == StampRows(deleted, sent, s.server_usn)
       IN  Continue(c, [s EXCEPT !.work = stamped],
                    [type |-> "applyChanges", from |-> c, skey |-> s.skey,
                     rows |-> SentRows(stamped, sent),
                     conf |-> IF s.local_is_newer THEN stamped.conf ELSE NoConf])

SendDeletions(c, s) == SendGraves(c, s) \/ SendChanges(c, s)

SessionStarted(c) ==
    /\ Received(c, "graves")
    /\ LET s == sess[c]
       IN  SendDeletions(c, [s EXCEPT !.todo   = PendingGraves(s.work, PendingUsn),
                                      !.work   = StampGraves(s.work, s.server_usn),
                                      !.remote = resp[c].ids])

GravesApplied(c) ==
    /\ Received(c, "ok") /\ sess[c].await.type = "applyGraves"
    /\ SendDeletions(c, sess[c])

ReceiveChanges(c) ==
    /\ Received(c, "changes")
    /\ LET s      == sess[c]
           merged == MergeUnchunked(s.work, resp[c].rows)
           conf   == IF resp[c].conf = NoConf THEN merged.conf ELSE resp[c].conf
       IN  Continue(c, [s EXCEPT !.work = [merged EXCEPT !.conf = conf]],
                    Request(c, s, "chunk"))

SendChunk(c, s) ==
    \E part \in ChunksOf(s.todo) :
        LET stamped == StampRows(s.work, part, s.server_usn)
        IN  Continue(c, [s EXCEPT !.work = stamped, !.todo = @ \ part,
                                  !.last = ChunkDone(part)],
                     [type |-> "applyChunk", from |-> c, skey |-> s.skey,
                      rows |-> SentRows(stamped, part)])

(* The next chunk is asked for until the server is done; then the rows     *)
(* that are still pending are sent.                                        *)
ReceiveChunk(c) ==
    /\ Received(c, "chunk")
    /\ LET s == [sess[c] EXCEPT !.work = MergeChunk(@, resp[c].rows, PendingUsn)]
       IN  IF resp[c].done
           THEN SendChunk(c, [s EXCEPT !.todo = PendingRows(s.work, PendingUsn, Chunked)])
           ELSE Continue(c, s, Request(c, s, "chunk"))

(* sanity_check_info refuses to count what is still pending.               *)
CheckSanity(c, s) ==
    IF HasPending(s.work)
    THEN RollBack(c, FALSE) /\ Heard(c) /\ UNCHANGED <<cli, clk, syncs>>
    ELSE Continue(c, s, [type |-> "sanity", from |-> c, skey |-> s.skey,
                         counts |-> SanityCounts(s.work)])

ChunkApplied(c) ==
    /\ Received(c, "ok") /\ sess[c].await.type = "applyChunk"
    /\ LET s == sess[c]
       IN  IF s.last THEN CheckSanity(c, s) ELSE SendChunk(c, s)

SanityPassed(c) ==
    /\ Received(c, "sanity") /\ resp[c].good
    /\ Continue(c, sess[c], [type |-> "finish", from |-> c, skey |-> sess[c].skey,
                             base |-> cli[c]])

FinishedWorkBug(c) == Finish(sess[c].work, sess[c].server_usn, resp[c].mod)

WorkLostBug(c) == Finish(NoSession.work, sess[c].server_usn + 1, resp[c].mod)

FinishedWork(c) == Finish(sess[c].work, sess[c].server_usn + 1, resp[c].mod)

SessionFinished(c) ==
    /\ Received(c, "finish")
    /\ cli' = [cli EXCEPT ![c] = FinishedWork(c)]
    /\ EndSession(c) /\ Heard(c)
    /\ UNCHANGED <<clk, syncs>>

SanityFailed(c) ==
    /\ Received(c, "sanity") /\ ~resp[c].good
    /\ RollBack(c, TRUE) /\ Heard(c)
    /\ UNCHANGED <<cli, clk, syncs>>

SessionError(c) ==
    /\ Received(c, "error")
    /\ RollBack(c, FALSE) /\ Heard(c)
    /\ UNCHANGED <<cli, clk, syncs>>

(* Whatever came of the abort, a failed sanity check forces a full sync.   *)
EndAbort(c) ==
    /\ EndSession(c)
    /\ IF sess[c].bad
       THEN Tick /\ cli' = [cli EXCEPT ![c] = SetSchemaModified(@, clk + 1)]
       ELSE UNCHANGED <<cli, clk>>

Aborted(c) ==
    /\ Received(c, "ok") /\ sess[c].await.type = "abort"
    /\ EndAbort(c) /\ Heard(c)
    /\ UNCHANGED syncs

-----------------------------------------------------------------------------
(* Failures on the client.                                                 *)

Vanished(c) == ~Idle(c) /\ sess[c].await \notin net /\ resp[c] = NoResp

(* The io timeout passes, the connection breaks or the user cancels        *)
(* between two requests.                                                   *)
Timeout(c) ==
    /\ ~Idle(c)
    /\ IF Vanished(c) THEN UNCHANGED faults ELSE Fault
    /\ CASE sess[c].await.type = "abort" -> EndAbort(c)
         [] sess[c].await.type \in {"meta", "upload", "download"} ->
                EndSession(c) /\ UNCHANGED <<cli, clk>>
         [] OTHER -> RollBack(c, FALSE) /\ UNCHANGED <<cli, clk>>
    /\ resp' = [resp EXCEPT ![c] = NoResp]
    /\ UNCHANGED <<srvVars, edits, born, syncs>>

(* sync_collection_inner: the future is dropped, the transaction is rolled *)
(* back, and a thread of its own sends the abort, with a new session key.  *)
UserAbort(c) ==
    /\ ~Idle(c) /\ sess[c].await.type \notin {"upload", "download"}
    /\ Fault
    /\ sess' = [sess EXCEPT ![c] = NoSession]
    /\ net' = net \cup {Request(c, NoSession, "abort")}
    /\ resp' = [resp EXCEPT ![c] = NoResp]
    /\ UNCHANGED <<srvVars, cli, clk, edits, born, syncs>>

NoRollbackBug(c) ==
    /\ ~Idle(c)
    /\ Fault
    /\ cli' = IF sess[c].work = NoCol THEN cli ELSE [cli EXCEPT ![c] = sess[c].work]
    /\ EndSession(c)
    /\ resp' = [resp EXCEPT ![c] = NoResp]
    /\ UNCHANGED <<srvVars, clk, edits, born, syncs>>

(* The process ends; the database rolls back when it is opened again.      *)
ClientRestart(c) ==
    /\ ~Idle(c)
    /\ Fault
    /\ EndSession(c)
    /\ resp' = [resp EXCEPT ![c] = NoResp]
    /\ UNCHANGED <<srvVars, cli, clk, edits, born, syncs>>

-----------------------------------------------------------------------------
LocalChange(c) ==
    \/ \E o \in Objs : Add(c, o) \/ Edit(c, o) \/ Remove(c, o)
    \/ SetConfig(c) \/ ModifySchema(c)

(* What the client does when an answer arrives.                            *)
Proceed(c) ==
    \/ NothingToSync(c) \/ PostponeFullSync(c)
    \/ UploadCollection(c) \/ DownloadCollection(c) \/ UploadDone(c) \/ DownloadDone(c)
    \/ StartSession(c) \/ SessionStarted(c) \/ GravesApplied(c)
    \/ ReceiveChanges(c) \/ ReceiveChunk(c) \/ ChunkApplied(c)
    \/ SanityPassed(c) \/ SessionFinished(c)
    \/ SanityFailed(c) \/ SessionError(c) \/ Aborted(c)

Next ==
    \/ \E c \in Clients :
         \/ LocalChange(c) \/ Sync(c) \/ Proceed(c)
         \/ Timeout(c) \/ UserAbort(c) \/ ClientRestart(c)
    \/ \E m \in net : Handle(m) \/ FailOperation(m) \/ FinishAndStop(m)
    \/ ServerRestart

Spec == Init /\ [][Next]_vars

(* Most of what a sync promises needs one assumption about the devices of  *)
(* an account: nothing else is committed on the server between the meta    *)
(* request of a client and its start request.  The code does not enforce   *)
(* it: server_start reads the server's usn again, and the client goes on   *)
(* with the one it was told.                                               *)
Stale(m) == m.type = "start" /\ m.epoch # epoch

SerialNext == Next /\ \A m \in net \ net' : ~Stale(m)

SerialSpec == Init /\ [][SerialNext]_vars

(* The server answers a request that reaches it while the client waits,    *)
(* the client goes on with an answer it has, and the io timeout of the     *)
(* http client ends the wait for an answer that cannot come.               *)
AnswerAwaited(c) == \E m \in net : Waiting(m) /\ m.from = c /\ Handle(m)

GiveUp(c) == Vanished(c) /\ Timeout(c)

Fairness ==
    \A c \in Clients :
        WF_vars(AnswerAwaited(c)) /\ WF_vars(Proceed(c)) /\ WF_vars(GiveUp(c))

FairSpec == (Init \/ InitReturned) /\ [][Next]_vars /\ Fairness

-----------------------------------------------------------------------------
(* Refinement.  What a client will adopt is the answer that is on its way, *)
(* and the session that may be committed is the one whose finish request   *)
(* the server would accept.                                                *)
Answered == [c \in Clients |->
    CASE resp[c].type = "finish"   -> FinishedWork(c)
      [] resp[c].type = "download" -> resp[c].col
      [] OTHER                     -> NoCol]

Acceptable == {m \in net : m.type = "finish" /\ InSession(m)}

Offered == {[client |-> m.from, col |-> m.base] : m \in Acceptable}

Uploaded == {m.col : m \in {x \in net : x.type = "upload"}}

AS == INSTANCE AtomicSync WITH
        MaxClock <- MaxClock + 3 * MaxSyncs,
        ack <- Answered, offers <- Offered, uploads <- Uploaded

(* A session of many requests, with its chunks, aborts, lost answers and   *)
(* restarts, changes the two collections exactly as one atomic exchange    *)
(* does (NormalSyncer::sync, User, the handlers).                          *)
AtomicSpec == AS!Spec

-----------------------------------------------------------------------------
(* Properties.                                                             *)

Collection == [row : [Objs -> [ed : 0..MaxEdits, usn : Int]], grave : [Objs -> Int],
               conf : 0..MaxEdits, mod : Nat, scm : Nat, usn : Nat]

Keys == 0..MaxSyncs

SessionType == [await : net \cup {sess[c].await : c \in Clients}, skey : Keys,
                work : Collection \cup {NoCol}, local_is_newer : BOOLEAN,
                server_usn : Nat, remote : SUBSET Objs, todo : SUBSET Objs,
                last : BOOLEAN, bad : BOOLEAN, epoch : 0..epoch]

(* The values that the variables take.                                     *)
TypeOK ==
    /\ srv \in Collection /\ torn \in BOOLEAN /\ epoch \in Nat
    /\ user.st \in [skey : Keys, server_usn : Nat, client_usn : Nat,
                    client_is_newer : BOOLEAN, have_ids : BOOLEAN, ids : SUBSET Chunked]
    /\ user.col \in Collection \cup {NoCol}
    /\ cli \in [Clients -> Collection]
    /\ sess \in [Clients -> SessionType]
    /\ \A m \in net : m.from \in Clients /\ m.skey \in Keys
    /\ clk \in Nat /\ edits \in 0..MaxEdits /\ born \in [Objs -> 0..MaxEdits]
    /\ syncs \in 0..MaxSyncs /\ faults \in 0..MaxFaults

(* A stateful request never meets a session whose collection was closed by *)
(* a failed sanity check; with_sync_state would open the collection again  *)
(* without a transaction (user.rs ensure_col_open).                        *)
ClosedNeverReopened ==
    \A m \in net : m.type \in Stateful /\ InSession(m) => user.col # NoCol

(* No sanity check fails: whatever was added, edited or removed on either  *)
(* side, both have the same number of rows when the client asks.           *)
SanityAgrees ==
    \A c \in Clients : resp[c].type = "sanity" => resp[c].good

IsDeleted(r, o) == r.grave[o] # NoGrave /\ ~Present(r.row[o])

(* The server s knows what the client r has of o, or something later: its  *)
(* row, or that it is deleted.                                             *)
KnownTo(s, r, o) ==
    \/ IsDeleted(s, o)
    \/ Present(r.row[o]) /\ s.row[o].ed >= r.row[o].ed

(* Unless its user replaces the collection by the server's, a client stops *)
(* to report an addition or an edit as pending only when the server has    *)
(* it, a later one or a deletion, and a deletion only when the row is gone *)
(* from the server too - through lost answers, aborts and restarts at any  *)
(* point of the session.  A deletion that was never pending, of an id with *)
(* an earlier grave, is not covered.                                       *)
PendingUntilStored ==
    [][\A c \in Clients, o \in Objs :
         /\ AS!WillSend(cli[c], o) /\ ~AS!WillSend(cli[c], o)'
         /\ cli[c].scm = cli'[c].scm /\ cli[c].scm = srv.scm
         /\ resp[c].type # "download"
         /\ Idle(c) => cli[c].grave[o] = NoGrave
         => KnownTo(srv, cli[c], o)]_vars

Commits(m) == m \in net /\ m \notin net' /\ m.type = "finish" /\ epoch' # epoch

(* When a session commits on the server, the client holds the same cards,  *)
(* notes, review log and configuration, even when the clocks of the        *)
(* devices disagree, provided that two edits never have the same mtime.    *)
ChunkedAgree ==
    [][\A m \in net :
         Commits(m) /\ Waiting(m) =>
             /\ \A o \in Chunked : SameRow(sess[m.from].work, srv', o)
             /\ sess[m.from].work.conf = srv'.conf]_vars

(* Every sync comes to an end, whatever the network and the other devices  *)
(* do: the client is idle again.                                           *)
SyncEnds == \A c \in Clients : ~Idle(c) ~> Idle(c)
=============================================================================
