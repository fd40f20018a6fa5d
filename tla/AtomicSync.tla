----------------------------- MODULE AtomicSync -----------------------------
(***************************************************************************)
(* What a sync promises, with a whole session as one step: the server      *)
(* takes the client's changes at once, and the client takes the matching   *)
(* result in a later step or, when the answer is lost, never.  A full      *)
(* upload and a full download move a complete collection the same way.     *)
(*                                                                         *)
(* CollectionSync spells a session out as the requests that make it up and *)
(* implements this module; the invariants below are proved here for any    *)
(* number of clients and objects.                                          *)
(***************************************************************************)
EXTENDS SyncData

CONSTANTS
    Clients,      \* the devices of one account
    MaxEdits,     \* bound on edits of a row or of the configuration
    MaxClock      \* bound on the millisecond timestamps given out

ASSUME Bounds ==
    /\ MaxEdits \in Nat \ {0} /\ MaxClock \in Nat
    /\ Stamp \in [0..MaxEdits -> Nat]

VARIABLES
    srv,      \* the server's collection
    torn,     \* srv was committed without its modification time
    cli,      \* cli[c]: the collection of client c
    ack,      \* ack[c]: the collection c has yet to adopt, or NoCol
    offers,   \* the session, if any, that the server may commit
    uploads,  \* collections uploaded and not yet stored by the server
    clk,      \* the last millisecond timestamp given out
    edits,    \* the number of edits made so far
    born      \* born[o]: the edit that created o, 0 when o was never used

vars == <<srv, torn, cli, ack, offers, uploads, clk, edits, born>>

Row        == [ed : 0..MaxEdits, usn : Int]
Collection == [row : [Objs -> Row], grave : [Objs -> Int], conf : 0..MaxEdits,
               mod : Nat, scm : Nat, usn : Nat]

TypeOK ==
    /\ srv \in Collection
    /\ torn \in BOOLEAN
    /\ cli \in [Clients -> Collection]
    /\ ack \in [Clients -> Collection \cup {NoCol}]
    /\ offers \in SUBSET [client : Clients, col : Collection]
    /\ uploads \in SUBSET Collection
    /\ clk \in Nat
    /\ edits \in 0..MaxEdits
    /\ born \in [Objs -> 0..MaxEdits]

Init ==
    /\ srv = Initial
    /\ torn = FALSE
    /\ cli = [c \in Clients |-> Initial]
    /\ ack = [c \in Clients |-> NoCol]
    /\ offers = {}
    /\ uploads = {}
    /\ clk = 0
    /\ edits = 1
    /\ born = KnownFrom

-----------------------------------------------------------------------------
(* Changes made on a device.                                               *)

Idle(c) == ack[c] = NoCol

Tick == clk < MaxClock /\ clk' = clk + 1

NewEdit == edits < MaxEdits /\ edits' = edits + 1

Change(c, col) ==
    /\ Idle(c) /\ Tick
    /\ cli' = [cli EXCEPT ![c] = col]
    /\ UNCHANGED <<srv, torn, ack, offers, uploads>>

(* An id is used for one object only.                                      *)
Add(c, o) ==
    /\ born[o] = 0
    /\ born' = [born EXCEPT ![o] = edits + 1]
    /\ NewEdit
    /\ Change(c, WriteRow(cli[c], o, edits + 1, clk + 1))

Edit(c, o) ==
    /\ o \notin Revlog
    /\ Present(cli[c].row[o])
    /\ NewEdit
    /\ Change(c, WriteRow(cli[c], o, edits + 1, clk + 1))
    /\ UNCHANGED born

Remove(c, o) ==
    /\ o \in Graved
    /\ Present(cli[c].row[o])
    /\ Change(c, RemoveRow(cli[c], o, clk + 1))
    /\ UNCHANGED <<edits, born>>

SetConfig(c) ==
    /\ NewEdit
    /\ Change(c, WriteConfig(cli[c], edits + 1, clk + 1))
    /\ UNCHANGED born

(* With the change of mod of an ordinary operation, or without it after a  *)
(* failed sanity check.                                                    *)
ModifySchema(c) ==
    /\ \E mod \in {cli[c].mod, clk + 1} :
         Change(c, [SetSchemaModified(cli[c], clk + 1) EXCEPT !.mod = mod])
    /\ UNCHANGED <<edits, born>>

-----------------------------------------------------------------------------
(* A normal sync.  cl and sv are the two collections when it starts; each  *)
(* operator is the state of one of them after a stage of the session.      *)

ServerDeleted(cl, sv) == ApplyGraves(sv, PendingGraves(cl, PendingUsn), sv.usn)

ClientDeleted(cl, sv) ==
    ApplyGraves(StampGraves(cl, sv.usn), PendingGraves(sv, cl.usn), sv.usn)

(* The configuration of the side with the later mod replaces the other's.  *)
NewerConf(cl, sv) == IF LocalIsNewer(cl, sv.mod) THEN cl.conf ELSE sv.conf

ServerUnchunked(cl, sv) ==
    LET c1   == ClientDeleted(cl, sv)
        sent == PendingRows(c1, PendingUsn, Decks)
        s1   == ServerDeleted(cl, sv)
    IN  [MergeUnchunked(s1, SentRows(StampRows(c1, sent, sv.usn), sent))
           EXCEPT !.conf = NewerConf(cl, sv)]

ClientUnchunked(cl, sv) ==
    LET c1   == ClientDeleted(cl, sv)
        sent == PendingRows(c1, PendingUsn, Decks)
        s1   == ServerDeleted(cl, sv)
    IN  [MergeUnchunked(StampRows(c1, sent, sv.usn),
                        SentRows(s1, PendingRows(s1, cl.usn, Decks)))
           EXCEPT !.conf = NewerConf(cl, sv)]

(* The server's chunks come first, then what is still pending is sent.     *)
ClientReceived(cl, sv) ==
    LET s2 == ServerUnchunked(cl, sv)
    IN  MergeChunk(ClientUnchunked(cl, sv),
                   SentRows(s2, PendingRows(s2, cl.usn, Chunked)), PendingUsn)

ClientMerged(cl, sv) ==
    LET c4 == ClientReceived(cl, sv)
    IN  StampRows(c4, PendingRows(c4, PendingUsn, Chunked), sv.usn)

ServerMerged(cl, sv) ==
    LET sent == PendingRows(ClientReceived(cl, sv), PendingUsn, Chunked)
    IN  MergeChunk(ServerUnchunked(cl, sv),
                   SentRows(ClientMerged(cl, sv), sent), cl.usn)

(* A client has gone through a session with the collection it has, and     *)
(* asks the server, which has one session at a time, to commit it.         *)
BeginSession(c) ==
    /\ Idle(c)
    /\ offers = {}
    /\ offers' = {[client |-> c, col |-> cli[c]]}
    /\ UNCHANGED <<srv, torn, cli, ack, uploads, clk, edits, born>>

(* The session ends without a commit, on the client or on the server.      *)
Withdraw(x) ==
    /\ offers' = offers \ {x}
    /\ UNCHANGED <<srv, torn, cli, ack, uploads, clk, edits, born>>

(* A session whose sanity check passes is committed.  The answer is        *)
(* delivered to the client later (answered) or lost; the server may also   *)
(* stop after its commit and before it stores the modification time        *)
(* (crash).  A client that gave up may have changed its collection since;  *)
(* one that is still waiting has not.                                      *)
CommitSession(x, answered, crash) ==
    LET cm == ClientMerged(x.col, srv)
        sm == ServerMerged(x.col, srv)
    IN  /\ Tick
        /\ NormalSyncRequired(x.col, srv.mod, srv.scm)
        /\ SanityCounts(cm) = SanityCounts(sm)
        /\ answered => ~crash /\ Idle(x.client) /\ cli[x.client] = x.col
        /\ srv' = Finish(sm, srv.usn + 1, IF crash THEN srv.mod ELSE clk + 1)
        /\ torn' = crash
        /\ ack' = IF answered
                  THEN [ack EXCEPT ![x.client] = Finish(cm, srv.usn + 1, clk + 1)]
                  ELSE ack
        /\ offers' = offers \ {x}
        /\ UNCHANGED <<cli, uploads, edits, born>>

(* The client commits what the session gave it.                            *)
Adopt(c) ==
    /\ ack[c] # NoCol
    /\ cli' = [cli EXCEPT ![c] = ack[c]]
    /\ ack' = [ack EXCEPT ![c] = NoCol]
    /\ UNCHANGED <<srv, torn, offers, uploads, clk, edits, born>>

(* The answer never arrives, and the client rolls back.                    *)
Lose(c) ==
    /\ ack[c] # NoCol
    /\ ack' = [ack EXCEPT ![c] = NoCol]
    /\ UNCHANGED <<srv, torn, cli, offers, uploads, clk, edits, born>>

-----------------------------------------------------------------------------
(* A full sync, which ends the session the server has open.                *)

PrepareUpload(c) ==
    /\ Idle(c) /\ Tick
    /\ cli' = [cli EXCEPT ![c] = BeforeUpload(cli[c], clk + 1)]
    /\ uploads' = uploads \cup {BeforeUpload(cli[c], clk + 1)}
    /\ UNCHANGED <<srv, torn, ack, offers, edits, born>>

StoreUpload(col) ==
    /\ srv' = col
    /\ torn' = FALSE
    /\ uploads' = uploads \ {col}
    /\ offers' = {}
    /\ UNCHANGED <<cli, ack, clk, edits, born>>

DropUpload(col) ==
    /\ uploads' = uploads \ {col}
    /\ UNCHANGED <<srv, torn, cli, ack, offers, clk, edits, born>>

Download(c, answered) ==
    /\ Tick
    /\ srv' = BeforeDownload(srv, clk + 1)
    /\ torn' = FALSE
    /\ IF answered
       THEN Idle(c) /\ ack' = [ack EXCEPT ![c] = BeforeDownload(srv, clk + 1)]
       ELSE UNCHANGED ack
    /\ offers' = {}
    /\ UNCHANGED <<cli, uploads, edits, born>>

-----------------------------------------------------------------------------
LocalChange(c) ==
    \/ \E o \in Objs : Add(c, o) \/ Edit(c, o) \/ Remove(c, o)
    \/ SetConfig(c) \/ ModifySchema(c)

Next ==
    \/ \E c \in Clients :
         \/ LocalChange(c)
         \/ BeginSession(c) \/ Adopt(c) \/ Lose(c)
         \/ PrepareUpload(c)
         \/ \E answered \in BOOLEAN : Download(c, answered)
    \/ \E x \in offers :
         \/ Withdraw(x)
         \/ \E answered, crash \in BOOLEAN : CommitSession(x, answered, crash)
    \/ \E col \in uploads : StoreUpload(col) \/ DropUpload(col)

Spec == Init /\ [][Next]_vars

-----------------------------------------------------------------------------
(* Properties.                                                             *)

(* The devices show the same time: a later edit has a later mtime.         *)
ClocksAgree == \A d, e \in 0..MaxEdits : d < e => Stamp[d] < Stamp[e]

(* No two edits gave the same mtime, whatever the clocks showed.           *)
StampsDiffer == \A d, e \in 0..MaxEdits : Stamp[d] = Stamp[e] => d = e

(* The client will send what it has for o in its next session ...          *)
WillSend(r, o) ==
    \/ r.grave[o] = PendingUsn
    \/ Present(r.row[o]) /\ r.row[o].usn = PendingUsn

(* ... and the server will send what it has.                               *)
WillReceive(r, s, o) ==
    \/ s.grave[o] # NoGrave /\ s.grave[o] >= r.usn
    \/ Present(s.row[o]) /\ s.row[o].usn >= r.usn

Scheduled(r, s) ==
    r.scm = s.scm =>
        \A o \in Objs : SameRow(r, s, o) \/ WillSend(r, o) \/ WillReceive(r, s, o)

(* Usns are enough to find every change: whatever a client and the server  *)
(* disagree on, one of them will send it in the client's next session.     *)
NoMissedUpdate == \A c \in Clients : Scheduled(cli[c], srv)

(* Equal modification times, which make the client skip the sync, mean     *)
(* that there is nothing to exchange - unless the server stopped between   *)
(* its commit and the update of its modification time.                     *)
NoChangesMeansInSync ==
    \A c \in Clients :
        cli[c].mod = srv.mod /\ ~torn =>
            SameData(cli[c], srv) /\ ~HasPending(cli[c])

Later(a, b) == IF a.ed < b.ed THEN b.ed ELSE a.ed

(* A session run now leaves both sides with the same rows: a deletion that *)
(* either side has yet to tell the other wins, and otherwise the later     *)
(* edit survives.                                                          *)
LaterEditSurvives ==
    \A c \in Clients :
        LET cl   == cli[c]
            cm   == ClientMerged(cl, srv)
            sm   == ServerMerged(cl, srv)
            dead == PendingGraves(cl, PendingUsn) \cup PendingGraves(srv, cl.usn)
        IN  NormalSyncRequired(cl, srv.mod, srv.scm) =>
              \A o \in Objs :
                 LET kept == IF o \in dead THEN 0 ELSE Later(cl.row[o], srv.row[o])
                 IN  cm.row[o].ed = kept /\ sm.row[o].ed = kept
=============================================================================
