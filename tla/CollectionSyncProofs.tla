------------------------ MODULE CollectionSyncProofs ------------------------
(***************************************************************************)
(* Proofs about CollectionSync, for any devices, ids and bounds.           *)
(***************************************************************************)
EXTENDS CollectionSync, FiniteSetTheorems, TLAPS

-----------------------------------------------------------------------------
(* Collections.                                                            *)

Row == [ed : 0..MaxEdits, usn : Int]

(* The rows that a message carries.                                        *)
Rows(rows) == DOMAIN rows \subseteq Objs /\ \A o \in DOMAIN rows : rows[o] \in Row

LEMMA RowsTyped ==
    /\ Absent \in Row
    /\ \A row \in Row, usn \in Int : StampRow(row, usn) \in Row
BY SyncBounds DEF Row, Absent, StampRow

LEMMA Fields ==
    ASSUME NEW col \in Collection
    PROVE  /\ col.row \in [Objs -> Row] /\ col.grave \in [Objs -> Int]
           /\ col.conf \in 0..MaxEdits /\ col.mod \in Nat /\ col.scm \in Nat /\ col.usn \in Nat
BY DEF Collection, Row

(* Replacing one field of a collection leaves a collection.                *)
LEMMA Replaced ==
    ASSUME NEW col \in Collection
    PROVE  /\ \A f \in [Objs -> Row] : [col EXCEPT !.row = f] \in Collection
           /\ \A f \in [Objs -> Int] : [col EXCEPT !.grave = f] \in Collection
           /\ \A e \in 0..MaxEdits : [col EXCEPT !.conf = e] \in Collection
           /\ \A n \in Nat : /\ [col EXCEPT !.mod = n] \in Collection
                             /\ [col EXCEPT !.scm = n] \in Collection
                             /\ [col EXCEPT !.usn = n] \in Collection
<1>1. \A f \in [Objs -> Row] : [col EXCEPT !.row = f] \in Collection
    BY DEF Collection, Row
<1>2. \A f \in [Objs -> Int] : [col EXCEPT !.grave = f] \in Collection
    BY DEF Collection
<1>3. \A e \in 0..MaxEdits : [col EXCEPT !.conf = e] \in Collection
    BY DEF Collection
<1>4. \A n \in Nat : [col EXCEPT !.mod = n] \in Collection
    BY DEF Collection
<1>5. \A n \in Nat : [col EXCEPT !.scm = n] \in Collection
    BY DEF Collection
<1>6. \A n \in Nat : [col EXCEPT !.usn = n] \in Collection
    BY DEF Collection
<1>7. QED
    BY <1>1, <1>2, <1>3, <1>4, <1>5, <1>6

(* NoCol is not a collection.                                              *)
LEMMA NoColApart == NoCol \notin Collection
<1>1. NoCol.mod = -1
    BY DEF NoCol
<1>2. QED
    BY <1>1, Fields

(* The collection of a new account, also with ids that came back.          *)
LEMMA InitialTyped == Initial \in Collection /\ Returned \in Collection
<1>1. Initial \in Collection
    BY SyncBounds DEF Initial, Absent, Collection, NoGrave
<1> DEFINE f == [o \in Objs |-> IF o \in Reimportable THEN [ed |-> 1, usn |-> 0] ELSE Initial.row[o]]
           g == [o \in Objs |-> IF o \in Reimportable THEN 0 ELSE Initial.grave[o]]
           mid == [Initial EXCEPT !.row = f]
<1>2. f \in [Objs -> Row] /\ g \in [Objs -> Int]
    <2>1. Initial.row \in [Objs -> Row] /\ Initial.grave \in [Objs -> Int]
        BY <1>1, Fields
    <2>2. [ed |-> 1, usn |-> 0] \in Row
        BY SyncBounds DEF Row
    <2>3. QED
        BY <2>1, <2>2
<1>3. mid \in Collection
    <2> HIDE DEF f
    <2> QED  BY <1>1, <1>2, Replaced
<1>4. [mid EXCEPT !.grave = g] \in Collection
    <2> HIDE DEF g, mid
    <2> QED  BY <1>2, <1>3, Replaced
<1>5. Returned = [mid EXCEPT !.grave = g]
    BY DEF Returned
<1>6. QED
    BY <1>1, <1>4, <1>5

(* Changes made on a device.                                               *)
LEMMA ChangedTyped ==
    ASSUME NEW col \in Collection, NEW o \in Objs, NEW ed \in 0..MaxEdits, NEW now \in Nat
    PROVE  /\ WriteRow(col, o, ed, now) \in Collection
           /\ RemoveRow(col, o, now) \in Collection
<1>1. WriteRow(col, o, ed, now) \in Collection
    <2> DEFINE f == [col.row EXCEPT ![o] = [ed |-> ed, usn |-> PendingUsn]]
               mid == [col EXCEPT !.row = f]
    <2>1. f \in [Objs -> Row]
        BY Fields DEF Row, PendingUsn
    <2>2. mid \in Collection
        <3> HIDE DEF f
        <3> QED  BY <2>1, Replaced
    <2>3. [mid EXCEPT !.mod = now] \in Collection
        <3> HIDE DEF mid
        <3> QED  BY <2>2, Replaced
    <2>4. WriteRow(col, o, ed, now) = [mid EXCEPT !.mod = now]
        BY DEF WriteRow
    <2>5. QED
        BY <2>3, <2>4
<1>2. RemoveRow(col, o, now) \in Collection
    <2> DEFINE f == [col.row EXCEPT ![o] = Absent]
               g == [col.grave EXCEPT ![o] = AddGrave(@, PendingUsn)]
               mid == [col EXCEPT !.row = f]
               gone == [mid EXCEPT !.grave = g]
    <2>1. f \in [Objs -> Row] /\ g \in [Objs -> Int]
        BY Fields, RowsTyped DEF AddGrave, PendingUsn, NoGrave
    <2>2. mid \in Collection
        <3> HIDE DEF f
        <3> QED  BY <2>1, Replaced
    <2>3. gone \in Collection
        <3> HIDE DEF g, mid
        <3> QED  BY <2>1, <2>2, Replaced
    <2>4. [gone EXCEPT !.mod = now] \in Collection
        <3> HIDE DEF gone
        <3> QED  BY <2>3, Replaced
    <2>5. RemoveRow(col, o, now) = [gone EXCEPT !.mod = now]
        BY DEF RemoveRow
    <2>6. QED
        BY <2>4, <2>5
<1>3. QED
    BY <1>1, <1>2

LEMMA ConfigTyped ==
    ASSUME NEW col \in Collection, NEW ed \in 0..MaxEdits, NEW now \in Nat
    PROVE  WriteConfig(col, ed, now) \in Collection
<1> DEFINE mid == [col EXCEPT !.conf = ed]
<1>1. mid \in Collection
    BY Replaced
<1>2. [mid EXCEPT !.mod = now] \in Collection
    <2> HIDE DEF mid
    <2> QED  BY <1>1, Replaced
<1>3. QED
    BY <1>2 DEF WriteConfig

(* What a session does to a collection.                                    *)
LEMMA MergedTyped ==
    ASSUME NEW col \in Collection, NEW ids, NEW usn \in Nat, NEW rows, Rows(rows), NEW pending
    PROVE  /\ ApplyGraves(col, ids, usn) \in Collection
           /\ StampGraves(col, usn) \in Collection
           /\ StampRows(col, ids, usn) \in Collection
           /\ MergeUnchunked(col, rows) \in Collection
           /\ MergeChunk(col, rows, pending) \in Collection
<1>1. col.row \in [Objs -> Row] /\ col.grave \in [Objs -> Int]
    BY Fields
<1>2. ApplyGraves(col, ids, usn) \in Collection
    <2> DEFINE f == [o \in Objs |-> IF o \in ids THEN Absent ELSE col.row[o]]
               g == [o \in Objs |-> IF o \in ids THEN AddGrave(col.grave[o], usn) ELSE col.grave[o]]
               mid == [col EXCEPT !.row = f]
    <2>1. f \in [Objs -> Row]
        BY <1>1, RowsTyped
    <2>2. g \in [Objs -> Int]
        BY <1>1 DEF AddGrave
    <2>3. mid \in Collection
        <3> HIDE DEF f
        <3> QED  BY <2>1, Replaced
    <2>4. [mid EXCEPT !.grave = g] \in Collection
        <3> HIDE DEF g, mid
        <3> QED  BY <2>2, <2>3, Replaced
    <2>5. ApplyGraves(col, ids, usn) = [mid EXCEPT !.grave = g]
        BY DEF ApplyGraves
    <2>6. QED
        BY <2>4, <2>5
<1>3. StampGraves(col, usn) \in Collection
    <2> DEFINE g == [o \in Objs |-> IF col.grave[o] = PendingUsn THEN usn ELSE col.grave[o]]
    <2>1. g \in [Objs -> Int]
        BY <1>1
    <2>2. [col EXCEPT !.grave = g] \in Collection
        <3> HIDE DEF g
        <3> QED  BY <2>1, Replaced
    <2>3. QED
        BY <2>2 DEF StampGraves
<1>4. StampRows(col, ids, usn) \in Collection
    <2> DEFINE f == [o \in Objs |-> IF o \in ids THEN StampRow(col.row[o], usn) ELSE col.row[o]]
    <2>1. f \in [Objs -> Row]
        BY <1>1, RowsTyped
    <2>2. [col EXCEPT !.row = f] \in Collection
        <3> HIDE DEF f
        <3> QED  BY <2>1, Replaced
    <2>3. QED
        BY <2>2 DEF StampRows
<1>5. MergeUnchunked(col, rows) \in Collection
    <2> DEFINE f == [o \in Objs |-> IF o \in DOMAIN rows /\ TakesUnchunked(col.row[o], rows[o])
                                    THEN rows[o] ELSE col.row[o]]
    <2>1. f \in [Objs -> Row]
        BY <1>1 DEF Rows
    <2>2. [col EXCEPT !.row = f] \in Collection
        <3> HIDE DEF f
        <3> QED  BY <2>1, Replaced
    <2>3. QED
        BY <2>2 DEF MergeUnchunked
<1>6. MergeChunk(col, rows, pending) \in Collection
    <2> DEFINE f == [o \in Objs |-> IF o \in DOMAIN rows
                                       /\ TakesChunked(o, col.row[o], rows[o], pending)
                                    THEN rows[o] ELSE col.row[o]]
    <2>1. f \in [Objs -> Row]
        BY <1>1 DEF Rows
    <2>2. [col EXCEPT !.row = f] \in Collection
        <3> HIDE DEF f
        <3> QED  BY <2>1, Replaced
    <2>3. QED
        BY <2>2 DEF MergeChunk
<1>7. QED
    BY <1>2, <1>3, <1>4, <1>5, <1>6

LEMMA SentTyped ==
    ASSUME NEW col \in Collection, NEW ids \in SUBSET Objs
    PROVE  Rows(SentRows(col, ids))
BY Fields DEF Rows, SentRows

(* What moves a whole collection.                                          *)
LEMMA MovedTyped ==
    ASSUME NEW col \in Collection, NEW usn \in Nat, NEW now \in Nat
    PROVE  /\ Finish(col, usn, now) \in Collection
           /\ BeforeUpload(col, now) \in Collection
           /\ BeforeDownload(col, now) \in Collection
<1>1. Finish(col, usn, now) \in Collection
    <2> DEFINE mid == [col EXCEPT !.usn = usn]
    <2>1. mid \in Collection
        BY Replaced
    <2>2. [mid EXCEPT !.mod = now] \in Collection
        <3> HIDE DEF mid
        <3> QED  BY <2>1, Replaced
    <2>3. QED
        BY <2>2 DEF Finish
<1>2. BeforeDownload(col, now) \in Collection
    <2> DEFINE mid == [col EXCEPT !.usn = @ + 1]
    <2>1. mid \in Collection
        <3>1. col.usn + 1 \in Nat
            BY Fields
        <3>2. QED
            BY <3>1, Replaced
    <2>2. [mid EXCEPT !.mod = now] \in Collection
        <3> HIDE DEF mid
        <3> QED  BY <2>1, Replaced
    <2>3. QED
        BY <2>2 DEF BeforeDownload
<1>3. BeforeUpload(col, now) \in Collection
    <2> DEFINE f == [o \in Objs |-> IF o \in Decks \/ col.row[o].usn = PendingUsn
                                    THEN StampRow(col.row[o], 0) ELSE col.row[o]]
               g == [o \in Objs |-> NoGrave]
               c1 == [col EXCEPT !.row = f]
               c2 == [c1 EXCEPT !.grave = g]
               c3 == [c2 EXCEPT !.usn = col.usn + 1]
               c4 == [c3 EXCEPT !.scm = now]
               c5 == [c4 EXCEPT !.mod = now]
    <2>1. f \in [Objs -> Row] /\ g \in [Objs -> Int]
        BY Fields, RowsTyped DEF NoGrave
    <2>2. c1 \in Collection
        <3> HIDE DEF f
        <3> QED  BY <2>1, Replaced
    <2>3. c2 \in Collection
        <3> HIDE DEF g, c1
        <3> QED  BY <2>1, <2>2, Replaced
    <2>4. c3 \in Collection
        <3> HIDE DEF c2
        <3>1. col.usn + 1 \in Nat
            BY Fields
        <3>2. QED
            BY <2>3, <3>1, Replaced
    <2>5. c4 \in Collection
        <3> HIDE DEF c3
        <3> QED  BY <2>4, Replaced
    <2>6. c5 \in Collection
        <3> HIDE DEF c4
        <3> QED  BY <2>5, Replaced
    <2>7. BeforeUpload(col, now) = c5
        BY DEF BeforeUpload
    <2>8. QED
        BY <2>6, <2>7
<1>4. QED
    BY <1>1, <1>2, <1>3

-----------------------------------------------------------------------------
(* What is said.                                                           *)

(* The requests that a client makes with its transaction open, ...         *)
Underway == Stateful \cup {"start"}

(* ... and those that carry the key of its session.                        *)
Keyed == Underway \cup {"meta", "abort"}

(* Which request an answer belongs to.                                     *)
Fits(request, answer) ==
    /\ answer \in {"meta", "graves", "changes", "chunk", "sanity", "finish", "download",
                   "ok", "error"}
    /\ answer = "meta" => request = "meta"
    /\ answer = "graves" => request = "start"
    /\ answer = "changes" => request = "applyChanges"
    /\ answer = "chunk" => request = "chunk"
    /\ answer = "sanity" => request = "sanity"
    /\ answer = "finish" => request = "finish"
    /\ answer = "download" => request = "download"
    /\ answer = "ok" => request \in {"applyGraves", "applyChunk", "abort", "upload"}
    /\ answer = "error" => request \in Stateful

(* A request, when last syncs have been started.                           *)
RequestOK(m, last) ==
    /\ m.from \in Clients /\ m.skey \in 0..last
    /\ m.type \in Keyed \cup {"upload", "download"}
    /\ m.type \in Underway => m.skey # 0
    /\ m.type = "start" => m.client_usn \in Nat /\ m.local_is_newer \in BOOLEAN
    /\ m.type = "applyChanges" => Rows(m.rows) /\ m.conf \in 0..MaxEdits \cup {NoConf}
    /\ m.type = "applyChunk" => Rows(m.rows)
    /\ m.type = "finish" => m.base \in Collection
    /\ m.type = "upload" => m.col \in Collection

(* An answer, when the server's collection has changed now times.          *)
AnswerOK(r, now) ==
    /\ r.type = "meta" => r.mod \in Nat /\ r.scm \in Nat /\ r.usn \in Nat /\ r.epoch \in 0..now
    /\ r.type = "graves" => r.ids \subseteq Objs
    /\ r.type = "changes" => Rows(r.rows) /\ r.conf \in 0..MaxEdits \cup {NoConf}
    /\ r.type = "chunk" => Rows(r.rows)
    /\ r.type = "finish" => r.mod \in Nat
    /\ r.type = "download" => r.col \in Collection

SessionShape(s, last, now) ==
    s \in [await : {s.await}, skey : 0..last, work : Collection \cup {NoCol},
           local_is_newer : BOOLEAN, server_usn : Nat, remote : SUBSET Objs,
           todo : SUBSET Objs, last : BOOLEAN, bad : BOOLEAN, epoch : 0..now]

(* A client waits for the answer to the request it has sent.               *)
Awaits(c, s, r, last, now) ==
    /\ RequestOK(s.await, last) /\ s.await.from = c
    /\ IF s.await.type \in Keyed THEN s.skey = s.await.skey /\ s.skey # 0 ELSE s.skey = 0
    /\ s.await.type \in Underway => s.work \in Collection
    /\ \/ r = NoResp
       \/ Fits(s.await.type, r.type) /\ AnswerOK(r, now)

SessionOK(c, s, r, last, now) ==
    /\ SessionShape(s, last, now)
    /\ \/ s = NoSession /\ r = NoResp
       \/ Awaits(c, s, r, last, now)

ServerStates == [skey : 0..syncs, server_usn : Nat, client_usn : Nat,
                 client_is_newer : BOOLEAN, have_ids : BOOLEAN, ids : SUBSET Chunked]

Data ==
    /\ srv \in Collection /\ torn \in BOOLEAN /\ epoch \in Nat
    /\ cli \in [Clients -> Collection]
    /\ clk \in Nat /\ edits \in 0..MaxEdits /\ born \in [Objs -> 0..MaxEdits]
    /\ syncs \in 0..MaxSyncs /\ faults \in 0..MaxFaults

Talk ==
    /\ user.st \in ServerStates /\ user.col \in Collection \cup {NoCol}
    /\ \A m \in net : RequestOK(m, syncs)
    /\ sess = [c \in Clients |-> sess[c]] /\ resp = [c \in Clients |-> resp[c]]
    /\ \A c \in Clients : SessionOK(c, sess[c], resp[c], syncs, epoch)

-----------------------------------------------------------------------------
(* Who may say it.                                                         *)

(* A session has one request at a time, also when its client has gone.     *)
OneRequest ==
    \A m, n \in net :
        m.type \in Underway /\ n.type \in Underway /\ m.skey = n.skey => m = n

(* It is the one that the client waits for, unless the client has given up.*)
RequestAwaited ==
    \A c \in Clients, m \in net :
        m.type \in Underway /\ m.skey = sess[c].skey
        => m = sess[c].await \/ sess[c].await.type = "abort"

KeysApart ==
    \A c, d \in Clients : sess[c].skey # 0 /\ sess[c].skey = sess[d].skey => c = d

NotAnswered == \A c \in Clients : sess[c].await \in net => resp[c] = NoResp

SanityRefused(r) == r.type = "sanity" /\ ~r.good

(* Once the server has closed the collection, nobody goes on with the      *)
(* session.                                                                *)
Closed ==
    \/ user = ClosedUser
    \/ /\ user.st.skey # 0
       /\ user.col = NoCol =>
            /\ \A m \in net : m.type \in Underway => m.skey # user.st.skey
            /\ \A c \in Clients : sess[c].skey = user.st.skey =>
                  sess[c].await.type = "abort" \/ SanityRefused(resp[c])

Protocol == OneRequest /\ RequestAwaited /\ KeysApart /\ NotAnswered /\ Closed

SyncInv == Data /\ Talk /\ Protocol

(* Requests, answers and sessions stay what they are as time goes on.      *)
LEMMA StaysOK ==
    ASSUME NEW last \in Nat, NEW last2 \in Nat, last <= last2,
           NEW now \in Nat, NEW now2 \in Nat, now <= now2
    PROVE  /\ \A m : RequestOK(m, last) => RequestOK(m, last2)
           /\ \A r : AnswerOK(r, now) => AnswerOK(r, now2)
           /\ \A c, s, r : SessionOK(c, s, r, last, now) => SessionOK(c, s, r, last2, now2)
<1>1. \A m : RequestOK(m, last) => RequestOK(m, last2)
    BY DEF RequestOK
<1>2. \A r : AnswerOK(r, now) => AnswerOK(r, now2)
    BY DEF AnswerOK
<1>3. \A s : SessionShape(s, last, now) => SessionShape(s, last2, now2)
    BY DEF SessionShape
<1>4. \A c, s, r : Awaits(c, s, r, last, now) => Awaits(c, s, r, last2, now2)
    BY <1>1, <1>2 DEF Awaits
<1>5. QED
    BY <1>1, <1>2, <1>3, <1>4 DEF SessionOK

LEMMA SessionFields ==
    ASSUME NEW s, NEW last, NEW now, SessionShape(s, last, now)
    PROVE  /\ s.skey \in 0..last /\ s.work \in Collection \cup {NoCol}
           /\ s.local_is_newer \in BOOLEAN /\ s.server_usn \in Nat /\ s.remote \subseteq Objs
           /\ s.todo \subseteq Objs /\ s.last \in BOOLEAN /\ s.bad \in BOOLEAN
           /\ s.epoch \in 0..now
BY DEF SessionShape

LEMMA NoSessionFields ==
    ASSUME NEW last \in Nat, NEW now \in Nat
    PROVE  /\ SessionShape(NoSession, last, now) /\ NoSession.skey = 0
           /\ NoSession.await = NoReq /\ NoSession.work = NoCol
           /\ NoReq.type = "none" /\ NoResp.type = "none"
BY DEF SessionShape, NoSession, NoReq, NoResp

-----------------------------------------------------------------------------
(* What a step of a client does to the protocol.                           *)

Gone(c) == [type |-> "abort", from |-> c, skey |-> 0]

(* A client ends its sync, perhaps with an abort that nobody waits for.     *)
Ends(c) ==
    /\ sess' = [sess EXCEPT ![c] = NoSession]
    /\ net' \in {net, net \cup {Gone(c)}}
    /\ syncs' = syncs

(* A client goes on with the request m.                                    *)
Says(c, s, m) ==
    /\ sess' = [sess EXCEPT ![c] = [s EXCEPT !.await = m]]
    /\ net' = net \cup {m}

(* Inside a session, after an answer that lets it go on.                   *)
Proceeds(c, s, m) ==
    /\ Says(c, s, m) /\ m.type \in Underway /\ s.skey = sess[c].skey /\ syncs' = syncs
    /\ resp[c] # NoResp /\ sess[c].await.type # "abort" /\ ~SanityRefused(resp[c])

Aborts(c, s, m) ==
    Says(c, s, m) /\ m.type = "abort" /\ s.skey = sess[c].skey /\ syncs' = syncs

Replaces(c, s, m) ==
    Says(c, s, m) /\ m.type \in {"upload", "download"} /\ s.skey = 0 /\ syncs' = syncs

Begins(c, s, m) ==
    /\ Says(c, s, m) /\ m.type = "meta" /\ s.skey = syncs + 1 /\ syncs' = syncs + 1

LEMMA OneSession ==
    ASSUME sess = [c \in Clients |-> sess[c]], NEW c \in Clients, NEW s,
           sess' = [sess EXCEPT ![c] = s]
    PROVE  /\ sess' = [d \in Clients |-> sess'[d]]
           /\ \A d \in Clients : sess'[d] = IF d = c THEN s ELSE sess[d]
OBVIOUS

LEMMA OneAnswer ==
    ASSUME resp = [c \in Clients |-> resp[c]], NEW c \in Clients, NEW r,
           resp' = [resp EXCEPT ![c] = r]
    PROVE  /\ resp' = [d \in Clients |-> resp'[d]]
           /\ \A d \in Clients : resp'[d] = IF d = c THEN r ELSE resp[d]
OBVIOUS

LEMMA Await ==
    ASSUME NEW s, NEW m, NEW last \in Nat, NEW now \in Nat, SessionShape(s, last, now)
    PROVE  LET t == [s EXCEPT !.await = m]
           IN  /\ SessionShape(t, last, now) /\ t.await = m /\ t.skey = s.skey /\ t.work = s.work
               /\ t.local_is_newer = s.local_is_newer /\ t.server_usn = s.server_usn
               /\ t.remote = s.remote /\ t.todo = s.todo /\ t.last = s.last /\ t.bad = s.bad
               /\ t.epoch = s.epoch
BY DEF SessionShape

LEMMA Fresh ==
    ASSUME NEW last \in Nat, NEW now \in Nat, NEW key \in 0..last, NEW bad \in BOOLEAN
    PROVE  /\ SessionShape([NoSession EXCEPT !.skey = key, !.bad = bad], last, now)
           /\ [NoSession EXCEPT !.skey = key, !.bad = bad].skey = key
           /\ SessionShape([NoSession EXCEPT !.skey = key], last, now)
           /\ [NoSession EXCEPT !.skey = key].skey = key
<1>1. SessionShape(NoSession, last, now)
    BY NoSessionFields
<1> HIDE DEF NoSession
<1>2. QED
    BY <1>1 DEF SessionShape

LEMMA EndKeeps ==
    ASSUME SyncInv, NEW c \in Clients, Ends(c), resp' = [resp EXCEPT ![c] = NoResp],
           UNCHANGED <<user, epoch>>
    PROVE  Talk' /\ Protocol'
<1>1. /\ sess' = [d \in Clients |-> sess'[d]] /\ resp' = [d \in Clients |-> resp'[d]]
      /\ \A d \in Clients : /\ sess'[d] = IF d = c THEN NoSession ELSE sess[d]
                            /\ resp'[d] = IF d = c THEN NoResp ELSE resp[d]
    BY OneSession, OneAnswer DEF SyncInv, Talk, Ends
<1>2. syncs \in Nat /\ epoch \in Nat /\ syncs' = syncs /\ epoch' = epoch /\ user' = user
    BY SyncBounds DEF SyncInv, Data, Ends
<1>3. /\ SessionShape(NoSession, syncs, epoch) /\ NoSession.skey = 0 /\ NoSession.await = NoReq
      /\ NoReq.type = "none"
    BY <1>2, NoSessionFields
<1>4. /\ Gone(c).type = "abort" /\ RequestOK(Gone(c), syncs)
    BY <1>2 DEF Gone, RequestOK, Keyed, Underway, Stateful
<1>5. \A m \in net' : m \in net \/ m = Gone(c)
    BY DEF Ends
<1>6. Talk'
    <2>1. \A m \in net' : RequestOK(m, syncs')
        BY <1>2, <1>4, <1>5 DEF SyncInv, Talk
    <2>2. \A d \in Clients : SessionOK(d, sess'[d], resp'[d], syncs', epoch')
        BY <1>1, <1>2, <1>3 DEF SyncInv, Talk, SessionOK
    <2>3. user'.st \in ServerStates' /\ user'.col \in Collection \cup {NoCol}
        BY <1>2 DEF SyncInv, Talk, ServerStates
    <2>4. QED
        BY <1>1, <2>1, <2>2, <2>3 DEF Talk
<1>7. "abort" \notin Underway
    BY DEF Underway, Stateful
<1>8. \A m \in net' : m.type \in Underway => m \in net /\ m.skey # 0
    BY <1>4, <1>5, <1>7 DEF SyncInv, Talk, RequestOK
<1>9. OneRequest'
    BY <1>8 DEF SyncInv, Protocol, OneRequest
<1>10. RequestAwaited'
    BY <1>1, <1>3, <1>8 DEF SyncInv, Protocol, RequestAwaited
<1>11. KeysApart'
    BY <1>1, <1>3 DEF SyncInv, Protocol, KeysApart
<1>12. NotAnswered'
    <2> SUFFICES ASSUME NEW d \in Clients, d # c, sess'[d].await \in net'
                 PROVE  resp'[d] = NoResp
        BY <1>1 DEF NotAnswered
    <2>1. CASE sess[d].await \in net
        BY <2>1, <1>1 DEF SyncInv, Protocol, NotAnswered
    <2>2. CASE sess[d].await = Gone(c)
        <3>1. sess[d].await.from = c
            BY <2>2 DEF Gone
        <3>2. CASE sess[d] = NoSession
            BY <3>2, <2>2, <1>3, <1>4
        <3>3. CASE Awaits(d, sess[d], resp[d], syncs, epoch)
            BY <3>3, <3>1 DEF Awaits
        <3>4. QED
            BY <3>2, <3>3 DEF SyncInv, Talk, SessionOK
    <2>3. QED
        BY <2>1, <2>2, <1>1, <1>5
<1>13. Closed'
    <2>1. CASE user = ClosedUser
        BY <2>1, <1>2 DEF Closed
    <2>2. CASE user # ClosedUser
        BY <2>2, <1>1, <1>2, <1>3, <1>8 DEF SyncInv, Protocol, Closed
    <2>3. QED
        BY <2>1, <2>2
<1>14. QED
    BY <1>6, <1>9, <1>10, <1>11, <1>12, <1>13 DEF Protocol

LEMMA SayKeeps ==
    ASSUME SyncInv, NEW c \in Clients, NEW s, NEW m,
           SessionShape(s, syncs', epoch), RequestOK(m, syncs'), m.from = c,
           IF m.type \in Keyed THEN s.skey = m.skey /\ s.skey # 0 ELSE s.skey = 0,
           m.type \in Underway => s.work \in Collection,
           Proceeds(c, s, m) \/ Aborts(c, s, m) \/ Replaces(c, s, m) \/ Begins(c, s, m),
           resp' = [resp EXCEPT ![c] = NoResp], UNCHANGED <<user, epoch>>
    PROVE  Talk' /\ Protocol'
<1> DEFINE t == [s EXCEPT !.await = m]
<1>1. /\ syncs \in Nat /\ syncs' \in Nat /\ syncs <= syncs' /\ epoch \in Nat
      /\ epoch' = epoch /\ user' = user
    BY SyncBounds DEF SyncInv, Data, Proceeds, Aborts, Replaces, Begins
<1>2. Says(c, s, m)
    BY DEF Proceeds, Aborts, Replaces, Begins
<1>3. /\ SessionShape(t, syncs', epoch) /\ t.await = m /\ t.skey = s.skey /\ t.work = s.work
    BY <1>1, Await
<1> HIDE DEF t
<1>4. /\ sess' = [d \in Clients |-> sess'[d]] /\ resp' = [d \in Clients |-> resp'[d]]
      /\ \A d \in Clients : /\ sess'[d] = IF d = c THEN t ELSE sess[d]
                            /\ resp'[d] = IF d = c THEN NoResp ELSE resp[d]
    BY <1>2, OneSession, OneAnswer DEF SyncInv, Talk, Says, t
<1>5. \A n \in net' : n \in net \/ n = m
    BY <1>2 DEF Says
<1>6. Talk'
    <2>1. \A n \in net' : RequestOK(n, syncs')
        BY <1>1, <1>5, StaysOK DEF SyncInv, Talk
    <2>2. SessionOK(c, t, NoResp, syncs', epoch)
        BY <1>3 DEF SessionOK, Awaits
    <2>3. \A d \in Clients : SessionOK(d, sess[d], resp[d], syncs', epoch)
        BY <1>1, StaysOK DEF SyncInv, Talk
    <2>4. \A d \in Clients : SessionOK(d, sess'[d], resp'[d], syncs', epoch')
        BY <1>1, <1>4, <2>2, <2>3
    <2>5. user'.st \in ServerStates' /\ user'.col \in Collection \cup {NoCol}
        BY <1>1 DEF SyncInv, Talk, ServerStates
    <2>6. QED
        BY <1>4, <2>1, <2>4, <2>5 DEF Talk
<1>7. \A n \in net : n.skey \in 0..syncs /\ (n.type \in Underway => n.skey # 0)
    BY DEF SyncInv, Talk, RequestOK
<1>8. \A d \in Clients : sess[d].skey \in 0..syncs
    BY SessionFields DEF SyncInv, Talk, SessionOK
<1>9. /\ "abort" \notin Underway /\ "upload" \notin Underway /\ "download" \notin Underway
      /\ "meta" \notin Underway /\ Underway \subseteq Keyed
    BY DEF Underway, Stateful, Keyed
<1>10. m.type \in Underway => Proceeds(c, s, m) /\ m.skey = sess[c].skey /\ m.skey # 0
    BY <1>9 DEF Proceeds, Aborts, Replaces, Begins
<1>11. \A n \in net : m.type \in Underway /\ n.type \in Underway => n.skey # sess[c].skey
    <2> SUFFICES ASSUME NEW n \in net, m.type \in Underway, n.type \in Underway,
                        n.skey = sess[c].skey
                 PROVE  FALSE
        OBVIOUS
    <2>1. n = sess[c].await
        BY <1>10 DEF SyncInv, Protocol, RequestAwaited, Proceeds
    <2>2. resp[c] = NoResp
        BY <2>1 DEF SyncInv, Protocol, NotAnswered
    <2>3. QED
        BY <2>2, <1>10 DEF Proceeds
<1>12. OneRequest'
    <2> SUFFICES ASSUME NEW n1 \in net', NEW n2 \in net', n1.type \in Underway,
                        n2.type \in Underway, n1.skey = n2.skey
                 PROVE  n1 = n2
        BY DEF OneRequest
    <2>1. CASE n1 \in net /\ n2 \in net
        BY <2>1 DEF SyncInv, Protocol, OneRequest
    <2>2. CASE n1 = m \/ n2 = m
        BY <2>2, <1>5, <1>10, <1>11
    <2>3. QED
        BY <2>1, <2>2, <1>5
<1>13. /\ sess'[c].skey = s.skey /\ sess'[c].await = m
       /\ \A d \in Clients : d # c => sess'[d] = sess[d]
    BY <1>3, <1>4
<1>14. \/ s.skey = sess[c].skey
       \/ s.skey = 0
       \/ s.skey = syncs + 1 /\ m.type = "meta"
    BY DEF Proceeds, Aborts, Replaces, Begins
<1>15. RequestAwaited'
    <2> SUFFICES ASSUME NEW d \in Clients, NEW n \in net', n.type \in Underway,
                        n.skey = sess'[d].skey
                 PROVE  n = sess'[d].await \/ sess'[d].await.type = "abort"
        BY DEF RequestAwaited
    <2>1. CASE d # c /\ n \in net
        BY <2>1, <1>13 DEF SyncInv, Protocol, RequestAwaited
    <2>2. CASE d # c /\ n = m
        BY <2>2, <1>10, <1>13 DEF SyncInv, Protocol, KeysApart
    <2>3. CASE d = c /\ n \in net
        <3>1. n.skey # 0 /\ n.skey \in 0..syncs
            BY <2>3, <1>7
        <3>2. n.skey = sess[c].skey
            BY <3>1, <2>3, <1>13, <1>14, <1>1
        <3>3. m.type \notin Underway
            BY <3>2, <2>3, <1>11
        <3>4. CASE Aborts(c, s, m)
            BY <3>4, <2>3, <1>13 DEF Aborts
        <3>5. QED
            BY <3>1, <3>3, <3>4, <2>3, <1>13, <1>1 DEF Proceeds, Replaces, Begins
    <2>4. CASE d = c /\ n = m
        BY <2>4, <1>13
    <2>5. QED
        BY <2>1, <2>2, <2>3, <2>4, <1>5
<1>16. KeysApart'
    <2> SUFFICES ASSUME NEW d \in Clients, NEW e \in Clients, sess'[d].skey # 0,
                        sess'[d].skey = sess'[e].skey, d # e
                 PROVE  FALSE
        BY DEF KeysApart
    <2>1. CASE d # c /\ e # c
        BY <2>1, <1>13 DEF SyncInv, Protocol, KeysApart
    <2>2. CASE d = c
        BY <2>2, <1>1, <1>8, <1>13, <1>14 DEF SyncInv, Protocol, KeysApart
    <2>3. CASE e = c
        BY <2>3, <1>1, <1>8, <1>13, <1>14 DEF SyncInv, Protocol, KeysApart
    <2>4. QED
        BY <2>1, <2>2, <2>3
<1>17. NotAnswered'
    <2> SUFFICES ASSUME NEW d \in Clients, d # c, sess'[d].await \in net'
                 PROVE  resp'[d] = NoResp
        BY <1>4 DEF NotAnswered
    <2>1. CASE sess[d].await \in net
        BY <2>1, <1>4 DEF SyncInv, Protocol, NotAnswered
    <2>2. CASE sess[d].await = m
        <3>1. CASE sess[d] = NoSession
            <4>1. m.type = "none"
                BY <3>1, <2>2, <1>1, NoSessionFields
            <4>2. QED
                BY <4>1 DEF RequestOK, Keyed, Underway, Stateful
        <3>2. CASE Awaits(d, sess[d], resp[d], syncs, epoch)
            BY <3>2, <2>2 DEF Awaits
        <3>3. QED
            BY <3>1, <3>2 DEF SyncInv, Talk, SessionOK
    <2>3. QED
        BY <2>1, <2>2, <1>5, <1>13
<1>18. Closed'
    <2>1. CASE user = ClosedUser
        BY <2>1, <1>1 DEF Closed
    <2>2. CASE user # ClosedUser
        <3>1. user.st.skey \in 0..syncs /\ user.st.skey # 0
            BY <2>2 DEF SyncInv, Talk, ServerStates, Protocol, Closed
        <3> SUFFICES ASSUME user.col = NoCol
                     PROVE  /\ \A n \in net' : n.type \in Underway => n.skey # user.st.skey
                            /\ \A d \in Clients : sess'[d].skey = user.st.skey =>
                                 sess'[d].await.type = "abort" \/ SanityRefused(resp'[d])
            BY <3>1, <1>1 DEF Closed
        <3>2. /\ \A n \in net : n.type \in Underway => n.skey # user.st.skey
              /\ \A d \in Clients : sess[d].skey = user.st.skey =>
                      sess[d].await.type = "abort" \/ SanityRefused(resp[d])
            BY <2>2 DEF SyncInv, Protocol, Closed
        <3>3. m.type \in Underway => m.skey # user.st.skey
            BY <3>2, <1>10 DEF Proceeds
        <3>4. sess'[c].skey = user.st.skey => sess'[c].await.type = "abort"
            <4> SUFFICES ASSUME s.skey = user.st.skey
                         PROVE  m.type = "abort"
                BY <1>13
            <4>1. ~Replaces(c, s, m) /\ ~Begins(c, s, m)
                BY <3>1, <1>1 DEF Replaces, Begins
            <4>2. ~Proceeds(c, s, m)
                BY <3>2 DEF Proceeds
            <4>3. QED
                BY <4>1, <4>2 DEF Aborts
        <3>5. QED
            BY <3>2, <3>3, <3>4, <1>4, <1>5
    <2>3. QED
        BY <2>1, <2>2
<1>19. QED
    BY <1>6, <1>12, <1>15, <1>16, <1>17, <1>18 DEF Protocol

-----------------------------------------------------------------------------
(* What a step of the server does to the protocol.                         *)

Answers(m, r, now) == Fits(m.type, r.type) /\ AnswerOK(r, now) /\ Answer(m, r)

Loses(m) == net' = net \ {m} /\ resp' = resp

(* The handler has opened a collection or works on the open one, ...       *)
Open(m) == user'.col \in Collection /\ user'.st.skey = m.skey /\ m.skey # 0

(* ... or has closed it because the counts differ, ...                     *)
Refuses(m, r, now) ==
    /\ Answers(m, r, now) /\ SanityRefused(r) /\ m.type \in Underway
    /\ user'.col = NoCol /\ user'.st.skey = m.skey /\ m.skey # 0

(* ... or has rejected the request.                                        *)
Rejects(m) == UNCHANGED user

LEMMA AnswerReaches ==
    ASSUME Talk, syncs \in Nat, epoch \in Nat, NEW m \in net, NEW r, Answer(m, r)
    PROVE  /\ resp' = [d \in Clients |-> resp'[d]]
           /\ \A d \in Clients :
                IF sess[d].await = m
                THEN resp'[d] = r /\ Awaits(d, sess[d], resp[d], syncs, epoch)
                ELSE resp'[d] = resp[d]
<1>1. m.from \in Clients /\ m.type # "none"
    BY DEF Talk, RequestOK, Keyed, Underway, Stateful
<1>2. \A d \in Clients : sess[d].await = m =>
          d = m.from /\ Awaits(d, sess[d], resp[d], syncs, epoch)
    <2> SUFFICES ASSUME NEW d \in Clients, sess[d].await = m
                 PROVE  d = m.from /\ Awaits(d, sess[d], resp[d], syncs, epoch)
        OBVIOUS
    <2>1. sess[d] # NoSession
        BY <1>1, NoSessionFields
    <2>2. QED
        BY <2>1 DEF Talk, SessionOK, Awaits
<1>3. CASE Waiting(m)
    <2>1. resp' = [resp EXCEPT ![m.from] = r] /\ sess[m.from].await = m
        BY <1>3 DEF Answer, Waiting
    <2>2. QED
        BY <1>1, <1>2, <2>1, OneAnswer DEF Talk
<1>4. CASE ~Waiting(m)
    BY <1>2, <1>4 DEF Answer, Waiting, Talk
<1>5. QED
    BY <1>3, <1>4

LEMMA HandleKeeps ==
    ASSUME SyncInv, NEW m \in net, NEW r,
           Answers(m, r, epoch') \/ Loses(m),
           \/ user' = ClosedUser
           \/ Open(m)
           \/ Refuses(m, r, epoch')
           \/ Rejects(m),
           user'.st \in ServerStates, user'.col \in Collection \cup {NoCol},
           epoch' \in Nat, epoch <= epoch', UNCHANGED <<sess, syncs>>
    PROVE  Talk' /\ Protocol'
<1>1. /\ syncs \in Nat /\ syncs' = syncs /\ epoch \in Nat /\ sess' = sess
      /\ net' = net \ {m}
    BY SyncBounds DEF SyncInv, Data, Answers, Answer, Loses
<1>2. /\ resp' = [d \in Clients |-> resp'[d]]
      /\ \A d \in Clients :
            \/ resp'[d] = resp[d]
            \/ /\ sess[d].await = m /\ Awaits(d, sess[d], resp[d], syncs, epoch)
               /\ Fits(m.type, r.type) /\ AnswerOK(r, epoch') /\ resp'[d] = r
    <2>1. CASE Loses(m)
        BY <2>1 DEF Loses, SyncInv, Talk
    <2>2. CASE Answers(m, r, epoch')
        BY <2>2, <1>1, AnswerReaches DEF Answers, SyncInv
    <2>3. QED
        BY <2>1, <2>2
<1>3. Talk'
    <2>1. \A n \in net' : RequestOK(n, syncs')
        BY <1>1 DEF SyncInv, Talk
    <2>2. \A d \in Clients : SessionOK(d, sess'[d], resp'[d], syncs', epoch')
        <3> SUFFICES ASSUME NEW d \in Clients
                     PROVE  SessionOK(d, sess[d], resp'[d], syncs, epoch')
            BY <1>1
        <3>1. SessionOK(d, sess[d], resp[d], syncs, epoch')
            BY <1>1, StaysOK DEF SyncInv, Talk
        <3>2. CASE resp'[d] = resp[d]
            BY <3>1, <3>2
        <3>3. CASE /\ sess[d].await = m /\ Awaits(d, sess[d], resp[d], syncs, epoch)
                   /\ Fits(m.type, r.type) /\ AnswerOK(r, epoch') /\ resp'[d] = r
            <4>1. Awaits(d, sess[d], r, syncs, epoch')
                BY <3>3 DEF Awaits
            <4>2. QED
                BY <3>1, <3>3, <4>1 DEF SessionOK
        <3>4. QED
            BY <1>2, <3>2, <3>3
    <2>3. user'.st \in ServerStates'
        BY <1>1 DEF ServerStates
    <2>4. sess' = [d \in Clients |-> sess'[d]]
        BY <1>1 DEF SyncInv, Talk
    <2>5. QED
        BY <1>2, <2>1, <2>2, <2>3, <2>4 DEF Talk
<1>4. OneRequest'
    BY <1>1 DEF SyncInv, Protocol, OneRequest
<1>5. RequestAwaited'
    BY <1>1 DEF SyncInv, Protocol, RequestAwaited
<1>6. KeysApart'
    BY <1>1 DEF SyncInv, Protocol, KeysApart
<1>7. NotAnswered'
    BY <1>1, <1>2 DEF SyncInv, Protocol, NotAnswered
<1>8. Closed'
    <2>1. CASE user' = ClosedUser
        BY <2>1 DEF Closed
    <2>2. CASE Open(m)
        BY <2>2, NoColApart DEF Open, Closed
    <2>3. CASE Refuses(m, r, epoch')
        <3>1. \A n \in net' : n.type \in Underway => n.skey # m.skey
            BY <1>1, <2>3 DEF SyncInv, Protocol, OneRequest, Refuses
        <3>2. \A d \in Clients : sess[d].skey = m.skey =>
                  sess[d].await.type = "abort" \/ SanityRefused(resp'[d])
            <4> SUFFICES ASSUME NEW d \in Clients, sess[d].skey = m.skey,
                                sess[d].await.type # "abort"
                         PROVE  SanityRefused(resp'[d])
                OBVIOUS
            <4>1. sess[d].await = m
                BY <2>3 DEF SyncInv, Protocol, RequestAwaited, Refuses
            <4>2. resp'[d] = r
                BY <1>1, <2>3, <4>1, AnswerReaches DEF Refuses, Answers, SyncInv
            <4>3. QED
                BY <4>2, <2>3 DEF Refuses
        <3>3. QED
            BY <3>1, <3>2, <2>3, <1>1 DEF Refuses, Closed
    <2>4. CASE Rejects(m)
        <3>1. CASE user = ClosedUser
            BY <2>4, <3>1 DEF Rejects, Closed
        <3>2. CASE user # ClosedUser
            <4> SUFFICES ASSUME user.col = NoCol
                         PROVE  /\ \A n \in net' : n.type \in Underway => n.skey # user.st.skey
                                /\ \A d \in Clients : sess[d].skey = user.st.skey =>
                                     sess[d].await.type = "abort" \/ SanityRefused(resp'[d])
                BY <2>4, <3>2, <1>1 DEF SyncInv, Protocol, Closed, Rejects
            <4>1. /\ user.st.skey # 0
                  /\ \A n \in net : n.type \in Underway => n.skey # user.st.skey
                  /\ \A d \in Clients : sess[d].skey = user.st.skey =>
                         sess[d].await.type = "abort" \/ SanityRefused(resp[d])
                BY <3>2 DEF SyncInv, Protocol, Closed
            <4>2. ASSUME NEW d \in Clients, SanityRefused(resp[d])
                  PROVE  resp'[d] = resp[d]
                <5>1. resp[d] # NoResp
                    BY <4>2, NoSessionFields, <1>1 DEF SanityRefused
                <5>2. sess[d].await # m
                    BY <5>1 DEF SyncInv, Protocol, NotAnswered
                <5>3. QED
                    BY <5>2, <1>2
            <4>3. QED
                BY <4>1, <4>2, <1>1
        <3>3. QED
            BY <3>1, <3>2
    <2>5. QED
        BY <2>1, <2>2, <2>3, <2>4
<1>9. QED
    BY <1>3, <1>4, <1>5, <1>6, <1>7, <1>8 DEF Protocol

-----------------------------------------------------------------------------
(* The handlers.                                                           *)

LEMMA ClosedTyped ==
    ASSUME syncs \in Nat
    PROVE  ClosedUser.st \in ServerStates /\ ClosedUser.col = NoCol
BY DEF ClosedUser, NoSync, ServerStates

LEMMA Numbers ==
    ASSUME SyncInv
    PROVE  /\ syncs \in Nat /\ epoch \in Nat /\ clk \in Nat /\ edits \in 0..MaxEdits
           /\ srv.mod \in Nat /\ srv.scm \in Nat /\ srv.usn \in Nat
BY SyncBounds, Fields DEF SyncInv, Data

(* What a handler leaves, when it touches no more than the server's side.  *)
LEMMA DataStays ==
    ASSUME Data, srv' \in Collection, torn' \in BOOLEAN, epoch' \in Nat,
           clk' \in Nat, faults' \in 0..MaxFaults, Served
    PROVE  Data'
BY DEF Data, Served, cliVars

LEMMA FaultTyped ==
    ASSUME SyncInv, Fault
    PROVE  faults' \in 0..MaxFaults
BY SyncBounds DEF SyncInv, Data, Fault

LEMMA MetaKeeps ==
    ASSUME SyncInv, NEW m \in net, HandleMeta(m)
    PROVE  SyncInv'
<1> DEFINE r == [type |-> "meta", mod |-> srv.mod, scm |-> srv.scm, usn |-> srv.usn,
                 empty |-> CountOf(srv, Cards) = 0, epoch |-> epoch]
<1>1. Answer(m, r) /\ m.type = "meta" /\ user' = ClosedUser
      /\ UNCHANGED <<srv, torn, epoch, clk, faults>> /\ Served
    BY DEF HandleMeta
<1>2. r.type = "meta" /\ AnswerOK(r, epoch) /\ Fits("meta", "meta")
    BY Numbers DEF AnswerOK, Fits
<1> HIDE DEF r
<1>3. Answers(m, r, epoch')
    BY <1>1, <1>2 DEF Answers
<1>4. user'.st \in ServerStates /\ user'.col \in Collection \cup {NoCol}
    BY <1>1, ClosedTyped, Numbers
<1>5. epoch' \in Nat /\ epoch <= epoch' /\ UNCHANGED <<sess, syncs>>
    BY <1>1, Numbers DEF Served, cliVars
<1>6. Talk' /\ Protocol'
    BY <1>1, <1>3, <1>4, <1>5, HandleKeeps
<1>7. Data'
    BY <1>1, DataStays DEF SyncInv, Data
<1>8. QED
    BY <1>6, <1>7 DEF SyncInv

LEMMA StartKeeps ==
    ASSUME SyncInv, NEW m \in net, HandleStart(m)
    PROVE  SyncInv'
<1> DEFINE r == [type |-> "graves", ids |-> PendingGraves(srv, m.client_usn)]
           st == [NoSync EXCEPT !.skey            = m.skey,
                                !.server_usn      = srv.usn,
                                !.client_usn      = m.client_usn,
                                !.client_is_newer = m.local_is_newer]
<1>1. /\ Answer(m, r) /\ m.type = "start" /\ user' = [st |-> st, col |-> srv]
      /\ UNCHANGED <<srv, torn, epoch, clk, faults>> /\ Served
    BY DEF HandleStart
<1>2. r.type = "graves" /\ AnswerOK(r, epoch) /\ Fits("start", "graves")
    BY DEF AnswerOK, Fits, PendingGraves
<1>3. /\ m.skey \in 0..syncs /\ m.skey # 0 /\ m.client_usn \in Nat
      /\ m.local_is_newer \in BOOLEAN
    BY <1>1 DEF SyncInv, Talk, RequestOK, Underway
<1>4. st \in ServerStates /\ st.skey = m.skey
    BY <1>3, Numbers DEF NoSync, ServerStates
<1> HIDE DEF r, st
<1>5. Answers(m, r, epoch')
    BY <1>1, <1>2 DEF Answers
<1>6. Open(m) /\ user'.st \in ServerStates /\ user'.col \in Collection \cup {NoCol}
    BY <1>1, <1>3, <1>4 DEF Open, SyncInv, Data
<1>7. epoch' \in Nat /\ epoch <= epoch' /\ UNCHANGED <<sess, syncs>>
    BY <1>1, Numbers DEF Served, cliVars
<1>8. Talk' /\ Protocol'
    BY <1>5, <1>6, <1>7, HandleKeeps
<1>9. Data'
    BY <1>1, DataStays DEF SyncInv, Data
<1>10. QED
    BY <1>8, <1>9 DEF SyncInv

LEMMA InSessionIs ==
    ASSUME SyncInv, NEW m \in net, InSession(m)
    PROVE  /\ user # ClosedUser /\ user.st \in ServerStates /\ user.st.skey = m.skey
           /\ m.skey # 0
           /\ m.type \in Underway => user.col \in Collection
<1>1. user # ClosedUser /\ user.st.skey = m.skey
    BY DEF InSession, ClosedUser
<1>2. QED
    BY <1>1 DEF SyncInv, Talk, Protocol, Closed

LEMMA RejectKeeps ==
    ASSUME SyncInv, NEW m \in net, RejectConflict(m)
    PROVE  SyncInv'
<1> DEFINE r == [type |-> "error"]
<1>1. /\ Answer(m, r) /\ m.type \in Stateful
      /\ UNCHANGED <<srv, torn, user, epoch, clk, faults>> /\ Served
    BY DEF RejectConflict, srvVars
<1>2. r.type = "error" /\ AnswerOK(r, epoch) /\ Fits(m.type, "error")
    BY <1>1 DEF AnswerOK, Fits
<1> HIDE DEF r
<1>3. Answers(m, r, epoch')
    BY <1>1, <1>2 DEF Answers
<1>4. Rejects(m) /\ user'.st \in ServerStates /\ user'.col \in Collection \cup {NoCol}
    BY <1>1 DEF Rejects, SyncInv, Talk
<1>5. epoch' \in Nat /\ epoch <= epoch' /\ UNCHANGED <<sess, syncs>>
    BY <1>1, Numbers DEF Served, cliVars
<1>6. Talk' /\ Protocol'
    BY <1>3, <1>4, <1>5, HandleKeeps
<1>7. Data'
    BY <1>1, DataStays DEF SyncInv, Data
<1>8. QED
    BY <1>6, <1>7 DEF SyncInv

LEMMA FailKeeps ==
    ASSUME SyncInv, NEW m \in net, FailOperation(m)
    PROVE  SyncInv'
<1> DEFINE r == [type |-> "error"]
<1>1. /\ Answer(m, r) /\ m.type \in Stateful /\ user' = ClosedUser /\ Fault
      /\ UNCHANGED <<srv, torn, epoch, clk>> /\ Served
    BY DEF FailOperation
<1>2. r.type = "error" /\ AnswerOK(r, epoch) /\ Fits(m.type, "error")
    BY <1>1 DEF AnswerOK, Fits
<1> HIDE DEF r
<1>3. Answers(m, r, epoch')
    BY <1>1, <1>2 DEF Answers
<1>4. user'.st \in ServerStates /\ user'.col \in Collection \cup {NoCol}
    BY <1>1, ClosedTyped, Numbers
<1>5. epoch' \in Nat /\ epoch <= epoch' /\ UNCHANGED <<sess, syncs>>
    BY <1>1, Numbers DEF Served, cliVars
<1>6. Talk' /\ Protocol'
    BY <1>1, <1>3, <1>4, <1>5, HandleKeeps
<1>7. Data'
    BY <1>1, DataStays, FaultTyped DEF SyncInv, Data
<1>8. QED
    BY <1>6, <1>7 DEF SyncInv

(* An operation that leaves the collection open.                           *)
LEMMA OperateKeeps ==
    ASSUME SyncInv, NEW m \in net, NEW type \in Stateful, NEW col \in Collection,
           NEW st \in ServerStates, st.skey = user.st.skey, NEW r,
           Operate(m, type, col, st, r), Fits(type, r.type), AnswerOK(r, epoch)
    PROVE  SyncInv'
<1>1. /\ m.type = type /\ InSession(m) /\ user' = [st |-> st, col |-> col] /\ Answer(m, r)
      /\ UNCHANGED <<srv, torn, epoch, clk, faults>> /\ Served
    BY DEF Operate
<1>2. Answers(m, r, epoch')
    BY <1>1 DEF Answers
<1>3. Open(m) /\ user'.st \in ServerStates /\ user'.col \in Collection \cup {NoCol}
    BY <1>1, InSessionIs DEF Open
<1>4. epoch' \in Nat /\ epoch <= epoch' /\ UNCHANGED <<sess, syncs>>
    BY <1>1, Numbers DEF Served, cliVars
<1>5. Talk' /\ Protocol'
    BY <1>2, <1>3, <1>4, HandleKeeps
<1>6. Data'
    BY <1>1, DataStays DEF SyncInv, Data
<1>7. QED
    BY <1>5, <1>6 DEF SyncInv

LEMMA UsedState ==
    ASSUME SyncInv
    PROVE  /\ user.st \in ServerStates /\ user.st.server_usn \in Nat /\ user.st.client_usn \in Nat
           /\ user.st.ids \subseteq Objs
BY DEF SyncInv, Talk, ServerStates, Objs

LEMMA ApplyGravesKeeps ==
    ASSUME SyncInv, NEW m \in net, HandleApplyGraves(m)
    PROVE  SyncInv'
<1> DEFINE col == ApplyGraves(user.col, m.ids, user.st.server_usn)
           r == [type |-> "ok"]
<1>1. Operate(m, "applyGraves", col, user.st, r)
    BY DEF HandleApplyGraves
<1>2. user.col \in Collection
    BY <1>1, InSessionIs DEF Operate, Underway, Stateful
<1>3. Rows(SentRows(user.col, {}))
    BY <1>2, SentTyped
<1>4. col \in Collection
    BY <1>2, <1>3, UsedState, MergedTyped
<1>5. Fits("applyGraves", r.type) /\ AnswerOK(r, epoch) /\ "applyGraves" \in Stateful
    BY DEF Fits, AnswerOK, Stateful
<1> HIDE DEF col, r
<1>6. QED
    BY <1>1, <1>4, <1>5, UsedState, OperateKeeps

LEMMA ApplyChangesKeeps ==
    ASSUME SyncInv, NEW m \in net, HandleApplyChanges(m)
    PROVE  SyncInv'
<1> DEFINE merged == MergeUnchunked(user.col, m.rows)
           conf == IF m.conf = NoConf THEN merged.conf ELSE m.conf
           col == [merged EXCEPT !.conf = conf]
           sent == PendingRows(user.col, user.st.client_usn, Decks)
           r == [type |-> "changes", rows |-> SentRows(user.col, sent),
                 conf |-> IF user.st.client_is_newer THEN NoConf ELSE user.col.conf]
<1>1. Operate(m, "applyChanges", col, user.st, r)
    BY DEF HandleApplyChanges
<1>2. user.col \in Collection
    BY <1>1, InSessionIs DEF Operate, Underway, Stateful
<1>3. Rows(m.rows) /\ m.conf \in 0..MaxEdits \cup {NoConf}
    BY <1>1 DEF Operate, SyncInv, Talk, RequestOK
<1>4. merged \in Collection
    BY <1>2, <1>3, UsedState, MergedTyped
<1>5. col \in Collection
    <2> HIDE DEF merged
    <2>1. conf \in 0..MaxEdits
        BY <1>3, <1>4, Fields
    <2>2. QED
        BY <1>4, <2>1, Replaced
<1>6. Rows(SentRows(user.col, sent))
    <2>1. sent \in SUBSET Objs
        BY DEF PendingRows, Objs
    <2>2. QED
        BY <1>2, <2>1, SentTyped
<1>7. Fits("applyChanges", r.type) /\ AnswerOK(r, epoch) /\ "applyChanges" \in Stateful
    <2>1. user.col.conf \in 0..MaxEdits
        BY <1>2, Fields
    <2> HIDE DEF sent
    <2>2. QED
        BY <1>6, <2>1 DEF Fits, AnswerOK, Stateful
<1> HIDE DEF col, r
<1>8. QED
    BY <1>1, <1>5, <1>7, UsedState, OperateKeeps

LEMMA ChunkKeeps ==
    ASSUME SyncInv, NEW m \in net, HandleChunk(m)
    PROVE  SyncInv'
<1> DEFINE ids == IF user.st.have_ids THEN user.st.ids
                  ELSE PendingRows(user.col, user.st.client_usn, Chunked)
<1>1. ids \in SUBSET Chunked
    BY DEF PendingRows, SyncInv, Talk, ServerStates
<1> HIDE DEF ids
<1>2. PICK part \in ChunksOf(ids) :
         Operate(m, "chunk", user.col,
                 [user.st EXCEPT !.have_ids = TRUE, !.ids = ids \ part],
                 [type |-> "chunk", rows |-> SentRows(user.col, part), done |-> ChunkDone(part)])
    BY DEF HandleChunk, ids
<1> DEFINE st == [user.st EXCEPT !.have_ids = TRUE, !.ids = ids \ part]
           r == [type |-> "chunk", rows |-> SentRows(user.col, part), done |-> ChunkDone(part)]
<1>3. user.col \in Collection
    BY <1>2, InSessionIs DEF Operate, Underway, Stateful
<1>4. part \in SUBSET ids
    BY DEF ChunksOf
<1>5. Rows(SentRows(user.col, part))
    BY <1>1, <1>3, <1>4, SentTyped DEF Objs
<1>6. st \in ServerStates /\ st.skey = user.st.skey
    BY <1>1, UsedState DEF ServerStates
<1>7. Fits("chunk", r.type) /\ AnswerOK(r, epoch) /\ "chunk" \in Stateful
    BY <1>5 DEF Fits, AnswerOK, Stateful
<1>8. Operate(m, "chunk", user.col, st, r)
    BY <1>2
<1> HIDE DEF st, r
<1>9. QED
    BY <1>3, <1>6, <1>7, <1>8, OperateKeeps

LEMMA ApplyChunkKeeps ==
    ASSUME SyncInv, NEW m \in net, HandleApplyChunk(m)
    PROVE  SyncInv'
<1> DEFINE col == MergeChunk(user.col, m.rows, user.st.client_usn)
           r == [type |-> "ok"]
<1>1. Operate(m, "applyChunk", col, user.st, r)
    BY DEF HandleApplyChunk
<1>2. user.col \in Collection
    BY <1>1, InSessionIs DEF Operate, Underway, Stateful
<1>3. Rows(m.rows)
    BY <1>1 DEF Operate, SyncInv, Talk, RequestOK
<1>4. col \in Collection
    BY <1>2, <1>3, UsedState, MergedTyped
<1>5. Fits("applyChunk", r.type) /\ AnswerOK(r, epoch) /\ "applyChunk" \in Stateful
    BY DEF Fits, AnswerOK, Stateful
<1> HIDE DEF col, r
<1>6. QED
    BY <1>1, <1>4, <1>5, UsedState, OperateKeeps

LEMMA SanityKeeps ==
    ASSUME SyncInv, NEW m \in net, HandleSanity(m)
    PROVE  SyncInv'
<1> DEFINE good == ~HasPending(user.col) /\ m.counts = SanityCounts(user.col)
           col == IF good THEN user.col ELSE NoCol
           r == [type |-> "sanity", good |-> good]
<1>1. Operate(m, "sanity", col, user.st, r)
    BY DEF HandleSanity
<1>2. user.col \in Collection
    BY <1>1, InSessionIs DEF Operate, Underway, Stateful
<1>3. Fits("sanity", r.type) /\ AnswerOK(r, epoch) /\ "sanity" \in Stateful /\ (r.good <=> good)
    BY DEF Fits, AnswerOK, Stateful
<1>4. CASE good
    <2>1. col \in Collection
        BY <1>2, <1>4
    <2> HIDE DEF col, r
    <2>2. QED
        BY <1>1, <1>3, <2>1, UsedState, OperateKeeps
<1>5. CASE ~good
    <2>1. col = NoCol /\ SanityRefused(r)
        BY <1>3, <1>5 DEF SanityRefused
    <2> HIDE DEF col, r
    <2>2. /\ m.type = "sanity" /\ InSession(m) /\ Answer(m, r)
          /\ user' = [st |-> user.st, col |-> NoCol]
          /\ UNCHANGED <<srv, torn, epoch, clk, faults>> /\ Served
        BY <1>1, <2>1 DEF Operate
    <2>3. Refuses(m, r, epoch')
        BY <1>3, <2>1, <2>2, InSessionIs DEF Refuses, Answers, Underway, Stateful
    <2>4. Answers(m, r, epoch') /\ user'.st \in ServerStates /\ user'.col \in Collection \cup {NoCol}
        BY <2>2, <2>3, UsedState DEF Refuses
    <2>5. epoch' \in Nat /\ epoch <= epoch' /\ UNCHANGED <<sess, syncs>>
        BY <2>2, Numbers DEF Served, cliVars
    <2>6. Talk' /\ Protocol'
        BY <2>3, <2>4, <2>5, HandleKeeps
    <2>7. Data'
        BY <2>2, DataStays DEF SyncInv, Data
    <2>8. QED
        BY <2>6, <2>7 DEF SyncInv
<1>6. QED
    BY <1>4, <1>5

(* What the server commits, and then closes.                               *)
LEMMA CommitKeeps ==
    ASSUME SyncInv, NEW m \in net, NEW r, Answers(m, r, epoch') \/ Loses(m),
           user' = ClosedUser, srv' \in Collection, torn' \in BOOLEAN,
           epoch' \in {epoch, epoch + 1}, clk' \in {clk, clk + 1},
           faults' \in 0..MaxFaults, Served
    PROVE  SyncInv'
<1>1. user'.st \in ServerStates /\ user'.col \in Collection \cup {NoCol}
    BY ClosedTyped, Numbers
<1>2. epoch' \in Nat /\ epoch <= epoch' /\ clk' \in Nat /\ UNCHANGED <<sess, syncs>>
    BY Numbers DEF Served, cliVars
<1>3. Talk' /\ Protocol'
    BY <1>1, <1>2, HandleKeeps
<1>4. Data'
    BY <1>2, DataStays DEF SyncInv
<1>5. QED
    BY <1>3, <1>4 DEF SyncInv

LEMMA FinishKeeps ==
    ASSUME SyncInv, NEW m \in net, HandleFinish(m) \/ FinishAndStop(m)
    PROVE  SyncInv'
<1>1. user.col \in Collection /\ m.type = "finish"
    BY InSessionIs DEF HandleFinish, FinishAndStop, Underway, Stateful
<1>2. user.col.usn + 1 \in Nat /\ clk + 1 \in Nat /\ srv.mod \in Nat
    BY <1>1, Numbers, Fields
<1>3. CASE HandleFinish(m)
    <2> DEFINE r == [type |-> "finish", mod |-> clk + 1]
    <2>1. /\ Answer(m, r) /\ srv' = Finish(user.col, user.col.usn + 1, clk + 1)
          /\ torn' = FALSE /\ epoch' = epoch + 1 /\ clk' = clk + 1 /\ user' = ClosedUser
          /\ UNCHANGED faults /\ Served
        BY <1>3 DEF HandleFinish, Tick
    <2>2. Fits("finish", r.type) /\ AnswerOK(r, epoch')
        BY <1>2 DEF Fits, AnswerOK, Stateful
    <2> HIDE DEF r
    <2>3. srv' \in Collection
        BY <1>1, <1>2, <2>1, MovedTyped
    <2>4. faults' \in 0..MaxFaults
        BY <2>1 DEF SyncInv, Data
    <2>5. QED
        BY <1>1, <2>1, <2>2, <2>3, <2>4, CommitKeeps DEF Answers
<1>4. CASE FinishAndStop(m)
    <2>1. /\ Loses(m) /\ srv' = Finish(user.col, user.col.usn + 1, srv.mod)
          /\ torn' = TRUE /\ epoch' = epoch + 1 /\ clk' = clk + 1 /\ user' = ClosedUser
          /\ Fault /\ Served
        BY <1>4 DEF FinishAndStop, Tick, Loses
    <2>2. srv' \in Collection
        BY <1>1, <1>2, <2>1, MovedTyped
    <2>3. faults' \in 0..MaxFaults
        BY <2>1, FaultTyped
    <2>4. QED
        BY <2>1, <2>2, <2>3, CommitKeeps
<1>5. QED
    BY <1>3, <1>4

LEMMA AbortKeeps ==
    ASSUME SyncInv, NEW m \in net, HandleAbort(m)
    PROVE  SyncInv'
<1> DEFINE r == [type |-> "ok"]
<1>1. /\ Answer(m, r) /\ m.type = "abort" /\ user' = ClosedUser
      /\ UNCHANGED <<srv, torn, epoch, clk, faults>> /\ Served
    BY DEF HandleAbort
<1>2. Fits("abort", r.type) /\ AnswerOK(r, epoch')
    BY DEF Fits, AnswerOK, Stateful
<1> HIDE DEF r
<1>3. srv' \in Collection /\ torn' \in BOOLEAN /\ faults' \in 0..MaxFaults
    BY <1>1 DEF SyncInv, Data
<1>4. QED
    BY <1>1, <1>2, <1>3, CommitKeeps DEF Answers

LEMMA UploadKeeps ==
    ASSUME SyncInv, NEW m \in net, HandleUpload(m)
    PROVE  SyncInv'
<1> DEFINE r == [type |-> "ok"]
<1>1. /\ Answer(m, r) /\ m.type = "upload" /\ user' = ClosedUser
      /\ srv' = m.col /\ torn' = FALSE /\ epoch' = epoch + 1
      /\ UNCHANGED <<clk, faults>> /\ Served
    BY DEF HandleUpload
<1>2. Fits("upload", r.type) /\ AnswerOK(r, epoch')
    BY DEF Fits, AnswerOK, Stateful
<1> HIDE DEF r
<1>3. srv' \in Collection /\ torn' \in BOOLEAN /\ faults' \in 0..MaxFaults
    BY <1>1 DEF SyncInv, Data, Talk, RequestOK
<1>4. QED
    BY <1>1, <1>2, <1>3, CommitKeeps DEF Answers

LEMMA DownloadKeeps ==
    ASSUME SyncInv, NEW m \in net, HandleDownload(m)
    PROVE  SyncInv'
<1> DEFINE r == [type |-> "download", col |-> BeforeDownload(srv, clk + 1)]
<1>1. /\ Answer(m, r) /\ m.type = "download" /\ user' = ClosedUser
      /\ srv' = BeforeDownload(srv, clk + 1) /\ torn' = FALSE /\ epoch' = epoch + 1
      /\ clk' = clk + 1 /\ UNCHANGED faults /\ Served
    BY DEF HandleDownload, Tick
<1>2. BeforeDownload(srv, clk + 1) \in Collection
    <2>1. clk + 1 \in Nat /\ srv \in Collection
        BY Numbers DEF SyncInv, Data
    <2>2. QED
        BY <2>1, MovedTyped
<1>3. Fits("download", r.type) /\ AnswerOK(r, epoch')
    BY <1>2 DEF Fits, AnswerOK, Stateful
<1> HIDE DEF r
<1>4. torn' \in BOOLEAN /\ faults' \in 0..MaxFaults
    BY <1>1 DEF SyncInv, Data
<1>5. QED
    BY <1>1, <1>2, <1>3, <1>4, CommitKeeps DEF Answers

LEMMA RestartKeeps ==
    ASSUME SyncInv, ServerRestart
    PROVE  SyncInv'
<1>1. /\ user' = ClosedUser /\ Fault /\ UNCHANGED <<srv, torn, epoch, net, resp, clk>> /\ Served
    BY DEF ServerRestart
<1>2. UNCHANGED <<sess, syncs>>
    BY <1>1 DEF Served, cliVars
<1>3. Talk'
    <2>1. user'.st \in ServerStates' /\ user'.col \in Collection \cup {NoCol}
        BY <1>1, <1>2, ClosedTyped, Numbers DEF ServerStates
    <2>2. QED
        BY <1>1, <1>2, <2>1 DEF SyncInv, Talk
<1>4. OneRequest' /\ RequestAwaited' /\ KeysApart' /\ NotAnswered'
    BY <1>1, <1>2
        DEF SyncInv, Protocol, OneRequest, RequestAwaited, KeysApart, NotAnswered
<1>5. Closed'
    BY <1>1 DEF Closed
<1>6. Data'
    BY <1>1, DataStays, FaultTyped DEF SyncInv, Data
<1>7. QED
    BY <1>3, <1>4, <1>5, <1>6 DEF SyncInv, Protocol

LEMMA HandlersKeep ==
    ASSUME SyncInv, NEW m \in net, Handle(m) \/ FailOperation(m) \/ FinishAndStop(m)
    PROVE  SyncInv'
BY MetaKeeps, StartKeeps, RejectKeeps, FailKeeps, ApplyGravesKeeps, ApplyChangesKeeps,
   ChunkKeeps, ApplyChunkKeeps, SanityKeeps, FinishKeeps, AbortKeeps, UploadKeeps,
   DownloadKeeps DEF Handle

-----------------------------------------------------------------------------
(* The client's steps.                                                     *)

LEMMA DataMoves ==
    ASSUME Data, UNCHANGED srvVars, cli' \in [Clients -> Collection], clk' \in {clk, clk + 1},
           edits' \in 0..MaxEdits, born' \in [Objs -> 0..MaxEdits],
           syncs' \in 0..MaxSyncs, faults' \in 0..MaxFaults
    PROVE  Data'
BY DEF Data, srvVars

LEMMA SessionIs ==
    ASSUME SyncInv, NEW c \in Clients, ~Idle(c)
    PROVE  /\ SessionShape(sess[c], syncs, epoch)
           /\ Awaits(c, sess[c], resp[c], syncs, epoch)
           /\ sess[c].await.type \in Keyed => sess[c].skey # 0
           /\ sess[c].skey \in 0..syncs
<1>1. NoSession.await = NoReq
    BY NoSessionFields, Numbers
<1>2. sess[c] # NoSession
    BY <1>1 DEF Idle
<1>3. SessionShape(sess[c], syncs, epoch) /\ Awaits(c, sess[c], resp[c], syncs, epoch)
    BY <1>2 DEF SyncInv, Talk, SessionOK
<1>4. sess[c].skey \in 0..syncs
    BY <1>3, SessionFields
<1>5. QED
    BY <1>3, <1>4 DEF Awaits

LEMMA ReceivedIs ==
    ASSUME SyncInv, NEW c \in Clients, NEW type, type # "none", Received(c, type)
    PROVE  /\ SessionShape(sess[c], syncs, epoch)
           /\ Awaits(c, sess[c], resp[c], syncs, epoch)
           /\ sess[c].await.type \in Keyed => sess[c].skey # 0
           /\ sess[c].skey \in 0..syncs
           /\ resp[c] # NoResp /\ resp[c].type = type
           /\ Fits(sess[c].await.type, type) /\ AnswerOK(resp[c], epoch)
<1>1. ~Idle(c) /\ resp[c].type = type
    BY DEF Received
<1>2. resp[c] # NoResp
    BY <1>1, NoSessionFields, Numbers
<1>3. QED
    BY <1>1, <1>2, SessionIs DEF Awaits

LEMMA EndingKeeps ==
    ASSUME SyncInv, NEW c \in Clients, Ends(c), resp' = [resp EXCEPT ![c] = NoResp],
           UNCHANGED <<srvVars, edits, born>>, cli' \in [Clients -> Collection],
           clk' \in {clk, clk + 1}, faults' \in 0..MaxFaults
    PROVE  SyncInv'
<1>1. UNCHANGED <<user, epoch>>
    BY DEF srvVars
<1>2. Talk' /\ Protocol'
    BY <1>1, EndKeeps
<1>3. Data'
    BY DataMoves DEF SyncInv, Data, Ends
<1>4. QED
    BY <1>2, <1>3 DEF SyncInv

LEMMA ContinueKeeps ==
    ASSUME SyncInv, NEW c \in Clients, NEW s, NEW m, Continue(c, s, m),
           SessionShape(s, syncs, epoch), RequestOK(m, syncs), m.from = c,
           m.type \in Underway, m.skey = s.skey, s.skey = sess[c].skey, s.work \in Collection,
           resp[c] # NoResp, sess[c].await.type # "abort", ~SanityRefused(resp[c])
    PROVE  SyncInv'
<1>1. /\ Says(c, s, m) /\ resp' = [resp EXCEPT ![c] = NoResp]
      /\ UNCHANGED <<srvVars, edits, born, faults, cli, clk, syncs>>
    BY DEF Continue, Send, Says, Heard
<1>2. syncs' = syncs /\ UNCHANGED <<user, epoch>>
    BY <1>1 DEF srvVars
<1>3. m.type \in Keyed /\ m.skey # 0
    BY DEF Keyed, RequestOK
<1>4. Proceeds(c, s, m)
    BY <1>1, <1>2 DEF Proceeds
<1>5. Talk' /\ Protocol'
    BY <1>1, <1>2, <1>3, <1>4, SayKeeps
<1>6. Data'
    BY <1>1, DataMoves DEF SyncInv, Data
<1>7. QED
    BY <1>5, <1>6 DEF SyncInv

LEMMA RollBackKeeps ==
    ASSUME SyncInv, NEW c \in Clients, NEW bad \in BOOLEAN, RollBack(c, bad), sess[c].skey # 0,
           sess[c].skey \in 0..syncs, resp' = [resp EXCEPT ![c] = NoResp],
           UNCHANGED <<srvVars, edits, born, cli, clk, syncs>>, faults' \in 0..MaxFaults
    PROVE  SyncInv'
<1> DEFINE s == [NoSession EXCEPT !.skey = sess[c].skey, !.bad = bad]
           m == Request(c, sess[c], "abort")
<1>1. Says(c, s, m)
    BY DEF RollBack, Send, Says
<1>2. m.type = "abort" /\ m.from = c /\ m.skey = sess[c].skey
    BY DEF Request
<1>3. "abort" \in Keyed /\ "abort" \notin Underway
    BY DEF Keyed, Underway, Stateful
<1>4. RequestOK(m, syncs)
    BY <1>2, <1>3 DEF RequestOK
<1>5. SessionShape(s, syncs, epoch) /\ s.skey = sess[c].skey
    BY Numbers, Fresh
<1> HIDE DEF s, m
<1>6. syncs' = syncs /\ UNCHANGED <<user, epoch>>
    BY DEF srvVars
<1>7. Aborts(c, s, m)
    BY <1>1, <1>2, <1>5, <1>6 DEF Aborts
<1>8. Talk' /\ Protocol'
    BY <1>2, <1>3, <1>4, <1>5, <1>6, <1>7, SayKeeps
<1>9. Data'
    BY DataMoves DEF SyncInv, Data
<1>10. QED
    BY <1>8, <1>9 DEF SyncInv

LEMMA SyncKeeps ==
    ASSUME SyncInv, NEW c \in Clients, Sync(c)
    PROVE  SyncInv'
<1> DEFINE s == [NoSession EXCEPT !.skey = syncs + 1]
           m == Request(c, s, "meta")
<1>1. /\ Idle(c) /\ syncs < MaxSyncs /\ syncs' = syncs + 1 /\ Says(c, s, m)
      /\ UNCHANGED <<srvVars, cli, resp, clk, edits, born, faults>>
    BY DEF Sync, Send, Says
<1>2. SessionShape(s, syncs', epoch) /\ s.skey = syncs + 1
    <2>1. syncs + 1 \in 0..syncs' /\ syncs' \in Nat /\ epoch \in Nat
        BY <1>1, Numbers
    <2>2. QED
        BY <2>1, Fresh
<1>3. m.type = "meta" /\ m.from = c /\ m.skey = syncs + 1
    BY <1>2 DEF Request
<1>4. "meta" \in Keyed /\ "meta" \notin Underway
    BY DEF Keyed, Underway, Stateful
<1>5. RequestOK(m, syncs') /\ syncs + 1 # 0
    BY <1>1, <1>3, <1>4, Numbers DEF RequestOK
<1> HIDE DEF s, m
<1>6. Begins(c, s, m)
    BY <1>1, <1>2, <1>3 DEF Begins
<1>7. resp' = [resp EXCEPT ![c] = NoResp]
    <2>1. resp[c] = NoResp
        <3>1. ~Awaits(c, sess[c], resp[c], syncs, epoch)
            BY <1>1 DEF Idle, NoReq, Awaits, RequestOK, Keyed, Underway, Stateful
        <3>2. QED
            BY <3>1 DEF SyncInv, Talk, SessionOK
    <2>2. QED
        BY <1>1, <2>1 DEF SyncInv, Talk
<1>8. UNCHANGED <<user, epoch>>
    BY <1>1 DEF srvVars
<1>9. Talk' /\ Protocol'
    BY <1>2, <1>3, <1>4, <1>5, <1>6, <1>7, <1>8, SayKeeps
<1>10. Data'
    BY <1>1, SyncBounds, DataMoves DEF SyncInv, Data
<1>11. QED
    BY <1>9, <1>10 DEF SyncInv

(* What the steps assign to the fields of a session.                       *)
LEMMA AssignedWork ==
    ASSUME NEW s, NEW last, NEW now, SessionShape(s, last, now), NEW work \in Collection
    PROVE  LET t == [s EXCEPT !.work = work]
           IN  /\ SessionShape(t, last, now) /\ t.work = work /\ t.skey = s.skey
               /\ t.await = s.await /\ t.todo = s.todo /\ t.remote = s.remote
               /\ t.server_usn = s.server_usn /\ t.local_is_newer = s.local_is_newer
               /\ t.epoch = s.epoch /\ t.last = s.last /\ t.bad = s.bad
BY DEF SessionShape

LEMMA AssignedTodo ==
    ASSUME NEW s, NEW last, NEW now, SessionShape(s, last, now), NEW todo \in SUBSET Objs
    PROVE  LET t == [s EXCEPT !.todo = todo]
           IN  /\ SessionShape(t, last, now) /\ t.todo = todo /\ t.skey = s.skey
               /\ t.await = s.await /\ t.work = s.work /\ t.remote = s.remote
               /\ t.server_usn = s.server_usn /\ t.local_is_newer = s.local_is_newer
               /\ t.epoch = s.epoch /\ t.last = s.last /\ t.bad = s.bad
BY DEF SessionShape

LEMMA ClientData ==
    ASSUME SyncInv, NEW c \in Clients
    PROVE  /\ cli[c] \in Collection
           /\ \A col \in Collection : [cli EXCEPT ![c] = col] \in [Clients -> Collection]
BY DEF SyncInv, Data

(* Steps that end a sync.                                                  *)
LEMMA EndingsKeep ==
    ASSUME SyncInv, NEW c \in Clients,
           \/ NothingToSync(c) \/ PostponeFullSync(c) \/ UploadDone(c) \/ DownloadDone(c)
           \/ SessionFinished(c) \/ Aborted(c)
    PROVE  SyncInv'
<1>1. EndSession(c) => (syncs' = syncs => Ends(c))
    BY DEF EndSession, Ends
<1>2. Heard(c) => /\ resp' = [resp EXCEPT ![c] = NoResp]
                  /\ UNCHANGED <<srvVars, edits, born>> /\ faults' \in 0..MaxFaults
    BY DEF Heard, SyncInv, Data
<1>3. cli \in [Clients -> Collection]
    BY DEF SyncInv, Data
<1>4. CASE NothingToSync(c)
    BY <1>1, <1>2, <1>3, <1>4, EndingKeeps DEF NothingToSync
<1>5. CASE PostponeFullSync(c)
    BY <1>1, <1>2, <1>3, <1>5, EndingKeeps DEF PostponeFullSync
<1>6. CASE UploadDone(c)
    BY <1>1, <1>2, <1>3, <1>6, EndingKeeps DEF UploadDone
<1>7. CASE DownloadDone(c)
    <2>1. resp[c].col \in Collection
        BY <1>7, ReceivedIs DEF DownloadDone, AnswerOK
    <2>2. QED
        BY <1>1, <1>2, <1>7, <2>1, ClientData, EndingKeeps DEF DownloadDone
<1>8. CASE SessionFinished(c)
    <2>1. /\ SessionShape(sess[c], syncs, epoch) /\ sess[c].work \in Collection
          /\ resp[c].mod \in Nat
        BY <1>8, ReceivedIs DEF SessionFinished, AnswerOK, Awaits, Fits, Underway, Stateful
    <2>2. sess[c].server_usn + 1 \in Nat
        BY <2>1, SessionFields
    <2>3. FinishedWork(c) \in Collection
        BY <2>1, <2>2, MovedTyped DEF FinishedWork
    <2>4. QED
        BY <1>1, <1>2, <1>8, <2>3, ClientData, EndingKeeps DEF SessionFinished
<1>9. CASE Aborted(c)
    <2>1. /\ EndSession(c) /\ Heard(c) /\ syncs' = syncs
          /\ \/ clk' = clk + 1 /\ cli' = [cli EXCEPT ![c] = SetSchemaModified(@, clk + 1)]
             \/ UNCHANGED <<cli, clk>>
        BY <1>9 DEF Aborted, EndAbort, Tick
    <2>2. cli' \in [Clients -> Collection] /\ clk' \in {clk, clk + 1}
        <3>1. SetSchemaModified(cli[c], clk + 1) \in Collection
            <4>1. clk + 1 \in Nat /\ cli[c] \in Collection
                BY ClientData, Numbers
            <4>2. QED
                BY <4>1, Replaced DEF SetSchemaModified
        <3>2. QED
            BY <1>3, <2>1, <3>1, ClientData
    <2>3. QED
        BY <1>1, <1>2, <2>1, <2>2, EndingKeeps
<1>10. QED
    BY <1>4, <1>5, <1>6, <1>7, <1>8, <1>9

LEMMA FullSyncKeeps ==
    ASSUME SyncInv, NEW c \in Clients, UploadCollection(c) \/ DownloadCollection(c)
    PROVE  SyncInv'
<1>1. Received(c, "meta")
    BY DEF UploadCollection, DownloadCollection, FullSyncRequired
<1>2. sess[c].skey \in 0..syncs
    BY <1>1, ReceivedIs
<1>3. /\ SessionShape(NoSession, syncs, epoch) /\ NoSession.skey = 0
      /\ syncs \in Nat /\ epoch \in Nat
    BY Numbers, NoSessionFields
<1>4. /\ "upload" \notin Keyed /\ "download" \notin Keyed
      /\ "upload" \notin Underway /\ "download" \notin Underway
    BY DEF Keyed, Underway, Stateful
<1>5. ASSUME NEW m, m.type \in {"upload", "download"}, RequestOK(m, syncs), m.from = c,
             Send(c, NoSession, m), Heard(c), syncs' = syncs,
             cli' \in [Clients -> Collection], clk' \in {clk, clk + 1}
      PROVE  SyncInv'
    <2>1. Replaces(c, NoSession, m)
        BY <1>3, <1>5 DEF Replaces, Says, Send
    <2>2. resp' = [resp EXCEPT ![c] = NoResp] /\ UNCHANGED <<srvVars, edits, born, faults>>
        BY <1>5 DEF Heard
    <2>3. UNCHANGED <<user, epoch>>
        BY <2>2 DEF srvVars
    <2>4. m.type \notin Keyed /\ m.type \notin Underway
        BY <1>4, <1>5
    <2>5. Talk' /\ Protocol'
        BY <1>3, <1>5, <2>1, <2>2, <2>3, <2>4, SayKeeps
    <2>6. Data'
        BY <1>5, <2>2, DataMoves DEF SyncInv, Data
    <2>7. QED
        BY <2>5, <2>6 DEF SyncInv
<1>6. CASE UploadCollection(c)
    <2> DEFINE col == BeforeUpload(cli[c], clk + 1)
               m == [type |-> "upload", from |-> c, skey |-> sess[c].skey, col |-> col]
    <2>1. /\ clk' = clk + 1 /\ cli' = [cli EXCEPT ![c] = col] /\ Send(c, NoSession, m)
          /\ Heard(c) /\ syncs' = syncs
        BY <1>6 DEF UploadCollection, Tick
    <2>2. col \in Collection
        <3>1. clk + 1 \in Nat
            BY Numbers
        <3>2. QED
            BY <3>1, ClientData, MovedTyped
    <2> HIDE DEF col
    <2>3. cli' \in [Clients -> Collection]
        BY <2>1, <2>2, ClientData
    <2>4. m.type = "upload" /\ m.from = c /\ RequestOK(m, syncs)
        BY <1>2, <1>4, <2>2 DEF RequestOK
    <2> HIDE DEF m
    <2>5. QED
        BY <1>5, <2>1, <2>3, <2>4
<1>7. CASE DownloadCollection(c)
    <2> DEFINE m == Request(c, sess[c], "download")
    <2>1. Send(c, NoSession, m) /\ Heard(c) /\ UNCHANGED <<cli, clk, syncs>>
        BY <1>7 DEF DownloadCollection
    <2>2. m.type = "download" /\ m.from = c /\ RequestOK(m, syncs)
        BY <1>2, <1>4 DEF RequestOK, Request
    <2> HIDE DEF m
    <2>3. cli' \in [Clients -> Collection]
        BY <2>1 DEF SyncInv, Data
    <2>4. QED
        BY <1>5, <2>1, <2>2, <2>3
<1>8. QED
    BY <1>6, <1>7

(* Steps inside a session.                                                 *)
LEMMA UnderwayTypes ==
    /\ Stateful \subseteq Underway /\ Underway \subseteq Keyed /\ "start" \in Underway
    /\ "applyGraves" \in Stateful /\ "applyChanges" \in Stateful /\ "chunk" \in Stateful
    /\ "applyChunk" \in Stateful /\ "sanity" \in Stateful /\ "finish" \in Stateful
    /\ "meta" \in Keyed /\ "abort" \in Keyed /\ "meta" \notin Underway /\ "abort" \notin Underway
    /\ "upload" \notin Keyed /\ "download" \notin Keyed
BY DEF Keyed, Underway, Stateful

LEMMA StartingKeeps ==
    ASSUME SyncInv, NEW c \in Clients, StartSession(c)
    PROVE  SyncInv'
<1> DEFINE newer == LocalIsNewer(cli[c], resp[c].mod)
           s == [sess[c] EXCEPT !.work           = cli[c],
                                !.local_is_newer = newer,
                                !.server_usn     = resp[c].usn,
                                !.epoch          = resp[c].epoch]
           m == [type |-> "start", from |-> c, skey |-> s.skey,
                 client_usn |-> cli[c].usn, local_is_newer |-> s.local_is_newer,
                 epoch |-> s.epoch]
<1>1. Received(c, "meta") /\ Continue(c, s, m)
    BY DEF StartSession, Continue
<1>2. /\ SessionShape(sess[c], syncs, epoch) /\ sess[c].await.type = "meta"
      /\ sess[c].skey # 0 /\ sess[c].skey \in 0..syncs
      /\ resp[c] # NoResp /\ resp[c].type = "meta"
      /\ resp[c].mod \in Nat /\ resp[c].usn \in Nat /\ resp[c].epoch \in 0..epoch
    BY <1>1, ReceivedIs, UnderwayTypes DEF Fits, AnswerOK
<1>3. cli[c] \in Collection /\ cli[c].usn \in Nat
    BY ClientData, Fields
<1>4. newer \in BOOLEAN
    BY DEF LocalIsNewer
<1> HIDE DEF newer
<1>5. /\ SessionShape(s, syncs, epoch) /\ s.work = cli[c] /\ s.skey = sess[c].skey
      /\ s.local_is_newer \in BOOLEAN
    <2>1. resp[c].usn \in Nat /\ resp[c].epoch \in 0..epoch
        BY <1>2
    <2>2. QED
        BY <1>2, <1>3, <1>4, <2>1 DEF SessionShape
<1> HIDE DEF s
<1>6. m.type = "start" /\ m.from = c /\ m.skey = s.skey /\ RequestOK(m, syncs)
    BY <1>2, <1>3, <1>5, UnderwayTypes DEF RequestOK, Stateful
<1> HIDE DEF m
<1>7. QED
    BY <1>1, <1>2, <1>3, <1>5, <1>6, UnderwayTypes, ContinueKeeps DEF SanityRefused

(* A step that an answer lets a client take, within a session.             *)
LEMMA GoesOn ==
    ASSUME SyncInv, NEW c \in Clients, resp[c] # NoResp, NEW s, NEW m, Continue(c, s, m),
           SessionShape(s, syncs, epoch), s.skey = sess[c].skey, s.skey # 0,
           s.work \in Collection, m.type \in Stateful, RequestOK(m, syncs), m.from = c,
           m.skey = s.skey, sess[c].await.type \in Underway, ~SanityRefused(resp[c])
    PROVE  SyncInv'
BY UnderwayTypes, ContinueKeeps

LEMMA SendDeletionsKeeps ==
    ASSUME SyncInv, NEW c \in Clients, resp[c] # NoResp, NEW s, SendDeletions(c, s),
           SessionShape(s, syncs, epoch), s.skey = sess[c].skey, s.skey # 0,
           s.work \in Collection, sess[c].await.type \in Underway, ~SanityRefused(resp[c])
    PROVE  SyncInv'
<1>1. s.skey \in 0..syncs /\ s.todo \subseteq Objs /\ s.server_usn \in Nat
    BY SessionFields
<1>2. CASE SendGraves(c, s)
    <2>1. PICK part \in kSubset(Min({ChunkSize, Cardinality(s.todo)}), s.todo) :
             Continue(c, [s EXCEPT !.todo = @ \ part],
                      [type |-> "applyGraves", from |-> c, skey |-> s.skey, ids |-> part])
        BY <1>2 DEF SendGraves
    <2> DEFINE t == [s EXCEPT !.todo = @ \ part]
               m == [type |-> "applyGraves", from |-> c, skey |-> s.skey, ids |-> part]
    <2>2. SessionShape(t, syncs, epoch) /\ t.skey = s.skey /\ t.work = s.work
        <3>1. s.todo \ part \in SUBSET Objs
            BY <1>1
        <3>2. QED
            BY <3>1, AssignedTodo
    <2>3. /\ m.type = "applyGraves" /\ m.from = c /\ m.skey = s.skey
          /\ RequestOK(m, syncs)
        BY <1>1, UnderwayTypes DEF RequestOK
    <2>4. Continue(c, t, m)
        BY <2>1
    <2> HIDE DEF t, m
    <2>5. QED
        BY <2>2, <2>3, <2>4, UnderwayTypes, GoesOn
<1>3. CASE SendChanges(c, s)
    <2> DEFINE deleted == ApplyGraves(s.work, s.remote, s.server_usn)
               sent == PendingRows(deleted, PendingUsn, Decks)
               stamped == StampRows(deleted, sent, s.server_usn)
               t == [s EXCEPT !.work = stamped]
               m == [type |-> "applyChanges", from |-> c, skey |-> s.skey,
                     rows |-> SentRows(stamped, sent),
                     conf |-> IF s.local_is_newer THEN stamped.conf ELSE NoConf]
    <2>1. Continue(c, t, m)
        BY <1>3 DEF SendChanges
    <2>2. Rows(SentRows(s.work, {}))
        BY SentTyped
    <2>3. deleted \in Collection
        BY <1>1, <2>2, MergedTyped
    <2>4. sent \in SUBSET Objs
        BY DEF PendingRows, Objs
    <2> HIDE DEF deleted, sent
    <2>5. stamped \in Collection
        BY <1>1, <2>2, <2>3, MergedTyped
    <2> HIDE DEF stamped
    <2>6. SessionShape(t, syncs, epoch) /\ t.skey = s.skey /\ t.work = stamped
        BY <2>5, AssignedWork
    <2>7. /\ m.type = "applyChanges" /\ m.from = c /\ m.skey = s.skey
          /\ RequestOK(m, syncs)
        <3>1. Rows(SentRows(stamped, sent)) /\ stamped.conf \in 0..MaxEdits
            BY <2>4, <2>5, SentTyped, Fields
        <3>2. QED
            BY <1>1, <3>1, UnderwayTypes DEF RequestOK
    <2> HIDE DEF t, m
    <2>8. QED
        BY <2>1, <2>5, <2>6, <2>7, UnderwayTypes, GoesOn
<1>4. QED
    BY <1>2, <1>3 DEF SendDeletions

LEMMA SessionStartedKeeps ==
    ASSUME SyncInv, NEW c \in Clients, SessionStarted(c)
    PROVE  SyncInv'
<1> DEFINE todo == PendingGraves(sess[c].work, PendingUsn)
           work == StampGraves(sess[c].work, sess[c].server_usn)
           remote == resp[c].ids
           s == [sess[c] EXCEPT !.todo = todo, !.work = work, !.remote = remote]
<1>1. Received(c, "graves") /\ SendDeletions(c, s)
    BY DEF SessionStarted
<1>2. /\ SessionShape(sess[c], syncs, epoch) /\ sess[c].await.type = "start"
      /\ sess[c].skey # 0 /\ resp[c] # NoResp /\ resp[c].type = "graves"
      /\ remote \in SUBSET Objs /\ sess[c].work \in Collection
    BY <1>1, ReceivedIs, UnderwayTypes DEF Fits, AnswerOK, Awaits
<1>3. work \in Collection
    <2>1. sess[c].server_usn \in Nat /\ Rows(SentRows(sess[c].work, {}))
        BY <1>2, SessionFields, SentTyped
    <2>2. QED
        BY <1>2, <2>1, MergedTyped
<1>4. todo \in SUBSET Objs
    BY DEF PendingGraves
<1> HIDE DEF todo, work, remote
<1>5. SessionShape(s, syncs, epoch) /\ s.skey = sess[c].skey /\ s.work = work
    BY <1>2, <1>3, <1>4 DEF SessionShape
<1> HIDE DEF s
<1>6. QED
    BY <1>1, <1>2, <1>3, <1>5, UnderwayTypes, SendDeletionsKeeps DEF SanityRefused

LEMMA GravesAppliedKeeps ==
    ASSUME SyncInv, NEW c \in Clients, GravesApplied(c)
    PROVE  SyncInv'
<1>1. /\ Received(c, "ok") /\ sess[c].await.type = "applyGraves"
      /\ SendDeletions(c, sess[c])
    BY DEF GravesApplied
<1>2. /\ SessionShape(sess[c], syncs, epoch) /\ sess[c].skey # 0 /\ resp[c] # NoResp
      /\ resp[c].type = "ok" /\ sess[c].work \in Collection
    BY <1>1, ReceivedIs, UnderwayTypes DEF Awaits
<1>3. QED
    BY <1>1, <1>2, UnderwayTypes, SendDeletionsKeeps DEF SanityRefused

LEMMA RequestTyped ==
    ASSUME SyncInv, NEW c \in Clients, NEW s, SessionShape(s, syncs, epoch), s.skey # 0
    PROVE  LET m == Request(c, s, "chunk")
           IN  m.type = "chunk" /\ m.from = c /\ m.skey = s.skey /\ RequestOK(m, syncs)
<1>1. s.skey \in 0..syncs
    BY SessionFields
<1>2. QED
    BY <1>1, UnderwayTypes DEF Request, RequestOK

LEMMA ReceiveChangesKeeps ==
    ASSUME SyncInv, NEW c \in Clients, ReceiveChanges(c)
    PROVE  SyncInv'
<1> DEFINE merged == MergeUnchunked(sess[c].work, resp[c].rows)
           conf == IF resp[c].conf = NoConf THEN merged.conf ELSE resp[c].conf
           work == [merged EXCEPT !.conf = conf]
           s == [sess[c] EXCEPT !.work = work]
           m == Request(c, sess[c], "chunk")
<1>1. Received(c, "changes") /\ Continue(c, s, m)
    BY DEF ReceiveChanges
<1>2. /\ SessionShape(sess[c], syncs, epoch) /\ sess[c].await.type = "applyChanges"
      /\ sess[c].skey # 0 /\ resp[c] # NoResp /\ resp[c].type = "changes"
      /\ Rows(resp[c].rows) /\ resp[c].conf \in 0..MaxEdits \cup {NoConf}
      /\ sess[c].work \in Collection
    BY <1>1, ReceivedIs, UnderwayTypes DEF Fits, AnswerOK, Awaits
<1>3. merged \in Collection
    <2>1. sess[c].server_usn \in Nat
        BY <1>2, SessionFields
    <2>2. QED
        BY <1>2, <2>1, MergedTyped
<1>4. work \in Collection
    <2> HIDE DEF merged
    <2>1. conf \in 0..MaxEdits
        BY <1>2, <1>3, Fields
    <2>2. QED
        BY <1>3, <2>1, Replaced
<1> HIDE DEF work
<1>5. SessionShape(s, syncs, epoch) /\ s.skey = sess[c].skey /\ s.work = work
    BY <1>2, <1>4, AssignedWork
<1>6. m.type = "chunk" /\ m.from = c /\ m.skey = sess[c].skey /\ RequestOK(m, syncs)
    BY <1>2, RequestTyped
<1> HIDE DEF s, m
<1>7. QED
    BY <1>1, <1>2, <1>4, <1>5, <1>6, UnderwayTypes, GoesOn DEF SanityRefused

LEMMA SendChunkKeeps ==
    ASSUME SyncInv, NEW c \in Clients, resp[c] # NoResp, NEW s, SendChunk(c, s),
           SessionShape(s, syncs, epoch), s.skey = sess[c].skey, s.skey # 0,
           s.work \in Collection, sess[c].await.type \in Underway, ~SanityRefused(resp[c])
    PROVE  SyncInv'
<1>1. s.skey \in 0..syncs /\ s.todo \subseteq Objs /\ s.server_usn \in Nat
    BY SessionFields
<1>2. PICK part \in ChunksOf(s.todo) :
         LET stamped == StampRows(s.work, part, s.server_usn)
         IN  Continue(c, [s EXCEPT !.work = stamped, !.todo = @ \ part,
                                   !.last = ChunkDone(part)],
                      [type |-> "applyChunk", from |-> c, skey |-> s.skey,
                       rows |-> SentRows(stamped, part)])
    BY DEF SendChunk
<1> DEFINE stamped == StampRows(s.work, part, s.server_usn)
           todo == s.todo \ part
           last == ChunkDone(part)
           t == [s EXCEPT !.work = stamped, !.todo = todo, !.last = last]
           m == [type |-> "applyChunk", from |-> c, skey |-> s.skey,
                 rows |-> SentRows(stamped, part)]
<1>3. Continue(c, t, m)
    BY <1>2
<1>4. part \in SUBSET Objs /\ todo \in SUBSET Objs /\ last \in BOOLEAN
    BY <1>1 DEF ChunksOf, ChunkDone
<1>5. stamped \in Collection
    <2>1. Rows(SentRows(s.work, {}))
        BY SentTyped
    <2>2. QED
        BY <1>1, <2>1, MergedTyped
<1> HIDE DEF stamped, todo, last
<1>6. SessionShape(t, syncs, epoch) /\ t.skey = s.skey /\ t.work = stamped
    BY <1>4, <1>5 DEF SessionShape
<1>7. Rows(SentRows(stamped, part))
    BY <1>4, <1>5, SentTyped
<1>8. m.type = "applyChunk" /\ m.from = c /\ m.skey = s.skey /\ RequestOK(m, syncs)
    BY <1>1, <1>7, UnderwayTypes DEF RequestOK
<1> HIDE DEF t, m
<1>9. QED
    BY <1>3, <1>5, <1>6, <1>8, UnderwayTypes, GoesOn

LEMMA ReceiveChunkKeeps ==
    ASSUME SyncInv, NEW c \in Clients, ReceiveChunk(c)
    PROVE  SyncInv'
<1> DEFINE work == MergeChunk(sess[c].work, resp[c].rows, PendingUsn)
           s == [sess[c] EXCEPT !.work = work]
           todo == PendingRows(s.work, PendingUsn, Chunked)
<1>1. /\ Received(c, "chunk")
      /\ \/ SendChunk(c, [s EXCEPT !.todo = todo])
         \/ Continue(c, s, Request(c, s, "chunk"))
    BY DEF ReceiveChunk
<1>2. /\ SessionShape(sess[c], syncs, epoch) /\ sess[c].await.type = "chunk"
      /\ sess[c].skey # 0 /\ resp[c] # NoResp /\ resp[c].type = "chunk"
      /\ Rows(resp[c].rows) /\ sess[c].work \in Collection
    BY <1>1, ReceivedIs, UnderwayTypes DEF Fits, AnswerOK, Awaits
<1>3. work \in Collection
    <2>1. PendingUsn \in Int
        BY DEF PendingUsn
    <2>2. QED
        BY <1>2, <2>1, MergedTyped
<1>4. todo \in SUBSET Objs
    BY DEF PendingRows, Objs
<1> HIDE DEF work
<1>5. SessionShape(s, syncs, epoch) /\ s.skey = sess[c].skey /\ s.work = work
    BY <1>2, <1>3, AssignedWork
<1> HIDE DEF s
<1>6. ~SanityRefused(resp[c])
    BY <1>2 DEF SanityRefused
<1>7. CASE SendChunk(c, [s EXCEPT !.todo = todo])
    <2> DEFINE t == [s EXCEPT !.todo = todo]
    <2> HIDE DEF todo
    <2>1. SessionShape(t, syncs, epoch) /\ t.skey = s.skey /\ t.work = s.work
        BY <1>4, <1>5, AssignedTodo
    <2>2. SendChunk(c, t)
        BY <1>7
    <2> HIDE DEF t
    <2>3. QED
        BY <1>2, <1>3, <1>5, <1>6, <2>1, <2>2, UnderwayTypes, SendChunkKeeps
<1>8. CASE Continue(c, s, Request(c, s, "chunk"))
    <2> DEFINE m == Request(c, s, "chunk")
    <2>1. m.type = "chunk" /\ m.from = c /\ m.skey = s.skey /\ RequestOK(m, syncs)
        BY <1>2, <1>5, RequestTyped
    <2>2. Continue(c, s, m)
        BY <1>8
    <2> HIDE DEF m
    <2>3. QED
        BY <1>2, <1>3, <1>5, <1>6, <2>1, <2>2, UnderwayTypes, GoesOn
<1>9. QED
    BY <1>1, <1>7, <1>8

LEMMA ChunkAppliedKeeps ==
    ASSUME SyncInv, NEW c \in Clients, ChunkApplied(c)
    PROVE  SyncInv'
<1> DEFINE s == sess[c]
           m == [type |-> "sanity", from |-> c, skey |-> s.skey,
                 counts |-> SanityCounts(s.work)]
<1>1. /\ Received(c, "ok") /\ s.await.type = "applyChunk"
      /\ \/ SendChunk(c, s)
         \/ RollBack(c, FALSE) /\ Heard(c) /\ UNCHANGED <<cli, clk, syncs>>
         \/ Continue(c, s, m)
    BY DEF ChunkApplied, CheckSanity
<1>2. /\ SessionShape(s, syncs, epoch) /\ s.skey # 0 /\ s.skey \in 0..syncs
      /\ resp[c] # NoResp /\ resp[c].type = "ok" /\ s.work \in Collection
    BY <1>1, ReceivedIs, UnderwayTypes DEF Awaits
<1>3. ~SanityRefused(resp[c]) /\ s.await.type \in Underway
    BY <1>1, <1>2, UnderwayTypes DEF SanityRefused
<1>4. CASE SendChunk(c, s)
    BY <1>2, <1>3, <1>4, SendChunkKeeps
<1>5. CASE RollBack(c, FALSE) /\ Heard(c) /\ UNCHANGED <<cli, clk, syncs>>
    <2>1. /\ resp' = [resp EXCEPT ![c] = NoResp] /\ faults' \in 0..MaxFaults
          /\ UNCHANGED <<srvVars, edits, born, cli, clk, syncs>>
        BY <1>5 DEF Heard, SyncInv, Data
    <2>2. QED
        BY <1>2, <1>5, <2>1, RollBackKeeps
<1>6. CASE Continue(c, s, m)
    <2>1. m.type = "sanity" /\ m.from = c /\ m.skey = s.skey /\ RequestOK(m, syncs)
        BY <1>2, UnderwayTypes DEF RequestOK
    <2> HIDE DEF m
    <2>2. QED
        BY <1>2, <1>3, <1>6, <2>1, UnderwayTypes, GoesOn
<1>7. QED
    BY <1>1, <1>4, <1>5, <1>6

LEMMA SanityAnsweredKeeps ==
    ASSUME SyncInv, NEW c \in Clients,
           SanityPassed(c) \/ SanityFailed(c) \/ SessionError(c)
    PROVE  SyncInv'
<1>1. CASE SanityPassed(c)
    <2> DEFINE m == [type |-> "finish", from |-> c, skey |-> sess[c].skey, base |-> cli[c]]
    <2>1. Received(c, "sanity") /\ resp[c].good /\ Continue(c, sess[c], m)
        BY <1>1 DEF SanityPassed
    <2>2. /\ SessionShape(sess[c], syncs, epoch) /\ sess[c].await.type = "sanity"
          /\ sess[c].skey # 0 /\ sess[c].skey \in 0..syncs
          /\ resp[c] # NoResp /\ resp[c].type = "sanity" /\ sess[c].work \in Collection
        BY <2>1, ReceivedIs, UnderwayTypes DEF Fits, Awaits
    <2>3. m.type = "finish" /\ m.from = c /\ m.skey = sess[c].skey /\ RequestOK(m, syncs)
        BY <2>2, ClientData, UnderwayTypes DEF RequestOK
    <2>4. ~SanityRefused(resp[c])
        BY <2>1 DEF SanityRefused
    <2> HIDE DEF m
    <2>5. QED
        BY <2>1, <2>2, <2>3, <2>4, UnderwayTypes, GoesOn
<1>2. ASSUME NEW bad \in BOOLEAN, NEW type \in {"sanity", "error"}, Received(c, type),
             RollBack(c, bad), Heard(c), UNCHANGED <<cli, clk, syncs>>
      PROVE  SyncInv'
    <2>1. sess[c].await.type \in Underway
        BY <1>2, ReceivedIs, UnderwayTypes DEF Fits
    <2>2. sess[c].skey # 0 /\ sess[c].skey \in 0..syncs
        BY <1>2, <2>1, ReceivedIs, UnderwayTypes
    <2>3. /\ resp' = [resp EXCEPT ![c] = NoResp] /\ faults' \in 0..MaxFaults
          /\ UNCHANGED <<srvVars, edits, born, cli, clk, syncs>>
        BY <1>2 DEF Heard, SyncInv, Data
    <2>4. QED
        BY <1>2, <2>2, <2>3, RollBackKeeps
<1>3. CASE SanityFailed(c)
    BY <1>2, <1>3 DEF SanityFailed
<1>4. CASE SessionError(c)
    BY <1>2, <1>4 DEF SessionError
<1>5. QED
    BY <1>1, <1>3, <1>4

(* Failures, and changes between two syncs.                                *)
LEMMA EndAbortKeeps ==
    ASSUME SyncInv, NEW c \in Clients, EndAbort(c), resp' = [resp EXCEPT ![c] = NoResp],
           UNCHANGED <<srvVars, edits, born, syncs>>, faults' \in 0..MaxFaults
    PROVE  SyncInv'
<1>1. Ends(c)
    BY DEF EndAbort, EndSession, Ends
<1>2. SetSchemaModified(cli[c], clk + 1) \in Collection
    <2>1. clk + 1 \in Nat /\ cli[c] \in Collection
        BY ClientData, Numbers
    <2>2. QED
        BY <2>1, Replaced DEF SetSchemaModified
<1>3. \/ clk' = clk + 1 /\ cli' = [cli EXCEPT ![c] = SetSchemaModified(cli[c], clk + 1)]
      \/ UNCHANGED <<cli, clk>>
    BY DEF EndAbort, Tick
<1>4. cli' \in [Clients -> Collection] /\ clk' \in {clk, clk + 1}
    BY <1>2, <1>3, ClientData DEF SyncInv, Data
<1>5. QED
    BY <1>1, <1>4, EndingKeeps

LEMMA TimeoutKeeps ==
    ASSUME SyncInv, NEW c \in Clients, Timeout(c)
    PROVE  SyncInv'
<1>1. /\ ~Idle(c) /\ resp' = [resp EXCEPT ![c] = NoResp]
      /\ UNCHANGED <<srvVars, edits, born, syncs>>
    BY DEF Timeout
<1>2. faults' \in 0..MaxFaults
    <2>1. Fault \/ UNCHANGED faults
        BY DEF Timeout
    <2>2. QED
        BY <2>1, FaultTyped DEF SyncInv, Data
<1>3. CASE sess[c].await.type = "abort"
    <2>1. EndAbort(c)
        BY <1>3 DEF Timeout
    <2>2. QED
        BY <1>1, <1>2, <2>1, EndAbortKeeps
<1>4. CASE sess[c].await.type \in {"meta", "upload", "download"}
    <2>1. Ends(c) /\ UNCHANGED <<cli, clk>>
        BY <1>1, <1>4 DEF Timeout, EndSession, Ends
    <2>2. cli' \in [Clients -> Collection]
        BY <2>1 DEF SyncInv, Data
    <2>3. QED
        BY <1>1, <1>2, <2>1, <2>2, EndingKeeps
<1>5. CASE sess[c].await.type \notin {"abort", "meta", "upload", "download"}
    <2>1. RollBack(c, FALSE) /\ UNCHANGED <<cli, clk>>
        BY <1>5 DEF Timeout
    <2>2. sess[c].await.type \in Keyed
        BY <1>1, <1>5, SessionIs DEF Awaits, RequestOK
    <2>3. sess[c].skey # 0 /\ sess[c].skey \in 0..syncs
        BY <1>1, <2>2, SessionIs
    <2>4. QED
        BY <1>1, <1>2, <2>1, <2>3, RollBackKeeps
<1>6. QED
    BY <1>3, <1>4, <1>5

LEMMA GivingUpKeeps ==
    ASSUME SyncInv, NEW c \in Clients, UserAbort(c) \/ ClientRestart(c)
    PROVE  SyncInv'
<1>1. Ends(c)
    <2>1. Request(c, NoSession, "abort") = Gone(c)
        BY NoSessionFields, Numbers DEF Request, Gone
    <2>2. QED
        BY <2>1 DEF UserAbort, ClientRestart, EndSession, Ends
<1>2. /\ resp' = [resp EXCEPT ![c] = NoResp] /\ Fault
      /\ UNCHANGED <<srvVars, cli, clk, edits, born, syncs>>
    BY DEF UserAbort, ClientRestart
<1>3. cli' \in [Clients -> Collection] /\ faults' \in 0..MaxFaults
    BY <1>2, FaultTyped DEF SyncInv, Data
<1>4. QED
    BY <1>1, <1>2, <1>3, EndingKeeps

LEMMA ChangeKeeps ==
    ASSUME SyncInv, NEW c \in Clients, NEW col \in Collection, Change(c, col),
           edits' \in 0..MaxEdits, born' \in [Objs -> 0..MaxEdits]
    PROVE  SyncInv'
<1>1. /\ clk' = clk + 1 /\ cli' = [cli EXCEPT ![c] = col]
      /\ UNCHANGED <<srvVars, sess, net, resp, syncs, faults>>
    BY DEF Change, Tick
<1>2. cli' \in [Clients -> Collection]
    BY <1>1, ClientData
<1>3. Data'
    BY <1>1, <1>2, DataMoves DEF SyncInv, Data
<1>4. UNCHANGED <<srv, user, epoch, sess, net, resp, syncs>>
    BY <1>1 DEF srvVars
<1>5. Talk'
    BY <1>4 DEF SyncInv, Talk, ServerStates
<1>6. Protocol'
    BY <1>4 DEF SyncInv, Protocol, OneRequest, RequestAwaited, KeysApart, NotAnswered, Closed
<1>7. QED
    BY <1>3, <1>5, <1>6 DEF SyncInv

LEMMA LocalChangeKeeps ==
    ASSUME SyncInv, NEW c \in Clients, LocalChange(c)
    PROVE  SyncInv'
<1>1. cli[c] \in Collection /\ clk + 1 \in Nat
    BY ClientData, Numbers
<1>2. born \in [Objs -> 0..MaxEdits] /\ edits \in 0..MaxEdits
    BY DEF SyncInv, Data
<1>3. NewEdit => edits + 1 \in 0..MaxEdits /\ edits' = edits + 1
    BY <1>2, SyncBounds DEF NewEdit
<1>4. ASSUME NEW o \in Objs, Add(c, o) \/ Edit(c, o)
      PROVE  SyncInv'
    <2>1. WriteRow(cli[c], o, edits + 1, clk + 1) \in Collection
        BY <1>1, <1>3, <1>4, ChangedTyped DEF Add, Edit
    <2>2. born' \in [Objs -> 0..MaxEdits]
        BY <1>2, <1>3, <1>4 DEF Add, Edit
    <2>3. QED
        BY <1>3, <1>4, <2>1, <2>2, ChangeKeeps DEF Add, Edit
<1>5. ASSUME NEW o \in Objs, Remove(c, o)
      PROVE  SyncInv'
    <2>1. RemoveRow(cli[c], o, clk + 1) \in Collection
        BY <1>1, <1>2, ChangedTyped
    <2>2. QED
        BY <1>2, <1>5, <2>1, ChangeKeeps DEF Remove
<1>6. CASE SetConfig(c)
    <2>1. WriteConfig(cli[c], edits + 1, clk + 1) \in Collection
        BY <1>1, <1>3, <1>6, ConfigTyped DEF SetConfig
    <2>2. QED
        BY <1>2, <1>3, <1>6, <2>1, ChangeKeeps DEF SetConfig
<1>7. CASE ModifySchema(c)
    <2>1. [SetSchemaModified(cli[c], clk + 1) EXCEPT !.mod = clk + 1] \in Collection
        BY <1>1, Replaced DEF SetSchemaModified
    <2>2. QED
        BY <1>2, <1>7, <2>1, ChangeKeeps DEF ModifySchema
<1>8. QED
    BY <1>4, <1>5, <1>6, <1>7 DEF LocalChange

-----------------------------------------------------------------------------
(* Every step, and the beginnings.                                         *)

LEMMA StutterKeeps ==
    ASSUME SyncInv, UNCHANGED vars
    PROVE  SyncInv'
<1>1. UNCHANGED <<srv, torn, user, epoch, cli, sess, net, resp, clk, edits, born, syncs, faults>>
    BY DEF vars, srvVars, cliVars, counts
<1>2. Data'
    BY <1>1 DEF SyncInv, Data
<1>3. Talk'
    BY <1>1 DEF SyncInv, Talk, ServerStates
<1>4. Protocol'
    BY <1>1 DEF SyncInv, Protocol, OneRequest, RequestAwaited, KeysApart, NotAnswered, Closed
<1>5. QED
    BY <1>2, <1>3, <1>4 DEF SyncInv

LEMMA ProceedKeeps ==
    ASSUME SyncInv, NEW c \in Clients, Proceed(c)
    PROVE  SyncInv'
BY EndingsKeep, FullSyncKeeps, StartingKeeps, SessionStartedKeeps, GravesAppliedKeeps,
   ReceiveChangesKeeps, ReceiveChunkKeeps, ChunkAppliedKeeps, SanityAnsweredKeeps DEF Proceed

LEMMA NextKeeps == SyncInv /\ [Next]_vars => SyncInv'
<1> SUFFICES ASSUME SyncInv, [Next]_vars
             PROVE  SyncInv'
    OBVIOUS
<1>1. ASSUME NEW c \in Clients, LocalChange(c) \/ Sync(c) \/ Proceed(c)
                                \/ Timeout(c) \/ UserAbort(c) \/ ClientRestart(c)
      PROVE  SyncInv'
    BY <1>1, LocalChangeKeeps, SyncKeeps, ProceedKeeps, TimeoutKeeps, GivingUpKeeps
<1>2. ASSUME NEW m \in net, Handle(m) \/ FailOperation(m) \/ FinishAndStop(m)
      PROVE  SyncInv'
    BY <1>2, HandlersKeep
<1>3. CASE ServerRestart
    BY <1>3, RestartKeeps
<1>4. CASE UNCHANGED vars
    BY <1>4, StutterKeeps
<1>5. QED
    BY <1>1, <1>2, <1>3, <1>4 DEF Next

LEMMA BeginsRight ==
    ASSUME NEW col \in Collection, NEW from \in [Objs -> 0..MaxEdits], Begin(col, from)
    PROVE  SyncInv
<1>1. /\ srv = col /\ torn = FALSE /\ user = ClosedUser /\ epoch = 0
      /\ cli = [c \in Clients |-> col] /\ sess = [c \in Clients |-> NoSession] /\ net = {}
      /\ resp = [c \in Clients |-> NoResp] /\ clk = 0
      /\ edits = 1 /\ born = from /\ syncs = 0 /\ faults = 0
    BY DEF Begin
<1>2. Data
    <2>1. cli \in [Clients -> Collection] /\ born \in [Objs -> 0..MaxEdits]
        BY <1>1
    <2>2. 1 \in 0..MaxEdits /\ 0 \in 0..MaxSyncs /\ 0 \in 0..MaxFaults
        BY SyncBounds
    <2>3. srv \in Collection /\ torn \in BOOLEAN /\ epoch \in Nat /\ clk \in Nat
        BY <1>1
    <2>4. QED
        BY <1>1, <2>1, <2>2, <2>3 DEF Data
<1>3. NoSession.skey = 0 /\ SessionShape(NoSession, syncs, epoch)
    BY <1>1, NoSessionFields
<1>4. user.st \in ServerStates /\ user.col \in Collection \cup {NoCol}
    BY <1>1 DEF ClosedUser, NoSync, ServerStates
<1> HIDE DEF NoSession, NoResp, ClosedUser
<1>5. Talk
    BY <1>1, <1>3, <1>4 DEF Talk, SessionOK
<1>6. Protocol
    BY <1>1, <1>3 DEF Protocol, OneRequest, RequestAwaited, KeysApart, NotAnswered, Closed
<1>7. QED
    BY <1>2, <1>5, <1>6 DEF SyncInv

LEMMA InitRight == Init \/ InitReturned => SyncInv
<1>1. KnownFrom \in [Objs -> 0..MaxEdits]
    BY SyncBounds DEF KnownFrom
<1>2. [o \in Objs |-> IF o \in Reimportable THEN 1 ELSE KnownFrom[o]] \in [Objs -> 0..MaxEdits]
    BY <1>1, SyncBounds
<1>3. QED
    BY <1>1, <1>2, InitialTyped, BeginsRight DEF Init, InitReturned

-----------------------------------------------------------------------------
(* The theorems.                                                           *)

(* From both beginnings, whatever the network, the devices and the server  *)
(* do: every request, answer and open session is what its handler expects, *)
(* a session has one request at a time, and it is the one its client waits *)
(* for (NormalSyncer, User::with_sync_state).                              *)
THEOREM SyncInvariant == (Init \/ InitReturned) /\ [][Next]_vars => []SyncInv
BY InitRight, NextKeeps, PTL

(* The variables of the protocol keep their types, also when nothing stale *)
(* reaches the server.                                                     *)
THEOREM SyncTypeCorrect == (Spec => []TypeOK) /\ (SerialSpec => []TypeOK)
<1>1. SyncInv => TypeOK
    <2> SUFFICES ASSUME SyncInv
                 PROVE  TypeOK
        OBVIOUS
    <2>1. Data
        BY DEF SyncInv
    <2>2. /\ user.st \in [skey : Keys, server_usn : Nat, client_usn : Nat,
                          client_is_newer : BOOLEAN, have_ids : BOOLEAN, ids : SUBSET Chunked]
          /\ user.col \in Collection \cup {NoCol}
        BY SyncBounds DEF SyncInv, Data, Talk, ServerStates, Keys
    <2>3. sess \in [Clients -> SessionType]
        <3>1. \A c \in Clients : SessionShape(sess[c], syncs, epoch)
            BY DEF SyncInv, Talk, SessionOK
        <3>2. \A c \in Clients : sess[c] \in SessionType
            BY <2>1, <3>1, SyncBounds DEF SessionShape, SessionType, Keys, Data
        <3>3. QED
            BY <3>2 DEF SyncInv, Talk
    <2>4. \A m \in net : m.from \in Clients /\ m.skey \in Keys
        BY <2>1, SyncBounds DEF SyncInv, Talk, RequestOK, Keys, Data
    <2>5. QED
        BY <2>1, <2>2, <2>3, <2>4 DEF TypeOK, Data
<1>2. [SerialNext]_vars => [Next]_vars
    BY DEF SerialNext
<1>3. QED
    BY <1>1, <1>2, InitRight, NextKeeps, PTL DEF Spec, SerialSpec

(* Once a failed sanity check has closed the collection under a session,   *)
(* no request of that session is left that could open it again without a   *)
(* transaction (User::with_sync_state, ensure_col_open).                   *)
THEOREM ClosedStaysClosed ==
    (Init \/ InitReturned) /\ [][Next]_vars => []ClosedNeverReopened
<1>1. SyncInv => ClosedNeverReopened
    BY UnderwayTypes
        DEF SyncInv, Protocol, Closed, ClosedNeverReopened, InSession, ClosedUser
<1>2. QED
    BY <1>1, InitRight, NextKeeps, PTL

(* The same under the fairness of the runs.                                *)
THEOREM ClosedStaysClosedFairly == FairSpec => []ClosedNeverReopened
BY ClosedStaysClosed, PTL DEF FairSpec

-----------------------------------------------------------------------------
(* How far a session has come.  cl and sv are the collections that it      *)
(* began with, u is the server's User, s and r are the session and the     *)
(* answer of the client, and asked says that its request has not arrived.  *)

(* What the client learnt of the server's collection is still so.          *)
Agreed(cl, sv, s) ==
    /\ s.server_usn = sv.usn /\ s.local_is_newer = LocalIsNewer(cl, sv.mod)
    /\ NormalSyncRequired(cl, sv.mod, sv.scm)

Opened(cl, sv, u, s) ==
    /\ Agreed(cl, sv, s)
    /\ u.st.server_usn = sv.usn /\ u.st.client_usn = cl.usn
    /\ u.st.client_is_newer = LocalIsNewer(cl, sv.mod)

(* The decks that the client sends, its collection once it has sent them,  *)
(* and the chunked rows that each side sends.                              *)
DecksSent(cl, sv) == PendingRows(AS!ClientDeleted(cl, sv), PendingUsn, Decks)
ClientSent(cl, sv) == StampRows(AS!ClientDeleted(cl, sv), DecksSent(cl, sv), sv.usn)
ServerRows(cl, sv) == PendingRows(AS!ServerUnchunked(cl, sv), cl.usn, Chunked)
ClientRows(cl, sv) == PendingRows(AS!ClientReceived(cl, sv), PendingUsn, Chunked)

(* The client with the rows got of the server's chunks, and both sides     *)
(* with the rows sent of the client's.                                     *)
Received1(cl, sv, got) ==
    MergeChunk(AS!ClientUnchunked(cl, sv), SentRows(AS!ServerUnchunked(cl, sv), got), PendingUsn)
ClientStamped(cl, sv, sent) == StampRows(AS!ClientReceived(cl, sv), sent, sv.usn)
ServerTook(cl, sv, sent) ==
    MergeChunk(AS!ServerUnchunked(cl, sv), SentRows(AS!ClientMerged(cl, sv), sent), cl.usn)

Deleting(cl, sv, u, s, r, asked) ==
    LET all  == PendingGraves(cl, PendingUsn)
        sent == all \ s.todo
    IN  /\ s.todo \subseteq all /\ s.remote = PendingGraves(sv, cl.usn)
        /\ s.work = StampGraves(cl, sv.usn) /\ ~u.st.have_ids
        /\ asked => /\ s.await.ids \subseteq sent
                    /\ u.col = ApplyGraves(sv, sent \ s.await.ids, sv.usn)
        /\ r.type = "ok" => u.col = ApplyGraves(sv, sent, sv.usn)

Exchanging(cl, sv, u, s, r, asked) ==
    /\ s.work = ClientSent(cl, sv) /\ ~u.st.have_ids
    /\ asked => /\ u.col = AS!ServerDeleted(cl, sv)
                /\ s.await.rows = SentRows(s.work, DecksSent(cl, sv))
                /\ s.await.conf = IF s.local_is_newer THEN cl.conf ELSE NoConf
    /\ r.type = "changes" =>
          LET col == AS!ServerDeleted(cl, sv)
          IN  /\ u.col = AS!ServerUnchunked(cl, sv)
              /\ r.rows = SentRows(col, PendingRows(col, cl.usn, Decks))
              /\ r.conf = IF s.local_is_newer THEN NoConf ELSE sv.conf

Receiving(cl, sv, u, s, r, asked) ==
    \E got \in SUBSET ServerRows(cl, sv) :
        /\ s.work = Received1(cl, sv, got) /\ u.col = AS!ServerUnchunked(cl, sv)
        /\ asked => IF u.st.have_ids THEN u.st.ids = ServerRows(cl, sv) \ got ELSE got = {}
        /\ r.type = "chunk" =>
             \E part \in SUBSET (ServerRows(cl, sv) \ got) :
                /\ r.rows = SentRows(u.col, part)
                /\ u.st.have_ids /\ u.st.ids = (ServerRows(cl, sv) \ got) \ part
                /\ r.done => u.st.ids = {}

Sending(cl, sv, u, s, r, asked) ==
    LET all  == ClientRows(cl, sv)
        sent == all \ s.todo
    IN  /\ s.todo \subseteq all /\ s.work = ClientStamped(cl, sv, sent)
        /\ s.last => s.todo = {}
        /\ asked => \E part \in SUBSET sent :
                       /\ s.await.rows = SentRows(s.work, part)
                       /\ u.col = ServerTook(cl, sv, sent \ part)
        /\ r.type = "ok" => u.col = ServerTook(cl, sv, sent)

Checking(cl, sv, u, s, r, asked) ==
    /\ s.work = AS!ClientMerged(cl, sv)
    /\ asked => /\ s.await.counts = SanityCounts(s.work)
                /\ u.col = AS!ServerMerged(cl, sv)
    /\ r.type = "sanity" /\ r.good =>
          /\ u.col = AS!ServerMerged(cl, sv)
          /\ SanityCounts(AS!ClientMerged(cl, sv)) = SanityCounts(AS!ServerMerged(cl, sv))

Finishing(cl, sv, s) == s.work = AS!ClientMerged(cl, sv) /\ s.await.base = cl

Stage(cl, sv, u, s, r, asked) ==
    /\ (s.await.type = "start" /\ asked) \/ Opened(cl, sv, u, s)
    /\ s.await.type = "start" /\ r.type = "graves" =>
          u.col = sv /\ ~u.st.have_ids /\ r.ids = PendingGraves(sv, cl.usn)
    /\ s.await.type = "applyGraves"  => Deleting(cl, sv, u, s, r, asked)
    /\ s.await.type = "applyChanges" => Exchanging(cl, sv, u, s, r, asked)
    /\ s.await.type = "chunk"        => Receiving(cl, sv, u, s, r, asked)
    /\ s.await.type = "applyChunk"   => Sending(cl, sv, u, s, r, asked)
    /\ s.await.type = "sanity"       => Checking(cl, sv, u, s, r, asked)
    /\ s.await.type = "finish"       => Finishing(cl, sv, s)

Asked(c) == sess[c].await \in net

Joined(c) ==
    /\ sess[c].await.type \in Underway /\ user.st.skey = sess[c].skey /\ user.col # NoCol

Staged == \A c \in Clients : Joined(c) => Stage(cli[c], srv, user, sess[c], resp[c], Asked(c))

(* What a client was told of the server is so until the server's           *)
(* collection changes.                                                     *)
Starting(cl, sv, s, asked, now) ==
    /\ s.await.epoch = s.epoch /\ s.await.client_usn = cl.usn
    /\ s.await.local_is_newer = s.local_is_newer /\ s.work = cl
    /\ asked /\ s.epoch = now => Agreed(cl, sv, s)

Told(sv, r, now) == r.epoch = now => r.mod = sv.mod /\ r.scm = sv.scm /\ r.usn = sv.usn

Current ==
    \A c \in Clients :
        /\ resp[c].type = "meta" => Told(srv, resp[c], epoch)
        /\ sess[c].await.type = "start" =>
              Starting(cli[c], srv, sess[c], Asked(c), epoch)

(* A session that asks to be committed may be, also when its client has    *)
(* gone.                                                                   *)
Committable ==
    \A m \in Acceptable :
        /\ user.col = AS!ServerMerged(m.base, srv)
        /\ SanityCounts(AS!ClientMerged(m.base, srv)) = SanityCounts(AS!ServerMerged(m.base, srv))
        /\ NormalSyncRequired(m.base, srv.mod, srv.scm)

UploadsApart ==
    \A m \in net : m.type = "upload" =>
        /\ m.col.mod <= clk
        /\ \A n \in net : n.type = "upload" /\ m.col.mod = n.col.mod => m = n

(* What may still move the clock: a sync moves it once at most, on the     *)
(* client or by a request that orders the server to.                       *)
MayTick(s) ==
    /\ s.await.type \notin {"none", "finish", "upload", "download"}
    /\ s.await.type = "abort" => s.bad

Tickers == {c \in Clients : MayTick(sess[c])}

Orders == {m \in net : m.type \in {"finish", "download"}}

ClockBound ==
    LET left == Cardinality(Tickers) + Cardinality(Orders)
    IN  /\ IsFiniteSet(Tickers) /\ IsFiniteSet(Orders)
        /\ left <= syncs /\ clk + left <= MaxClock + syncs

SerialInv == Staged /\ Current /\ Committable /\ UploadsApart /\ ClockBound

-----------------------------------------------------------------------------
(* The stages of AtomicSync in terms of the operators used here.           *)

LEMMA Linked ==
    /\ \A col, usn : AS!PendingGraves(col, usn) = PendingGraves(col, usn)
    /\ \A col, usn, ids : AS!PendingRows(col, usn, ids) = PendingRows(col, usn, ids)
    /\ \A col, ids, usn : AS!ApplyGraves(col, ids, usn) = ApplyGraves(col, ids, usn)
    /\ \A col, usn : AS!StampGraves(col, usn) = StampGraves(col, usn)
    /\ \A col, ids, usn : AS!StampRows(col, ids, usn) = StampRows(col, ids, usn)
    /\ \A col, ids : AS!SentRows(col, ids) = SentRows(col, ids)
    /\ \A col, rows : AS!MergeUnchunked(col, rows) = MergeUnchunked(col, rows)
    /\ \A col, rows, usn : AS!MergeChunk(col, rows, usn) = MergeChunk(col, rows, usn)
    /\ \A col, usn, now : AS!Finish(col, usn, now) = Finish(col, usn, now)
    /\ \A cl, mod : AS!LocalIsNewer(cl, mod) = LocalIsNewer(cl, mod)
    /\ \A cl, mod, scm : AS!NormalSyncRequired(cl, mod, scm) = NormalSyncRequired(cl, mod, scm)
    /\ \A col : AS!SanityCounts(col) = SanityCounts(col)
    /\ AS!Chunked = Chunked /\ AS!Objs = Objs /\ AS!PendingUsn = PendingUsn
<1>1. AS!Chunked = Chunked /\ AS!Objs = Objs /\ AS!PendingUsn = PendingUsn /\ AS!NoGrave = NoGrave
      /\ AS!Absent = Absent
    BY DEF AS!Chunked, Chunked, AS!Objs, Objs, AS!PendingUsn, PendingUsn, AS!NoGrave, NoGrave,
           AS!Absent, Absent
<1>2. /\ \A row : AS!Present(row) = Present(row)
      /\ \A row : AS!Mtime(row) = Mtime(row)
      /\ \A usn, p : AS!IsPendingSync(usn, p) = IsPendingSync(usn, p)
      /\ \A row, usn : AS!StampRow(row, usn) = StampRow(row, usn)
      /\ \A g, usn : AS!AddGrave(g, usn) = AddGrave(g, usn)
    BY <1>1 DEF AS!Present, Present, AS!Mtime, Mtime, AS!IsPendingSync, IsPendingSync,
                AS!StampRow, StampRow, AS!AddGrave, AddGrave
<1>3. /\ \A mine, theirs : AS!TakesUnchunked(mine, theirs) = TakesUnchunked(mine, theirs)
      /\ \A o, mine, theirs, p :
            AS!TakesChunked(o, mine, theirs, p) = TakesChunked(o, mine, theirs, p)
    BY <1>2 DEF AS!TakesUnchunked, TakesUnchunked, AS!TakesChunked, TakesChunked
<1>4. /\ \A col, usn : AS!PendingGraves(col, usn) = PendingGraves(col, usn)
      /\ \A col, usn, ids : AS!PendingRows(col, usn, ids) = PendingRows(col, usn, ids)
    BY <1>1, <1>2 DEF AS!PendingGraves, PendingGraves, AS!PendingRows, PendingRows
<1>5. /\ \A col, ids, usn : AS!ApplyGraves(col, ids, usn) = ApplyGraves(col, ids, usn)
      /\ \A col, usn : AS!StampGraves(col, usn) = StampGraves(col, usn)
      /\ \A col, ids, usn : AS!StampRows(col, ids, usn) = StampRows(col, ids, usn)
      /\ \A col, ids : AS!SentRows(col, ids) = SentRows(col, ids)
    BY <1>1, <1>2 DEF AS!ApplyGraves, ApplyGraves, AS!StampGraves, StampGraves,
                      AS!StampRows, StampRows, AS!SentRows, SentRows
<1>6. /\ \A col, rows : AS!MergeUnchunked(col, rows) = MergeUnchunked(col, rows)
      /\ \A col, rows, usn : AS!MergeChunk(col, rows, usn) = MergeChunk(col, rows, usn)
    BY <1>1, <1>3 DEF AS!MergeUnchunked, MergeUnchunked, AS!MergeChunk, MergeChunk
<1>7. /\ \A col, usn, now : AS!Finish(col, usn, now) = Finish(col, usn, now)
      /\ \A cl, mod : AS!LocalIsNewer(cl, mod) = LocalIsNewer(cl, mod)
      /\ \A cl, mod, scm : AS!NormalSyncRequired(cl, mod, scm) = NormalSyncRequired(cl, mod, scm)
    BY DEF AS!Finish, Finish, AS!LocalIsNewer, LocalIsNewer, AS!NormalSyncRequired,
           NormalSyncRequired, AS!NoChanges, NoChanges
<1>8. \A col : AS!SanityCounts(col) = SanityCounts(col)
    <2>1. \A S : AS!Cardinality(S) = Cardinality(S)
        BY DEF AS!Cardinality, Cardinality
    <2>2. \A col, ids : AS!CountOf(col, ids) = CountOf(col, ids)
        BY <1>2, <2>1 DEF AS!CountOf, CountOf
    <2>3. QED
        BY <2>2 DEF AS!SanityCounts, SanityCounts
<1>9. QED
    BY <1>1, <1>4, <1>5, <1>6, <1>7, <1>8

LEMMA Stages ==
    ASSUME NEW cl, NEW sv
    PROVE  /\ AS!ServerDeleted(cl, sv) = ApplyGraves(sv, PendingGraves(cl, PendingUsn), sv.usn)
           /\ AS!ClientDeleted(cl, sv)
                = ApplyGraves(StampGraves(cl, sv.usn), PendingGraves(sv, cl.usn), sv.usn)
           /\ AS!ServerUnchunked(cl, sv)
                = [MergeUnchunked(AS!ServerDeleted(cl, sv),
                                  SentRows(ClientSent(cl, sv), DecksSent(cl, sv)))
                     EXCEPT !.conf = IF LocalIsNewer(cl, sv.mod) THEN cl.conf ELSE sv.conf]
           /\ LET s1 == AS!ServerDeleted(cl, sv)
              IN  AS!ClientUnchunked(cl, sv)
                    = [MergeUnchunked(ClientSent(cl, sv),
                                      SentRows(s1, PendingRows(s1, cl.usn, Decks)))
                         EXCEPT !.conf = IF LocalIsNewer(cl, sv.mod) THEN cl.conf ELSE sv.conf]
           /\ AS!ClientReceived(cl, sv) = Received1(cl, sv, ServerRows(cl, sv))
           /\ AS!ClientMerged(cl, sv) = ClientStamped(cl, sv, ClientRows(cl, sv))
           /\ AS!ServerMerged(cl, sv) = ServerTook(cl, sv, ClientRows(cl, sv))
<1>1. AS!ServerDeleted(cl, sv) = ApplyGraves(sv, PendingGraves(cl, PendingUsn), sv.usn)
    BY Linked DEF AS!ServerDeleted
<1>2. AS!ClientDeleted(cl, sv)
        = ApplyGraves(StampGraves(cl, sv.usn), PendingGraves(sv, cl.usn), sv.usn)
    BY Linked DEF AS!ClientDeleted
<1>3. AS!NewerConf(cl, sv) = IF LocalIsNewer(cl, sv.mod) THEN cl.conf ELSE sv.conf
    BY Linked DEF AS!NewerConf
<1>4. AS!ServerUnchunked(cl, sv)
        = [MergeUnchunked(AS!ServerDeleted(cl, sv),
                          SentRows(ClientSent(cl, sv), DecksSent(cl, sv)))
             EXCEPT !.conf = IF LocalIsNewer(cl, sv.mod) THEN cl.conf ELSE sv.conf]
    BY <1>3, Linked DEF AS!ServerUnchunked, ClientSent, DecksSent
<1>5. LET s1 == AS!ServerDeleted(cl, sv)
      IN  AS!ClientUnchunked(cl, sv)
            = [MergeUnchunked(ClientSent(cl, sv), SentRows(s1, PendingRows(s1, cl.usn, Decks)))
                 EXCEPT !.conf = IF LocalIsNewer(cl, sv.mod) THEN cl.conf ELSE sv.conf]
    BY <1>3, Linked DEF AS!ClientUnchunked, ClientSent, DecksSent
<1>6. AS!ClientReceived(cl, sv) = Received1(cl, sv, ServerRows(cl, sv))
    BY Linked DEF AS!ClientReceived, Received1, ServerRows
<1>7. AS!ClientMerged(cl, sv) = ClientStamped(cl, sv, ClientRows(cl, sv))
    BY Linked DEF AS!ClientMerged, ClientStamped, ClientRows
<1>8. AS!ServerMerged(cl, sv) = ServerTook(cl, sv, ClientRows(cl, sv))
    BY Linked DEF AS!ServerMerged, ServerTook, ClientRows
<1>9. QED
    BY <1>1, <1>2, <1>4, <1>5, <1>6, <1>7, <1>8

-----------------------------------------------------------------------------
(* Deletions, rows and chunks that are taken one part after the other.     *)

(* Collections with the same fields are the same.                          *)
LEMMA SameFields ==
    ASSUME NEW a \in Collection, NEW b \in Collection, a.row = b.row, a.grave = b.grave,
           a.conf = b.conf, a.mod = b.mod, a.scm = b.scm, a.usn = b.usn
    PROVE  a = b
BY DEF Collection

LEMMA DeletedFields ==
    ASSUME NEW col \in Collection, NEW ids, NEW usn \in Nat
    PROVE  LET new == ApplyGraves(col, ids, usn)
           IN  /\ new \in Collection
               /\ new.row = [o \in Objs |-> IF o \in ids THEN Absent ELSE col.row[o]]
               /\ new.grave = [o \in Objs |->
                     IF o \in ids THEN AddGrave(col.grave[o], usn) ELSE col.grave[o]]
               /\ new.conf = col.conf /\ new.mod = col.mod /\ new.scm = col.scm
               /\ new.usn = col.usn
<1>1. ApplyGraves(col, ids, usn) \in Collection
    <2>1. Rows(SentRows(col, {}))
        BY SentTyped
    <2>2. QED
        BY <2>1, MergedTyped
<1>2. QED
    BY <1>1 DEF ApplyGraves, Collection

LEMMA NothingDeleted ==
    ASSUME NEW col \in Collection, NEW usn \in Nat
    PROVE  ApplyGraves(col, {}, usn) = col
<1> DEFINE new == ApplyGraves(col, {}, usn)
<1>1. /\ new \in Collection
      /\ new.row = [o \in Objs |-> col.row[o]] /\ new.grave = [o \in Objs |-> col.grave[o]]
      /\ new.conf = col.conf /\ new.mod = col.mod /\ new.scm = col.scm /\ new.usn = col.usn
    BY DeletedFields
<1> HIDE DEF new
<1>2. new.row = col.row /\ new.grave = col.grave
    BY <1>1, Fields
<1>3. QED
    BY <1>1, <1>2, SameFields DEF new

LEMMA DeletedTwice ==
    ASSUME NEW col \in Collection, NEW A, NEW B, NEW usn \in Nat
    PROVE  ApplyGraves(ApplyGraves(col, A, usn), B, usn) = ApplyGraves(col, A \cup B, usn)
<1> DEFINE one == ApplyGraves(col, A, usn)
           two == ApplyGraves(one, B, usn)
           both == ApplyGraves(col, A \cup B, usn)
<1>1. /\ one \in Collection
      /\ one.row = [o \in Objs |-> IF o \in A THEN Absent ELSE col.row[o]]
      /\ one.grave = [o \in Objs |-> IF o \in A THEN AddGrave(col.grave[o], usn) ELSE col.grave[o]]
      /\ one.conf = col.conf /\ one.mod = col.mod /\ one.scm = col.scm /\ one.usn = col.usn
    BY DeletedFields
<1> HIDE DEF one
<1>2. /\ two \in Collection
      /\ two.row = [o \in Objs |-> IF o \in B THEN Absent ELSE one.row[o]]
      /\ two.grave = [o \in Objs |-> IF o \in B THEN AddGrave(one.grave[o], usn) ELSE one.grave[o]]
      /\ two.conf = one.conf /\ two.mod = one.mod /\ two.scm = one.scm /\ two.usn = one.usn
    BY <1>1, DeletedFields
<1>3. /\ both \in Collection
      /\ both.row = [o \in Objs |-> IF o \in A \cup B THEN Absent ELSE col.row[o]]
      /\ both.grave = [o \in Objs |->
            IF o \in A \cup B THEN AddGrave(col.grave[o], usn) ELSE col.grave[o]]
      /\ both.conf = col.conf /\ both.mod = col.mod /\ both.scm = col.scm /\ both.usn = col.usn
    BY DeletedFields
<1> HIDE DEF two, both
<1>4. two.row = both.row
    BY <1>1, <1>2, <1>3
<1>5. two.grave = both.grave
    <2>1. \A g : AddGrave(AddGrave(g, usn), usn) = AddGrave(g, usn)
        BY DEF AddGrave
    <2>2. QED
        BY <1>1, <1>2, <1>3, <2>1
<1>6. two = both
    BY <1>1, <1>2, <1>3, <1>4, <1>5, SameFields
<1>7. QED
    BY <1>6 DEF two, both, one

LEMMA StampedFields ==
    ASSUME NEW col \in Collection, NEW ids, NEW usn \in Nat
    PROVE  LET new == StampRows(col, ids, usn)
           IN  /\ new \in Collection
               /\ new.row = [o \in Objs |->
                     IF o \in ids THEN StampRow(col.row[o], usn) ELSE col.row[o]]
               /\ new.grave = col.grave /\ new.conf = col.conf /\ new.mod = col.mod
               /\ new.scm = col.scm /\ new.usn = col.usn
<1>1. StampRows(col, ids, usn) \in Collection
    <2>1. Rows(SentRows(col, {}))
        BY SentTyped
    <2>2. QED
        BY <2>1, MergedTyped
<1>2. QED
    BY <1>1 DEF StampRows, Collection

LEMMA NothingStamped ==
    ASSUME NEW col \in Collection, NEW usn \in Nat
    PROVE  StampRows(col, {}, usn) = col
<1> DEFINE new == StampRows(col, {}, usn)
<1>1. /\ new \in Collection /\ new.row = [o \in Objs |-> col.row[o]]
      /\ new.grave = col.grave /\ new.conf = col.conf /\ new.mod = col.mod
      /\ new.scm = col.scm /\ new.usn = col.usn
    BY StampedFields
<1> HIDE DEF new
<1>2. new.row = col.row
    BY <1>1, Fields
<1>3. QED
    BY <1>1, <1>2, SameFields DEF new

LEMMA StampedTwice ==
    ASSUME NEW col \in Collection, NEW A, NEW B, NEW usn \in Nat
    PROVE  StampRows(StampRows(col, A, usn), B, usn) = StampRows(col, A \cup B, usn)
<1> DEFINE one == StampRows(col, A, usn)
           two == StampRows(one, B, usn)
           both == StampRows(col, A \cup B, usn)
<1>1. /\ one \in Collection
      /\ one.row = [o \in Objs |-> IF o \in A THEN StampRow(col.row[o], usn) ELSE col.row[o]]
      /\ one.grave = col.grave /\ one.conf = col.conf /\ one.mod = col.mod
      /\ one.scm = col.scm /\ one.usn = col.usn
    BY StampedFields
<1> HIDE DEF one
<1>2. /\ two \in Collection
      /\ two.row = [o \in Objs |-> IF o \in B THEN StampRow(one.row[o], usn) ELSE one.row[o]]
      /\ two.grave = one.grave /\ two.conf = one.conf /\ two.mod = one.mod
      /\ two.scm = one.scm /\ two.usn = one.usn
    BY <1>1, StampedFields
<1>3. /\ both \in Collection
      /\ both.row = [o \in Objs |->
            IF o \in A \cup B THEN StampRow(col.row[o], usn) ELSE col.row[o]]
      /\ both.grave = col.grave /\ both.conf = col.conf /\ both.mod = col.mod
      /\ both.scm = col.scm /\ both.usn = col.usn
    BY StampedFields
<1> HIDE DEF two, both
<1>4. two.row = both.row
    <2>1. \A row \in Row : StampRow(StampRow(row, usn), usn) = StampRow(row, usn)
        BY DEF StampRow, Row
    <2>2. \A o \in Objs : col.row[o] \in Row
        BY Fields
    <2>3. \A o \in Objs : two.row[o] = both.row[o]
        BY <1>1, <1>2, <1>3, <2>1, <2>2
    <2>4. QED
        BY <1>2, <1>3, <2>3
<1>5. two = both
    BY <1>1, <1>2, <1>3, <1>4, SameFields
<1>6. QED
    BY <1>5 DEF two, both, one

LEMMA TakenFields ==
    ASSUME NEW col \in Collection, NEW from \in Collection, NEW ids \in SUBSET Objs, NEW usn
    PROVE  LET new == MergeChunk(col, SentRows(from, ids), usn)
           IN  /\ new \in Collection
               /\ new.row = [o \in Objs |->
                     IF o \in ids /\ TakesChunked(o, col.row[o], from.row[o], usn)
                     THEN from.row[o] ELSE col.row[o]]
               /\ new.grave = col.grave /\ new.conf = col.conf /\ new.mod = col.mod
               /\ new.scm = col.scm /\ new.usn = col.usn
<1> DEFINE rows == SentRows(from, ids)
           new == MergeChunk(col, rows, usn)
<1>1. Rows(rows)
    BY SentTyped
<1>2. DOMAIN rows = ids /\ \A o \in ids : rows[o] = from.row[o]
    BY DEF SentRows
<1> HIDE DEF rows
<1>3. new \in Collection
    <2>1. 0 \in Nat
        OBVIOUS
    <2>2. QED
        BY <1>1, <2>1, MergedTyped
<1>4. /\ new.row = [o \in Objs |->
            IF o \in DOMAIN rows /\ TakesChunked(o, col.row[o], rows[o], usn)
            THEN rows[o] ELSE col.row[o]]
      /\ new.grave = col.grave /\ new.conf = col.conf /\ new.mod = col.mod
      /\ new.scm = col.scm /\ new.usn = col.usn
    BY DEF MergeChunk, Collection
<1> HIDE DEF new
<1>5. new.row = [o \in Objs |->
            IF o \in ids /\ TakesChunked(o, col.row[o], from.row[o], usn)
            THEN from.row[o] ELSE col.row[o]]
    BY <1>2, <1>4
<1>6. QED
    BY <1>3, <1>4, <1>5 DEF new, rows

LEMMA NothingTaken ==
    ASSUME NEW col \in Collection, NEW from \in Collection, NEW usn
    PROVE  MergeChunk(col, SentRows(from, {}), usn) = col
<1> DEFINE new == MergeChunk(col, SentRows(from, {}), usn)
<1>1. /\ new \in Collection /\ new.row = [o \in Objs |-> col.row[o]]
      /\ new.grave = col.grave /\ new.conf = col.conf /\ new.mod = col.mod
      /\ new.scm = col.scm /\ new.usn = col.usn
    BY TakenFields
<1> HIDE DEF new
<1>2. new.row = col.row
    BY <1>1, Fields
<1>3. QED
    BY <1>1, <1>2, SameFields DEF new

LEMMA TakenTwice ==
    ASSUME NEW col \in Collection, NEW from \in Collection, NEW usn,
           NEW A \in SUBSET Objs, NEW B \in SUBSET Objs, A \cap B = {}
    PROVE  MergeChunk(MergeChunk(col, SentRows(from, A), usn), SentRows(from, B), usn)
             = MergeChunk(col, SentRows(from, A \cup B), usn)
<1> DEFINE one == MergeChunk(col, SentRows(from, A), usn)
           two == MergeChunk(one, SentRows(from, B), usn)
           both == MergeChunk(col, SentRows(from, A \cup B), usn)
<1>1. /\ one \in Collection
      /\ one.row = [o \in Objs |-> IF o \in A /\ TakesChunked(o, col.row[o], from.row[o], usn)
                                   THEN from.row[o] ELSE col.row[o]]
      /\ one.grave = col.grave /\ one.conf = col.conf /\ one.mod = col.mod
      /\ one.scm = col.scm /\ one.usn = col.usn
    BY TakenFields
<1> HIDE DEF one
<1>2. /\ two \in Collection
      /\ two.row = [o \in Objs |-> IF o \in B /\ TakesChunked(o, one.row[o], from.row[o], usn)
                                   THEN from.row[o] ELSE one.row[o]]
      /\ two.grave = one.grave /\ two.conf = one.conf /\ two.mod = one.mod
      /\ two.scm = one.scm /\ two.usn = one.usn
    BY <1>1, TakenFields
<1>3. /\ both \in Collection
      /\ both.row = [o \in Objs |->
            IF o \in A \cup B /\ TakesChunked(o, col.row[o], from.row[o], usn)
            THEN from.row[o] ELSE col.row[o]]
      /\ both.grave = col.grave /\ both.conf = col.conf /\ both.mod = col.mod
      /\ both.scm = col.scm /\ both.usn = col.usn
    <2>1. A \cup B \in SUBSET Objs
        OBVIOUS
    <2>2. QED
        BY <2>1, TakenFields
<1> HIDE DEF two, both
<1>4. two.row = both.row
    <2>1. \A o \in Objs : o \notin A \/ o \notin B
        OBVIOUS
    <2>2. \A o \in Objs : two.row[o] = both.row[o]
        BY <1>1, <1>2, <1>3, <2>1
    <2>3. QED
        BY <1>2, <1>3, <2>2
<1>5. two = both
    BY <1>1, <1>2, <1>3, <1>4, SameFields
<1>6. QED
    BY <1>5 DEF two, both, one

-----------------------------------------------------------------------------
(* What the stages are.                                                    *)

(* Merging unchunked rows, and setting the configuration with them.        *)
LEMMA MergedFields ==
    ASSUME NEW col \in Collection, NEW rows, Rows(rows), NEW conf \in 0..MaxEdits
    PROVE  LET new == MergeUnchunked(col, rows)
           IN  /\ new \in Collection /\ new.conf = col.conf /\ new.usn = col.usn
               /\ [new EXCEPT !.conf = conf] \in Collection
               /\ [new EXCEPT !.conf = conf].usn = col.usn
<1> DEFINE new == MergeUnchunked(col, rows)
<1>1. 0 \in Nat
    OBVIOUS
<1>2. new \in Collection
    BY <1>1, MergedTyped
<1>3. new.conf = col.conf /\ new.usn = col.usn
    BY DEF MergeUnchunked, Collection
<1> HIDE DEF new
<1>4. [new EXCEPT !.conf = conf] \in Collection /\ [new EXCEPT !.conf = conf].usn = new.usn
    BY <1>2, Replaced DEF Collection
<1>5. QED
    BY <1>2, <1>3, <1>4 DEF new

(* What deletions, stamps and chunks leave alone.                          *)
LEMMA HeadsStay ==
    ASSUME NEW col \in Collection
    PROVE  /\ \A ids : \A usn \in Nat :
                 /\ ApplyGraves(col, ids, usn) \in Collection
                 /\ ApplyGraves(col, ids, usn).conf = col.conf
                 /\ ApplyGraves(col, ids, usn).usn = col.usn
           /\ \A ids : \A usn \in Nat :
                 /\ StampRows(col, ids, usn) \in Collection
                 /\ StampRows(col, ids, usn).conf = col.conf
                 /\ StampRows(col, ids, usn).usn = col.usn
           /\ \A from \in Collection, ids \in SUBSET Objs : \A usn :
                 /\ MergeChunk(col, SentRows(from, ids), usn) \in Collection
                 /\ MergeChunk(col, SentRows(from, ids), usn).conf = col.conf
                 /\ MergeChunk(col, SentRows(from, ids), usn).usn = col.usn
<1>1. ASSUME NEW ids, NEW usn \in Nat
      PROVE  LET new == ApplyGraves(col, ids, usn)
             IN  new \in Collection /\ new.conf = col.conf /\ new.usn = col.usn
    <2> DEFINE new == ApplyGraves(col, ids, usn)
    <2>1. /\ new \in Collection
          /\ new.row = [o \in Objs |-> IF o \in ids THEN Absent ELSE col.row[o]]
          /\ new.grave = [o \in Objs |->
                IF o \in ids THEN AddGrave(col.grave[o], usn) ELSE col.grave[o]]
          /\ new.conf = col.conf /\ new.usn = col.usn
        BY DeletedFields
    <2> HIDE DEF new
    <2>2. QED
        BY <2>1 DEF new
<1>2. ASSUME NEW ids, NEW usn \in Nat
      PROVE  LET new == StampRows(col, ids, usn)
             IN  new \in Collection /\ new.conf = col.conf /\ new.usn = col.usn
    <2> DEFINE new == StampRows(col, ids, usn)
    <2>1. /\ new \in Collection
          /\ new.row = [o \in Objs |->
                IF o \in ids THEN StampRow(col.row[o], usn) ELSE col.row[o]]
          /\ new.conf = col.conf /\ new.usn = col.usn
        BY StampedFields
    <2> HIDE DEF new
    <2>2. QED
        BY <2>1 DEF new
<1>3. ASSUME NEW from \in Collection, NEW ids \in SUBSET Objs, NEW usn
      PROVE  LET new == MergeChunk(col, SentRows(from, ids), usn)
             IN  new \in Collection /\ new.conf = col.conf /\ new.usn = col.usn
    <2> DEFINE new == MergeChunk(col, SentRows(from, ids), usn)
    <2>1. /\ new \in Collection
          /\ new.row = [o \in Objs |->
                IF o \in ids /\ TakesChunked(o, col.row[o], from.row[o], usn)
                THEN from.row[o] ELSE col.row[o]]
          /\ new.conf = col.conf /\ new.usn = col.usn
        BY TakenFields
    <2> HIDE DEF new
    <2>2. QED
        BY <2>1 DEF new
<1>4. QED
    BY <1>1, <1>2, <1>3

LEMMA DeletionTypes ==
    ASSUME NEW cl \in Collection, NEW sv \in Collection
    PROVE  /\ AS!ServerDeleted(cl, sv) \in Collection
           /\ AS!ServerDeleted(cl, sv).usn = sv.usn /\ AS!ServerDeleted(cl, sv).conf = sv.conf
           /\ AS!ClientDeleted(cl, sv) \in Collection
           /\ AS!ClientDeleted(cl, sv).conf = cl.conf
           /\ StampGraves(cl, sv.usn) \in Collection
           /\ ClientSent(cl, sv) \in Collection /\ ClientSent(cl, sv).conf = cl.conf
           /\ DecksSent(cl, sv) \in SUBSET Objs
           /\ PendingRows(AS!ServerDeleted(cl, sv), cl.usn, Decks) \in SUBSET Objs
<1>1. sv.usn \in Nat /\ Rows(SentRows(cl, {}))
    BY Fields, SentTyped
<1>2. /\ AS!ServerDeleted(cl, sv) \in Collection
      /\ AS!ServerDeleted(cl, sv).usn = sv.usn /\ AS!ServerDeleted(cl, sv).conf = sv.conf
    <2> DEFINE new == ApplyGraves(sv, PendingGraves(cl, PendingUsn), sv.usn)
    <2>1. new \in Collection /\ new.usn = sv.usn /\ new.conf = sv.conf
        BY <1>1, HeadsStay
    <2>2. AS!ServerDeleted(cl, sv) = new
        BY Stages
    <2> HIDE DEF new
    <2>3. QED
        BY <2>1, <2>2
<1> DEFINE stamped == StampGraves(cl, sv.usn)
<1>3. stamped \in Collection
    BY <1>1, MergedTyped
<1>4. stamped.conf = cl.conf
    BY DEF StampGraves, Collection
<1> HIDE DEF stamped
<1>5. AS!ClientDeleted(cl, sv) = ApplyGraves(stamped, PendingGraves(sv, cl.usn), sv.usn)
    BY Stages DEF stamped
<1>6. /\ AS!ClientDeleted(cl, sv) \in Collection /\ AS!ClientDeleted(cl, sv).conf = cl.conf
    <2> DEFINE new == ApplyGraves(stamped, PendingGraves(sv, cl.usn), sv.usn)
    <2>1. new \in Collection /\ new.conf = stamped.conf
        BY <1>1, <1>3, HeadsStay
    <2> HIDE DEF new
    <2>2. QED
        BY <1>4, <1>5, <2>1 DEF new
<1>7. ClientSent(cl, sv) \in Collection /\ ClientSent(cl, sv).conf = cl.conf
    <2> DEFINE c1 == AS!ClientDeleted(cl, sv)
               new == StampRows(c1, DecksSent(cl, sv), sv.usn)
    <2> HIDE DEF c1
    <2>1. c1 \in Collection /\ c1.conf = cl.conf
        BY <1>6 DEF c1
    <2>2. new \in Collection /\ new.conf = c1.conf
        BY <1>1, <2>1, HeadsStay
    <2>3. ClientSent(cl, sv) = new
        BY DEF ClientSent, c1
    <2> HIDE DEF new
    <2>4. QED
        BY <2>1, <2>2, <2>3
<1>8. /\ DecksSent(cl, sv) \in SUBSET Objs
      /\ PendingRows(AS!ServerDeleted(cl, sv), cl.usn, Decks) \in SUBSET Objs
    BY DEF DecksSent, PendingRows, Objs
<1>9. QED
    BY <1>2, <1>3, <1>6, <1>7, <1>8 DEF stamped

LEMMA ExchangeTypes ==
    ASSUME NEW cl \in Collection, NEW sv \in Collection
    PROVE  /\ AS!ServerUnchunked(cl, sv) \in Collection
           /\ AS!ServerUnchunked(cl, sv).usn = sv.usn
           /\ AS!ClientUnchunked(cl, sv) \in Collection
           /\ ServerRows(cl, sv) \in SUBSET Chunked
<1> DEFINE s1 == AS!ServerDeleted(cl, sv)
           c1 == ClientSent(cl, sv)
           mine == SentRows(c1, DecksSent(cl, sv))
           theirs == SentRows(s1, PendingRows(s1, cl.usn, Decks))
           conf == IF LocalIsNewer(cl, sv.mod) THEN cl.conf ELSE sv.conf
<1>1. s1 \in Collection /\ c1 \in Collection /\ s1.usn = sv.usn
    BY DeletionTypes
<1>2. Rows(mine) /\ Rows(theirs)
    BY <1>1, DeletionTypes, SentTyped
<1>3. conf \in 0..MaxEdits
    BY Fields
<1>4. /\ AS!ServerUnchunked(cl, sv) = [MergeUnchunked(s1, mine) EXCEPT !.conf = conf]
      /\ AS!ClientUnchunked(cl, sv) = [MergeUnchunked(c1, theirs) EXCEPT !.conf = conf]
    BY Stages
<1> HIDE DEF s1, c1, mine, theirs, conf
<1>5. /\ AS!ServerUnchunked(cl, sv) \in Collection
      /\ AS!ServerUnchunked(cl, sv).usn = sv.usn
    BY <1>1, <1>2, <1>3, <1>4, MergedFields
<1>6. AS!ClientUnchunked(cl, sv) \in Collection
    BY <1>1, <1>2, <1>3, <1>4, MergedFields
<1>7. ServerRows(cl, sv) \in SUBSET Chunked
    BY DEF ServerRows, PendingRows
<1>8. QED
    BY <1>5, <1>6, <1>7

LEMMA ChunkTypes ==
    ASSUME NEW cl \in Collection, NEW sv \in Collection
    PROVE  /\ \A got \in SUBSET ServerRows(cl, sv) : Received1(cl, sv, got) \in Collection
           /\ AS!ClientReceived(cl, sv) \in Collection
           /\ ClientRows(cl, sv) \in SUBSET Chunked
           /\ \A sent : ClientStamped(cl, sv, sent) \in Collection
           /\ AS!ClientMerged(cl, sv) \in Collection
           /\ \A sent \in SUBSET ClientRows(cl, sv) :
                 /\ ServerTook(cl, sv, sent) \in Collection
                 /\ ServerTook(cl, sv, sent).usn = sv.usn
           /\ AS!ServerMerged(cl, sv) \in Collection /\ AS!ServerMerged(cl, sv).usn = sv.usn
<1>1. /\ AS!ServerUnchunked(cl, sv) \in Collection /\ AS!ServerUnchunked(cl, sv).usn = sv.usn
      /\ AS!ClientUnchunked(cl, sv) \in Collection /\ ServerRows(cl, sv) \in SUBSET Chunked
    BY ExchangeTypes
<1>2. Chunked \subseteq Objs /\ sv.usn \in Nat
    BY Fields DEF Objs
<1>3. ASSUME NEW got \in SUBSET ServerRows(cl, sv)
      PROVE  Received1(cl, sv, got) \in Collection
    <2>1. got \in SUBSET Objs
        BY <1>1, <1>2
    <2>2. QED
        BY <1>1, <2>1, TakenFields DEF Received1
<1>4. AS!ClientReceived(cl, sv) \in Collection
    BY <1>3, Stages
<1>5. ClientRows(cl, sv) \in SUBSET Chunked
    BY DEF ClientRows, PendingRows
<1>6. \A sent : ClientStamped(cl, sv, sent) \in Collection
    BY <1>2, <1>4, StampedFields DEF ClientStamped
<1>7. AS!ClientMerged(cl, sv) \in Collection
    BY <1>6, Stages
<1>8. ASSUME NEW sent \in SUBSET ClientRows(cl, sv)
      PROVE  ServerTook(cl, sv, sent) \in Collection /\ ServerTook(cl, sv, sent).usn = sv.usn
    <2>1. sent \in SUBSET Objs
        BY <1>2, <1>5
    <2>2. QED
        <3> DEFINE col == AS!ServerUnchunked(cl, sv)
                   from == AS!ClientMerged(cl, sv)
                   new == MergeChunk(col, SentRows(from, sent), cl.usn)
        <3> HIDE DEF col, from
        <3>1. col \in Collection /\ from \in Collection /\ col.usn = sv.usn
            BY <1>1, <1>7 DEF col, from
        <3>2. new \in Collection /\ new.usn = col.usn
            BY <2>1, <3>1, HeadsStay
        <3>3. ServerTook(cl, sv, sent) = new
            BY DEF ServerTook, col, from
        <3> HIDE DEF new
        <3>4. QED
            BY <3>1, <3>2, <3>3
<1>9. AS!ServerMerged(cl, sv) \in Collection /\ AS!ServerMerged(cl, sv).usn = sv.usn
    BY <1>8, Stages
<1>10. QED
    BY <1>3, <1>4, <1>5, <1>6, <1>7, <1>8, <1>9

LEMMA ApartSizes ==
    ASSUME NEW A, NEW B, IsFiniteSet(A), IsFiniteSet(B), A \cap B = {}
    PROVE  IsFiniteSet(A \cup B) /\ Cardinality(A \cup B) = Cardinality(A) + Cardinality(B)
<1>1. /\ IsFiniteSet(A \cup B)
      /\ Cardinality(A \cup B) = Cardinality(A) + Cardinality(B) - Cardinality(A \cap B)
    BY FS_Union
<1>2. Cardinality(A \cap B) = 0
    BY FS_EmptySet
<1>3. Cardinality(A) \in Nat /\ Cardinality(B) \in Nat
    BY FS_CardinalityType
<1>4. QED
    BY <1>1, <1>2, <1>3

(* A chunk that is not full is the last one.                               *)
LEMMA LastChunk ==
    ASSUME NEW ids \in SUBSET Chunked, NEW part \in ChunksOf(ids), ChunkDone(part)
    PROVE  part = ids
<1>1. PICK round \in 0..Cardinality(ids) :
         /\ \A kind \in ChunkKinds : Cardinality(part \cap kind) = Taken(kind, round, ids)
         /\ part = ids \/ TakenIn(round, ids) >= ChunkSize
    BY DEF ChunksOf
<1>2. part \subseteq ids /\ part \subseteq Chunked
    BY DEF ChunksOf
<1>3. IsFiniteSet(part)
    BY <1>2, SyncBounds, FS_Subset DEF Objs
<1>4. Cardinality(part) < ChunkSize /\ Cardinality(part) \in Nat /\ ChunkSize \in Nat
    BY <1>3, FS_CardinalityType, SyncBounds DEF ChunkDone
<1>5. TakenIn(round, ids)
        = Cardinality(part \cap Revlog) + Cardinality(part \cap Notes) + Cardinality(part \cap Cards)
    BY <1>1 DEF TakenIn, ChunkKinds
<1> DEFINE R == part \cap Revlog
           N == part \cap Notes
           C == part \cap Cards
<1>6. IsFiniteSet(R) /\ IsFiniteSet(N) /\ IsFiniteSet(C)
    BY <1>3, FS_Subset
<1>7. R \cap N = {} /\ (R \cup N) \cap C = {} /\ (R \cup N) \cup C = part
    BY <1>2, IdsApart DEF Chunked, Graved
<1> HIDE DEF R, N, C
<1>8. IsFiniteSet(R \cup N) /\ Cardinality(R \cup N) = Cardinality(R) + Cardinality(N)
    BY <1>6, <1>7, ApartSizes
<1>9. Cardinality(part) = Cardinality(R \cup N) + Cardinality(C)
    BY <1>6, <1>7, <1>8, ApartSizes
<1>10. TakenIn(round, ids) = Cardinality(part)
    BY <1>5, <1>8, <1>9 DEF R, N, C
<1>11. ~(TakenIn(round, ids) >= ChunkSize)
    BY <1>4, <1>10
<1>12. QED
    BY <1>1, <1>11

-----------------------------------------------------------------------------
(* From one stage of a session to the next.  t is the session that the     *)
(* client goes on with, v the User that the server goes on with.           *)

SameMeta(t, s) == t.server_usn = s.server_usn /\ t.local_is_newer = s.local_is_newer

(* The deletions that are not waiting any more have been applied, ...      *)
Deleted(cl, sv, u, s) ==
    LET all == PendingGraves(cl, PendingUsn)
    IN  /\ s.todo \subseteq all /\ s.remote = PendingGraves(sv, cl.usn)
        /\ s.work = StampGraves(cl, sv.usn) /\ ~u.st.have_ids
        /\ u.col = ApplyGraves(sv, all \ s.todo, sv.usn)

(* ... and the rows.                                                       *)
Took(cl, sv, u, s) ==
    LET all == ClientRows(cl, sv)
    IN  /\ s.todo \subseteq all /\ s.work = ClientStamped(cl, sv, all \ s.todo)
        /\ u.col = ServerTook(cl, sv, all \ s.todo)

LEMMA StageOf ==
    ASSUME NEW cl, NEW sv, NEW u, NEW s, NEW r, NEW asked, Opened(cl, sv, u, s)
    PROVE  /\ s.await.type = "applyGraves" =>
                 (Stage(cl, sv, u, s, r, asked) <=> Deleting(cl, sv, u, s, r, asked))
           /\ s.await.type = "applyChanges" =>
                 (Stage(cl, sv, u, s, r, asked) <=> Exchanging(cl, sv, u, s, r, asked))
           /\ s.await.type = "chunk" =>
                 (Stage(cl, sv, u, s, r, asked) <=> Receiving(cl, sv, u, s, r, asked))
           /\ s.await.type = "applyChunk" =>
                 (Stage(cl, sv, u, s, r, asked) <=> Sending(cl, sv, u, s, r, asked))
           /\ s.await.type = "sanity" =>
                 (Stage(cl, sv, u, s, r, asked) <=> Checking(cl, sv, u, s, r, asked))
           /\ s.await.type = "finish" =>
                 (Stage(cl, sv, u, s, r, asked) <=> Finishing(cl, sv, s))
<1> DEFINE D == Deleting(cl, sv, u, s, r, asked)
           E == Exchanging(cl, sv, u, s, r, asked)
           R == Receiving(cl, sv, u, s, r, asked)
           S == Sending(cl, sv, u, s, r, asked)
           C == Checking(cl, sv, u, s, r, asked)
           F == Finishing(cl, sv, s)
           O == Opened(cl, sv, u, s)
           G == u.col = sv /\ ~u.st.have_ids /\ r.ids = PendingGraves(sv, cl.usn)
<1>1. Stage(cl, sv, u, s, r, asked) <=>
        /\ (s.await.type = "start" /\ asked) \/ O
        /\ s.await.type = "start" /\ r.type = "graves" => G
        /\ s.await.type = "applyGraves"  => D
        /\ s.await.type = "applyChanges" => E
        /\ s.await.type = "chunk"        => R
        /\ s.await.type = "applyChunk"   => S
        /\ s.await.type = "sanity"       => C
        /\ s.await.type = "finish"       => F
    BY DEF Stage
<1>2. O
    OBVIOUS
<1> HIDE DEF D, E, R, S, C, F, O, G
<1>3. /\ s.await.type = "applyGraves" => (Stage(cl, sv, u, s, r, asked) <=> D)
      /\ s.await.type = "applyChanges" => (Stage(cl, sv, u, s, r, asked) <=> E)
      /\ s.await.type = "chunk" => (Stage(cl, sv, u, s, r, asked) <=> R)
      /\ s.await.type = "applyChunk" => (Stage(cl, sv, u, s, r, asked) <=> S)
      /\ s.await.type = "sanity" => (Stage(cl, sv, u, s, r, asked) <=> C)
      /\ s.await.type = "finish" => (Stage(cl, sv, u, s, r, asked) <=> F)
    BY <1>1, <1>2
<1>4. QED
    BY <1>3 DEF D, E, R, S, C, F

LEMMA StayOpened ==
    ASSUME NEW cl, NEW sv, NEW u, NEW s, NEW t, Opened(cl, sv, u, s), SameMeta(t, s)
    PROVE  Opened(cl, sv, u, t)
BY DEF Opened, Agreed, SameMeta

LEMMA BeginDeletions ==
    ASSUME NEW cl \in Collection, NEW sv \in Collection, NEW u, NEW s, NEW t,
           Opened(cl, sv, u, s), u.col = sv, ~u.st.have_ids, s.work = cl,
           t.todo = PendingGraves(s.work, PendingUsn),
           t.work = StampGraves(s.work, s.server_usn), t.remote = PendingGraves(sv, cl.usn)
    PROVE  Deleted(cl, sv, u, t)
<1> DEFINE all == PendingGraves(cl, PendingUsn)
<1>1. t.todo = all /\ t.work = StampGraves(cl, sv.usn)
    BY DEF Opened, Agreed
<1>2. all \ t.todo = {}
    BY <1>1
<1>3. sv.usn \in Nat
    BY Fields
<1>4. u.col = ApplyGraves(sv, all \ t.todo, sv.usn)
    BY <1>2, <1>3, NothingDeleted
<1> HIDE DEF all
<1>5. QED
    BY <1>1, <1>4 DEF Deleted, all

LEMMA SendMoreDeletions ==
    ASSUME NEW cl \in Collection, NEW sv \in Collection, NEW u, NEW s, NEW t, NEW part,
           Opened(cl, sv, u, t), Deleted(cl, sv, u, s), part \subseteq s.todo,
           t.await.type = "applyGraves", t.await.ids = part, t.todo = s.todo \ part,
           t.work = s.work, t.remote = s.remote
    PROVE  Stage(cl, sv, u, t, NoResp, TRUE)
<1> DEFINE all == PendingGraves(cl, PendingUsn)
<1>1. /\ s.todo \subseteq all /\ s.remote = PendingGraves(sv, cl.usn)
      /\ s.work = StampGraves(cl, sv.usn) /\ ~u.st.have_ids
      /\ u.col = ApplyGraves(sv, all \ s.todo, sv.usn)
    BY DEF Deleted
<1> HIDE DEF all
<1>2. (all \ t.todo) \ part = all \ s.todo /\ part \subseteq all \ t.todo /\ t.todo \subseteq all
    BY <1>1
<1>3. NoResp.type # "ok"
    BY DEF NoResp
<1>4. Deleting(cl, sv, u, t, NoResp, TRUE)
    BY <1>1, <1>2, <1>3 DEF Deleting, all
<1>5. QED
    BY <1>4, StageOf

LEMMA TakeDeletions ==
    ASSUME NEW cl \in Collection, NEW sv \in Collection, NEW u, NEW v, NEW s,
           Opened(cl, sv, u, s), s.await.type = "applyGraves",
           Stage(cl, sv, u, s, NoResp, TRUE), v.st = u.st,
           v.col = ApplyGraves(u.col, s.await.ids, u.st.server_usn)
    PROVE  Stage(cl, sv, v, s, [type |-> "ok"], FALSE)
<1> DEFINE all == PendingGraves(cl, PendingUsn)
           sent == all \ s.todo
<1>1. Deleting(cl, sv, u, s, NoResp, TRUE)
    BY StageOf
<1>2. /\ s.todo \subseteq all /\ s.remote = PendingGraves(sv, cl.usn)
      /\ s.work = StampGraves(cl, sv.usn) /\ ~u.st.have_ids /\ s.await.ids \subseteq sent
      /\ u.col = ApplyGraves(sv, sent \ s.await.ids, sv.usn)
    BY <1>1 DEF Deleting
<1>3. u.st.server_usn = sv.usn /\ sv.usn \in Nat
    BY Fields DEF Opened
<1>4. v.col = ApplyGraves(sv, sent, sv.usn)
    <2> HIDE DEF sent
    <2> DEFINE A == sent \ s.await.ids
               B == s.await.ids
    <2>1. A \cup B = sent
        BY <1>2
    <2>2. ApplyGraves(ApplyGraves(sv, A, sv.usn), B, sv.usn) = ApplyGraves(sv, A \cup B, sv.usn)
        BY <1>3, DeletedTwice
    <2>3. QED
        BY <1>2, <1>3, <2>1, <2>2
<1>5. Deleting(cl, sv, v, s, [type |-> "ok"], FALSE)
    BY <1>2, <1>4 DEF Deleting
<1>6. Opened(cl, sv, v, s)
    BY DEF Opened
<1>7. QED
    BY <1>5, <1>6, StageOf

LEMMA SendDecks ==
    ASSUME NEW cl \in Collection, NEW sv \in Collection, NEW u, NEW s, NEW t,
           Opened(cl, sv, u, s), SameMeta(t, s), Deleted(cl, sv, u, s), s.todo = {},
           t.await.type = "applyChanges",
           LET deleted == ApplyGraves(s.work, s.remote, s.server_usn)
               sent    == PendingRows(deleted, PendingUsn, Decks)
               stamped == StampRows(deleted, sent, s.server_usn)
           IN  /\ t.work = stamped /\ t.await.rows = SentRows(stamped, sent)
               /\ t.await.conf = IF s.local_is_newer THEN stamped.conf ELSE NoConf
    PROVE  Stage(cl, sv, u, t, NoResp, TRUE)
<1> DEFINE all == PendingGraves(cl, PendingUsn)
           deleted == ApplyGraves(s.work, s.remote, s.server_usn)
           sent == PendingRows(deleted, PendingUsn, Decks)
           stamped == StampRows(deleted, sent, s.server_usn)
<1>1. s.server_usn = sv.usn
    BY DEF Opened, Agreed
<1>2. deleted = AS!ClientDeleted(cl, sv)
    BY <1>1, Stages DEF Deleted
<1>3. sent = DecksSent(cl, sv)
    BY <1>2 DEF DecksSent
<1>4. stamped = ClientSent(cl, sv)
    BY <1>1, <1>2, <1>3 DEF ClientSent
<1>5. /\ t.work = ClientSent(cl, sv)
      /\ t.await.rows = SentRows(ClientSent(cl, sv), DecksSent(cl, sv))
      /\ t.await.conf = IF s.local_is_newer THEN ClientSent(cl, sv).conf ELSE NoConf
    BY <1>3, <1>4
<1>6. t.await.conf = IF t.local_is_newer THEN cl.conf ELSE NoConf
    BY <1>5, DeletionTypes DEF SameMeta
<1>7. u.col = AS!ServerDeleted(cl, sv) /\ ~u.st.have_ids
    <2>1. all \ {} = all
        OBVIOUS
    <2>2. u.col = ApplyGraves(sv, all, sv.usn) /\ ~u.st.have_ids
        BY <2>1 DEF Deleted
    <2>3. QED
        BY <2>2, Stages
<1>8. NoResp.type # "changes"
    BY DEF NoResp
<1> HIDE DEF deleted, sent, stamped
<1>9. Exchanging(cl, sv, u, t, NoResp, TRUE)
    BY <1>5, <1>6, <1>7, <1>8 DEF Exchanging
<1>10. QED
    BY <1>9, StayOpened, StageOf

LEMMA TakeDecks ==
    ASSUME NEW cl \in Collection, NEW sv \in Collection, NEW u, NEW v, NEW s,
           Opened(cl, sv, u, s), s.await.type = "applyChanges",
           Stage(cl, sv, u, s, NoResp, TRUE), v.st = u.st,
           v.col = [MergeUnchunked(u.col, s.await.rows)
                      EXCEPT !.conf = IF s.await.conf = NoConf THEN @ ELSE s.await.conf],
           NEW r, r.type = "changes",
           r.rows = SentRows(u.col, PendingRows(u.col, u.st.client_usn, Decks)),
           r.conf = IF u.st.client_is_newer THEN NoConf ELSE u.col.conf
    PROVE  Stage(cl, sv, v, s, r, FALSE)
<1> DEFINE col == AS!ServerDeleted(cl, sv)
           rows == SentRows(ClientSent(cl, sv), DecksSent(cl, sv))
           merged == MergeUnchunked(col, rows)
           newer == LocalIsNewer(cl, sv.mod)
<1>1. Exchanging(cl, sv, u, s, NoResp, TRUE)
    BY StageOf
<1>2. /\ s.work = ClientSent(cl, sv) /\ ~u.st.have_ids /\ u.col = col /\ s.await.rows = rows
      /\ s.await.conf = IF newer THEN cl.conf ELSE NoConf
    <2>1. s.local_is_newer = newer
        BY DEF Opened, Agreed
    <2>2. QED
        BY <1>1, <2>1 DEF Exchanging
<1>3. s.local_is_newer = newer /\ u.st.client_is_newer = newer /\ u.st.client_usn = cl.usn
    BY DEF Opened, Agreed
<1>4. cl.conf \in 0..MaxEdits /\ cl.conf # NoConf
    <2>1. cl.conf \in 0..MaxEdits
        BY Fields
    <2>2. QED
        BY <2>1 DEF NoConf
<1>5. merged.conf = sv.conf
    <2>1. col \in Collection /\ col.conf = sv.conf /\ Rows(rows)
        BY DeletionTypes, SentTyped
    <2> HIDE DEF col, rows
    <2>2. QED
        BY <2>1, <1>4, MergedFields
<1>6. v.col = AS!ServerUnchunked(cl, sv)
    <2>1. v.col = [merged EXCEPT !.conf = IF s.await.conf = NoConf THEN merged.conf ELSE s.await.conf]
        BY <1>2
    <2>2. (IF s.await.conf = NoConf THEN merged.conf ELSE s.await.conf)
            = IF newer THEN cl.conf ELSE sv.conf
        <3> HIDE DEF merged, newer
        <3> QED  BY <1>2, <1>4, <1>5
    <2>3. v.col = [merged EXCEPT !.conf = IF newer THEN cl.conf ELSE sv.conf]
        <3> HIDE DEF merged, newer
        <3> QED  BY <2>1, <2>2
    <2>4. QED
        BY <2>3, Stages
<1>7. r.rows = SentRows(col, PendingRows(col, cl.usn, Decks))
    BY <1>2, <1>3
<1>8. r.conf = IF s.local_is_newer THEN NoConf ELSE sv.conf
    BY <1>2, <1>3, DeletionTypes
<1>9. Exchanging(cl, sv, v, s, r, FALSE)
    BY <1>2, <1>6, <1>7, <1>8 DEF Exchanging
<1>10. Opened(cl, sv, v, s)
    BY DEF Opened
<1>11. QED
    BY <1>9, <1>10, StageOf

LEMMA AskForChunks ==
    ASSUME NEW cl \in Collection, NEW sv \in Collection, NEW u, NEW s, NEW t, NEW r,
           Opened(cl, sv, u, s), SameMeta(t, s), s.await.type = "applyChanges",
           Stage(cl, sv, u, s, r, FALSE), r.type = "changes", t.await.type = "chunk",
           LET merged == MergeUnchunked(s.work, r.rows)
               conf == IF r.conf = NoConf THEN merged.conf ELSE r.conf
           IN  t.work = [merged EXCEPT !.conf = conf]
    PROVE  Stage(cl, sv, u, t, NoResp, TRUE)
<1> DEFINE col == AS!ServerDeleted(cl, sv)
           c1 == ClientSent(cl, sv)
           rows == SentRows(col, PendingRows(col, cl.usn, Decks))
           merged == MergeUnchunked(c1, rows)
           newer == LocalIsNewer(cl, sv.mod)
<1>1. Exchanging(cl, sv, u, s, r, FALSE)
    BY StageOf
<1>2. /\ s.work = c1 /\ ~u.st.have_ids /\ u.col = AS!ServerUnchunked(cl, sv) /\ r.rows = rows
      /\ r.conf = IF newer THEN NoConf ELSE sv.conf
    <2>1. s.local_is_newer = newer
        BY DEF Opened, Agreed
    <2>2. QED
        BY <1>1, <2>1 DEF Exchanging
<1>3. merged.conf = cl.conf /\ sv.conf # NoConf
    <2>1. c1 \in Collection /\ c1.conf = cl.conf /\ Rows(rows) /\ sv.conf \in 0..MaxEdits
        BY DeletionTypes, SentTyped, Fields
    <2> HIDE DEF c1, rows
    <2>2. merged.conf = cl.conf
        BY <2>1, MergedFields
    <2> HIDE DEF merged
    <2>3. QED
        BY <2>1, <2>2 DEF NoConf
<1>4. t.work = AS!ClientUnchunked(cl, sv)
    <2>1. t.work = [merged EXCEPT !.conf = IF r.conf = NoConf THEN merged.conf ELSE r.conf]
        BY <1>2
    <2>2. (IF r.conf = NoConf THEN merged.conf ELSE r.conf)
            = IF newer THEN cl.conf ELSE sv.conf
        <3> HIDE DEF merged, newer
        <3> QED  BY <1>2, <1>3
    <2>3. t.work = [merged EXCEPT !.conf = IF newer THEN cl.conf ELSE sv.conf]
        <3> HIDE DEF merged, newer
        <3> QED  BY <2>1, <2>2
    <2>4. QED
        BY <2>3, Stages
<1>5. Received1(cl, sv, {}) = AS!ClientUnchunked(cl, sv)
    BY ExchangeTypes, NothingTaken DEF Received1
<1>6. NoResp.type # "chunk"
    BY DEF NoResp
<1>7. Receiving(cl, sv, u, t, NoResp, TRUE)
    <2>1. {} \in SUBSET ServerRows(cl, sv)
        OBVIOUS
    <2>2. QED
        BY <1>2, <1>4, <1>5, <1>6, <2>1 DEF Receiving
<1>8. QED
    BY <1>7, StayOpened, StageOf

LEMMA SendServerChunk ==
    ASSUME NEW cl \in Collection, NEW sv \in Collection, NEW u, NEW v, NEW s,
           Opened(cl, sv, u, s), s.await.type = "chunk",
           Stage(cl, sv, u, s, NoResp, TRUE), v.col = u.col,
           NEW ids, ids = IF u.st.have_ids THEN u.st.ids
                          ELSE PendingRows(u.col, u.st.client_usn, Chunked),
           NEW part \in ChunksOf(ids),
           v.st.server_usn = u.st.server_usn, v.st.client_usn = u.st.client_usn,
           v.st.client_is_newer = u.st.client_is_newer, v.st.have_ids, v.st.ids = ids \ part,
           NEW r, r.type = "chunk", r.rows = SentRows(u.col, part), r.done = ChunkDone(part)
    PROVE  Stage(cl, sv, v, s, r, FALSE)
<1>1. Receiving(cl, sv, u, s, NoResp, TRUE)
    BY StageOf
<1>2. PICK got \in SUBSET ServerRows(cl, sv) :
         /\ s.work = Received1(cl, sv, got) /\ u.col = AS!ServerUnchunked(cl, sv)
         /\ IF u.st.have_ids THEN u.st.ids = ServerRows(cl, sv) \ got ELSE got = {}
    BY <1>1 DEF Receiving
<1>3. ids = ServerRows(cl, sv) \ got
    <2>1. CASE u.st.have_ids
        BY <1>2, <2>1
    <2>2. CASE ~u.st.have_ids
        <3>1. u.st.client_usn = cl.usn
            BY DEF Opened
        <3>2. ids = ServerRows(cl, sv) /\ got = {}
            BY <1>2, <2>2, <3>1 DEF ServerRows
        <3>3. QED
            BY <3>2
    <2>3. QED
        BY <2>1, <2>2
<1>4. part \in SUBSET ids /\ ids \in SUBSET Chunked
    BY <1>3, ExchangeTypes DEF ChunksOf
<1>5. r.done => v.st.ids = {}
    <2>1. ChunkDone(part) => part = ids
        BY <1>4, LastChunk
    <2>2. QED
        BY <2>1
<1>6. Receiving(cl, sv, v, s, r, FALSE)
    BY <1>2, <1>3, <1>4, <1>5 DEF Receiving
<1>7. Opened(cl, sv, v, s)
    BY DEF Opened
<1>8. QED
    BY <1>6, <1>7, StageOf

(* The client takes a chunk, and either asks for the next one ...          *)
GotChunk(cl, sv, u, work, done) ==
    \E got \in SUBSET ServerRows(cl, sv) :
        /\ work = Received1(cl, sv, got) /\ u.col = AS!ServerUnchunked(cl, sv)
        /\ u.st.have_ids /\ u.st.ids = ServerRows(cl, sv) \ got
        /\ done => got = ServerRows(cl, sv)

LEMMA TakeServerChunk ==
    ASSUME NEW cl \in Collection, NEW sv \in Collection, NEW u, NEW s, NEW t, NEW r,
           Opened(cl, sv, u, s), s.await.type = "chunk",
           Stage(cl, sv, u, s, r, FALSE), r.type = "chunk",
           t.work = MergeChunk(s.work, r.rows, PendingUsn)
    PROVE  GotChunk(cl, sv, u, t.work, r.done)
<1> DEFINE all == ServerRows(cl, sv)
           s2 == AS!ServerUnchunked(cl, sv)
           c3 == AS!ClientUnchunked(cl, sv)
<1>1. Receiving(cl, sv, u, s, r, FALSE)
    BY StageOf
<1>2. PICK got \in SUBSET all :
         /\ s.work = Received1(cl, sv, got) /\ u.col = s2
         /\ \E part \in SUBSET (all \ got) :
                /\ r.rows = SentRows(u.col, part)
                /\ u.st.have_ids /\ u.st.ids = (all \ got) \ part
                /\ r.done => u.st.ids = {}
    BY <1>1 DEF Receiving
<1>3. PICK part \in SUBSET (all \ got) :
         /\ r.rows = SentRows(u.col, part) /\ u.st.have_ids /\ u.st.ids = (all \ got) \ part
         /\ r.done => u.st.ids = {}
    BY <1>2
<1>4. s2 \in Collection /\ c3 \in Collection /\ all \in SUBSET Objs
    BY ExchangeTypes DEF Objs
<1> HIDE DEF all, s2, c3
<1>5. got \in SUBSET Objs /\ part \in SUBSET Objs /\ got \cap part = {}
    BY <1>4
<1>6. MergeChunk(MergeChunk(c3, SentRows(s2, got), PendingUsn), SentRows(s2, part), PendingUsn)
        = MergeChunk(c3, SentRows(s2, got \cup part), PendingUsn)
    BY <1>4, <1>5, TakenTwice
<1>7. t.work = Received1(cl, sv, got \cup part)
    BY <1>2, <1>3, <1>6 DEF Received1, s2, c3
<1>8. /\ got \cup part \in SUBSET all /\ u.st.ids = all \ (got \cup part)
      /\ r.done => got \cup part = all
    BY <1>2, <1>3
<1>9. QED
    BY <1>2, <1>3, <1>7, <1>8 DEF GotChunk, all, s2

LEMMA AskForMore ==
    ASSUME NEW cl \in Collection, NEW sv \in Collection, NEW u, NEW s, NEW t, NEW r,
           Opened(cl, sv, u, s), SameMeta(t, s), s.await.type = "chunk",
           Stage(cl, sv, u, s, r, FALSE), r.type = "chunk", t.await.type = "chunk",
           t.work = MergeChunk(s.work, r.rows, PendingUsn)
    PROVE  Stage(cl, sv, u, t, NoResp, TRUE)
<1>1. PICK got \in SUBSET ServerRows(cl, sv) :
         /\ t.work = Received1(cl, sv, got) /\ u.col = AS!ServerUnchunked(cl, sv)
         /\ u.st.have_ids /\ u.st.ids = ServerRows(cl, sv) \ got
    <2>1. GotChunk(cl, sv, u, t.work, r.done)
        BY TakeServerChunk
    <2>2. QED
        BY <2>1 DEF GotChunk
<1>2. NoResp.type # "chunk"
    BY DEF NoResp
<1>3. Receiving(cl, sv, u, t, NoResp, TRUE)
    BY <1>1, <1>2 DEF Receiving
<1>4. QED
    BY <1>3, StayOpened, StageOf

(* ... or goes on to the rows that it has to send.                         *)
LEMMA BeginChunks ==
    ASSUME NEW cl \in Collection, NEW sv \in Collection, NEW u, NEW s, NEW t, NEW r,
           Opened(cl, sv, u, s), s.await.type = "chunk",
           Stage(cl, sv, u, s, r, FALSE), r.type = "chunk", r.done,
           t.work = MergeChunk(s.work, r.rows, PendingUsn),
           t.todo = PendingRows(t.work, PendingUsn, Chunked)
    PROVE  Took(cl, sv, u, t)
<1> DEFINE all == ClientRows(cl, sv)
<1>1. t.work = Received1(cl, sv, ServerRows(cl, sv)) /\ u.col = AS!ServerUnchunked(cl, sv)
    <2>1. GotChunk(cl, sv, u, t.work, r.done)
        BY TakeServerChunk
    <2>2. QED
        BY <2>1 DEF GotChunk
<1>2. t.work = AS!ClientReceived(cl, sv)
    BY <1>1, Stages
<1>3. t.todo = all
    BY <1>2 DEF ClientRows
<1>4. all \ t.todo = {}
    BY <1>3
<1>5. sv.usn \in Nat /\ AS!ClientReceived(cl, sv) \in Collection
    BY ChunkTypes, Fields
<1>6. ClientStamped(cl, sv, {}) = AS!ClientReceived(cl, sv)
    BY <1>5, NothingStamped DEF ClientStamped
<1>7. ServerTook(cl, sv, {}) = AS!ServerUnchunked(cl, sv)
    BY ExchangeTypes, ChunkTypes, NothingTaken DEF ServerTook
<1>8. QED
    BY <1>1, <1>2, <1>3, <1>4, <1>6, <1>7 DEF Took

(* A chunk that the client sends.                                          *)
LEMMA SendClientChunk ==
    ASSUME NEW cl \in Collection, NEW sv \in Collection, NEW u, NEW s, NEW t,
           NEW part \in ChunksOf(s.todo),
           Opened(cl, sv, u, s), SameMeta(t, s), Took(cl, sv, u, s),
           t.await.type = "applyChunk", t.todo = s.todo \ part, t.last = ChunkDone(part),
           t.work = StampRows(s.work, part, s.server_usn),
           t.await.rows = SentRows(t.work, part)
    PROVE  Stage(cl, sv, u, t, NoResp, TRUE)
<1> DEFINE all == ClientRows(cl, sv)
           c4 == AS!ClientReceived(cl, sv)
<1>1. /\ s.todo \subseteq all /\ s.work = ClientStamped(cl, sv, all \ s.todo)
      /\ u.col = ServerTook(cl, sv, all \ s.todo)
    BY DEF Took
<1>2. c4 \in Collection /\ all \in SUBSET Chunked /\ sv.usn \in Nat
    BY ChunkTypes, Fields
<1> HIDE DEF all, c4
<1>3. part \in SUBSET s.todo
    BY DEF ChunksOf
<1>4. /\ t.todo \subseteq all /\ part \in SUBSET (all \ t.todo)
      /\ (all \ t.todo) \ part = all \ s.todo /\ (all \ s.todo) \cup part = all \ t.todo
    BY <1>1, <1>3
<1>5. t.work = ClientStamped(cl, sv, all \ t.todo)
    <2> DEFINE before == all \ s.todo
    <2> HIDE DEF before
    <2>1. StampRows(StampRows(c4, before, sv.usn), part, sv.usn)
            = StampRows(c4, before \cup part, sv.usn)
        BY <1>2, StampedTwice
    <2>2. s.server_usn = sv.usn
        BY DEF Opened, Agreed
    <2>3. t.work = StampRows(c4, before \cup part, sv.usn)
        BY <1>1, <2>1, <2>2 DEF ClientStamped, c4, before
    <2>4. QED
        BY <1>4, <2>3 DEF ClientStamped, c4, before
<1>6. t.last => t.todo = {}
    <2>1. s.todo \in SUBSET Chunked
        BY <1>1, <1>2
    <2>2. ChunkDone(part) => part = s.todo
        BY <2>1, LastChunk
    <2>3. QED
        BY <2>2
<1>7. NoResp.type # "ok"
    BY DEF NoResp
<1>8. Sending(cl, sv, u, t, NoResp, TRUE)
    BY <1>1, <1>4, <1>5, <1>6, <1>7 DEF Sending, all
<1>9. QED
    BY <1>8, StayOpened, StageOf

LEMMA TakeClientChunk ==
    ASSUME NEW cl \in Collection, NEW sv \in Collection, NEW u, NEW v, NEW s,
           Opened(cl, sv, u, s), s.await.type = "applyChunk",
           Stage(cl, sv, u, s, NoResp, TRUE), v.st = u.st,
           v.col = MergeChunk(u.col, s.await.rows, u.st.client_usn)
    PROVE  Stage(cl, sv, v, s, [type |-> "ok"], FALSE)
<1> DEFINE all == ClientRows(cl, sv)
           sent == all \ s.todo
           c4 == AS!ClientReceived(cl, sv)
           cm == AS!ClientMerged(cl, sv)
           s2 == AS!ServerUnchunked(cl, sv)
<1>1. Sending(cl, sv, u, s, NoResp, TRUE)
    BY StageOf
<1>2. /\ s.todo \subseteq all /\ s.work = ClientStamped(cl, sv, sent)
      /\ s.last => s.todo = {}
      /\ \E part \in SUBSET sent : /\ s.await.rows = SentRows(s.work, part)
                                   /\ u.col = ServerTook(cl, sv, sent \ part)
    BY <1>1 DEF Sending
<1>3. PICK part \in SUBSET sent : /\ s.await.rows = SentRows(s.work, part)
                                  /\ u.col = ServerTook(cl, sv, sent \ part)
    BY <1>2
<1>4. /\ c4 \in Collection /\ cm \in Collection /\ s2 \in Collection
      /\ all \in SUBSET Chunked /\ Chunked \subseteq Objs /\ sv.usn \in Nat
    BY ChunkTypes, ExchangeTypes, Fields DEF Objs
<1>5. cm = StampRows(c4, all, sv.usn) /\ s.work = StampRows(c4, sent, sv.usn)
    BY <1>2, Stages DEF ClientStamped
<1> HIDE DEF all, c4, cm, s2
<1>6. sent \in SUBSET Objs /\ sent \ part \in SUBSET Objs /\ part \in SUBSET Objs
    BY <1>4
<1>7. SentRows(s.work, part) = SentRows(cm, part)
    <2>1. cm.row = [o \in Objs |-> IF o \in all THEN StampRow(c4.row[o], sv.usn) ELSE c4.row[o]]
        <3> DEFINE new == StampRows(c4, all, sv.usn)
        <3>1. /\ new \in Collection
              /\ new.row = [o \in Objs |->
                    IF o \in all THEN StampRow(c4.row[o], sv.usn) ELSE c4.row[o]]
            BY <1>4, StampedFields
        <3>2. QED
            BY <1>5, <3>1
    <2>2. s.work.row = [o \in Objs |->
             IF o \in sent THEN StampRow(c4.row[o], sv.usn) ELSE c4.row[o]]
        <3> DEFINE new == StampRows(c4, sent, sv.usn)
        <3>1. /\ new \in Collection
              /\ new.row = [o \in Objs |->
                    IF o \in sent THEN StampRow(c4.row[o], sv.usn) ELSE c4.row[o]]
            BY <1>4, StampedFields
        <3>2. QED
            BY <1>5, <3>1
    <2>3. \A o \in part : s.work.row[o] = cm.row[o]
        BY <1>6, <2>1, <2>2
    <2>4. QED
        BY <2>3 DEF SentRows
<1>8. v.col = ServerTook(cl, sv, sent)
    <2> DEFINE A == sent \ part
    <2>1. A \in SUBSET Objs /\ A \cap part = {} /\ A \cup part = sent
        BY <1>6
    <2> HIDE DEF A, sent
    <2>2. MergeChunk(MergeChunk(s2, SentRows(cm, A), cl.usn), SentRows(cm, part), cl.usn)
            = MergeChunk(s2, SentRows(cm, A \cup part), cl.usn)
        BY <1>4, <1>6, <2>1, TakenTwice
    <2>3. u.st.client_usn = cl.usn
        BY DEF Opened
    <2>4. u.col = MergeChunk(s2, SentRows(cm, A), cl.usn)
        BY <1>3 DEF ServerTook, s2, cm, A
    <2>5. v.col = MergeChunk(s2, SentRows(cm, sent), cl.usn)
        BY <1>3, <1>7, <2>1, <2>2, <2>3, <2>4
    <2>6. QED
        BY <2>5 DEF ServerTook, s2, cm
<1>9. Sending(cl, sv, v, s, [type |-> "ok"], FALSE)
    BY <1>2, <1>8 DEF Sending, all
<1>10. Opened(cl, sv, v, s)
    BY DEF Opened
<1>11. QED
    BY <1>9, <1>10, StageOf

(* All rows have been exchanged.                                           *)
LEMMA AllTaken ==
    ASSUME NEW cl \in Collection, NEW sv \in Collection, NEW u, NEW s,
           Took(cl, sv, u, s), s.todo = {}
    PROVE  s.work = AS!ClientMerged(cl, sv) /\ u.col = AS!ServerMerged(cl, sv)
<1> DEFINE all == ClientRows(cl, sv)
<1>1. all \ {} = all
    OBVIOUS
<1>2. s.work = ClientStamped(cl, sv, all) /\ u.col = ServerTook(cl, sv, all)
    BY <1>1 DEF Took
<1>3. QED
    BY <1>2, Stages

LEMMA AskForSanity ==
    ASSUME NEW cl \in Collection, NEW sv \in Collection, NEW u, NEW s, NEW t,
           Opened(cl, sv, u, s), SameMeta(t, s), Took(cl, sv, u, s), s.todo = {},
           t.await.type = "sanity", t.work = s.work, t.await.counts = SanityCounts(s.work)
    PROVE  Stage(cl, sv, u, t, NoResp, TRUE)
<1>1. s.work = AS!ClientMerged(cl, sv) /\ u.col = AS!ServerMerged(cl, sv)
    BY AllTaken
<1>2. NoResp.type # "sanity"
    BY DEF NoResp
<1>3. Checking(cl, sv, u, t, NoResp, TRUE)
    BY <1>1, <1>2 DEF Checking
<1>4. QED
    BY <1>3, StayOpened, StageOf

LEMMA CompareSanity ==
    ASSUME NEW cl \in Collection, NEW sv \in Collection, NEW u, NEW v, NEW s,
           Opened(cl, sv, u, s), s.await.type = "sanity",
           Stage(cl, sv, u, s, NoResp, TRUE), v.st = u.st, NEW r, r.type = "sanity",
           r.good => v.col = u.col /\ s.await.counts = SanityCounts(u.col)
    PROVE  Stage(cl, sv, v, s, r, FALSE)
<1>1. Checking(cl, sv, u, s, NoResp, TRUE)
    BY StageOf
<1>2. /\ s.work = AS!ClientMerged(cl, sv) /\ s.await.counts = SanityCounts(s.work)
      /\ u.col = AS!ServerMerged(cl, sv)
    BY <1>1 DEF Checking
<1>3. Checking(cl, sv, v, s, r, FALSE)
    BY <1>2 DEF Checking
<1>4. Opened(cl, sv, v, s)
    BY DEF Opened
<1>5. QED
    BY <1>3, <1>4, StageOf

LEMMA AskToFinish ==
    ASSUME NEW cl \in Collection, NEW sv \in Collection, NEW u, NEW s, NEW t, NEW r,
           Opened(cl, sv, u, s), SameMeta(t, s), s.await.type = "sanity",
           Stage(cl, sv, u, s, r, FALSE), r.type = "sanity", r.good,
           t.await.type = "finish", t.work = s.work, t.await.base = cl
    PROVE  /\ Stage(cl, sv, u, t, NoResp, TRUE)
           /\ u.col = AS!ServerMerged(cl, sv)
           /\ SanityCounts(AS!ClientMerged(cl, sv)) = SanityCounts(AS!ServerMerged(cl, sv))
           /\ NormalSyncRequired(cl, sv.mod, sv.scm)
<1>1. Checking(cl, sv, u, s, r, FALSE)
    BY StageOf
<1>2. /\ s.work = AS!ClientMerged(cl, sv) /\ u.col = AS!ServerMerged(cl, sv)
      /\ SanityCounts(AS!ClientMerged(cl, sv)) = SanityCounts(AS!ServerMerged(cl, sv))
    BY <1>1 DEF Checking
<1>3. Finishing(cl, sv, t)
    BY <1>2 DEF Finishing
<1>4. Opened(cl, sv, u, t)
    BY StayOpened
<1>5. Stage(cl, sv, u, t, NoResp, TRUE)
    BY <1>3, <1>4, StageOf
<1>6. QED
    BY <1>2, <1>5 DEF Opened, Agreed

-----------------------------------------------------------------------------
(* The clock.                                                              *)

LEMMA Sizes ==
    ASSUME NEW S, IsFiniteSet(S), NEW T
    PROVE  /\ T \subseteq S => IsFiniteSet(T) /\ Cardinality(T) <= Cardinality(S)
           /\ \A x : x \in S /\ T \subseteq S \ {x} =>
                 IsFiniteSet(T) /\ Cardinality(T) <= Cardinality(S) - 1
           /\ \A x : T \subseteq S \cup {x} =>
                 IsFiniteSet(T) /\ Cardinality(T) <= Cardinality(S) + 1
           /\ Cardinality(S) \in Nat
           /\ IsFiniteSet(T) => Cardinality(T) \in Nat
<1>1. Cardinality(S) \in Nat /\ (IsFiniteSet(T) => Cardinality(T) \in Nat)
    BY FS_CardinalityType
<1>2. ASSUME T \subseteq S
      PROVE  IsFiniteSet(T) /\ Cardinality(T) <= Cardinality(S)
    BY <1>2, FS_Subset
<1>3. ASSUME NEW x, x \in S, T \subseteq S \ {x}
      PROVE  IsFiniteSet(T) /\ Cardinality(T) <= Cardinality(S) - 1
    <2>1. IsFiniteSet(S \ {x}) /\ Cardinality(S \ {x}) = Cardinality(S) - 1
        BY <1>3, FS_RemoveElement
    <2>2. QED
        BY <1>3, <2>1, FS_Subset
<1>4. ASSUME NEW x, T \subseteq S \cup {x}
      PROVE  IsFiniteSet(T) /\ Cardinality(T) <= Cardinality(S) + 1
    <2>1. /\ IsFiniteSet(S \cup {x})
          /\ Cardinality(S \cup {x}) = Cardinality(S) \/ Cardinality(S \cup {x}) = Cardinality(S) + 1
        BY FS_AddElement
    <2>2. IsFiniteSet(T) /\ Cardinality(T) <= Cardinality(S \cup {x}) /\ Cardinality(T) \in Nat
        BY <1>4, <2>1, FS_Subset, FS_CardinalityType
    <2>3. QED
        BY <1>1, <2>1, <2>2
<1>5. QED
    BY <1>1, <1>2, <1>3, <1>4

(* Nobody may move the clock who could not before, or it is a new sync, or *)
(* the clock has moved.                                                    *)
LEMMA BoundKeeps ==
    ASSUME SyncInv, ClockBound, syncs' \in Nat,
           \/ /\ Tickers' \subseteq Tickers /\ Orders' \subseteq Orders
              /\ clk' = clk /\ syncs' = syncs
           \/ /\ \E c \in Tickers : Tickers' \subseteq Tickers \ {c}
              /\ Orders' \subseteq Orders /\ clk' = clk + 1 /\ syncs' = syncs
           \/ /\ \E m \in Orders : Orders' \subseteq Orders \ {m}
              /\ Tickers' \subseteq Tickers /\ clk' = clk + 1 /\ syncs' = syncs
           \/ /\ \E c \in Tickers : Tickers' \subseteq Tickers \ {c}
              /\ \E m : Orders' \subseteq Orders \cup {m}
              /\ clk' = clk /\ syncs' = syncs
           \/ /\ \E c : Tickers' \subseteq Tickers \cup {c}
              /\ Orders' \subseteq Orders /\ clk' = clk /\ syncs' = syncs + 1
           \/ /\ Tickers' \subseteq Tickers /\ Orders' \subseteq Orders
              /\ clk < MaxClock /\ clk' = clk + 1 /\ syncs' = syncs
    PROVE  ClockBound'
<1> DEFINE T == Tickers
           O == Orders
           t == Cardinality(Tickers)
           o == Cardinality(Orders)
           TT == Tickers'
           OO == Orders'
           tt == Cardinality(TT)
           oo == Cardinality(OO)
<1>1. /\ IsFiniteSet(T) /\ IsFiniteSet(O) /\ t \in Nat /\ o \in Nat
      /\ t + o <= syncs /\ clk + (t + o) <= MaxClock + syncs
    BY FS_CardinalityType DEF ClockBound
<1>2. clk \in Nat /\ syncs \in Nat /\ MaxClock \in Nat
    BY Numbers, SyncBounds
<1>3. /\ TT \subseteq T => IsFiniteSet(TT) /\ tt <= t
      /\ \A x : x \in T /\ TT \subseteq T \ {x} => IsFiniteSet(TT) /\ tt <= t - 1
      /\ \A x : TT \subseteq T \cup {x} => IsFiniteSet(TT) /\ tt <= t + 1
      /\ IsFiniteSet(TT) => tt \in Nat
    BY <1>1, Sizes
<1>4. /\ OO \subseteq O => IsFiniteSet(OO) /\ oo <= o
      /\ \A x : x \in O /\ OO \subseteq O \ {x} => IsFiniteSet(OO) /\ oo <= o - 1
      /\ \A x : OO \subseteq O \cup {x} => IsFiniteSet(OO) /\ oo <= o + 1
      /\ IsFiniteSet(OO) => oo \in Nat
    BY <1>1, Sizes
<1>5. ClockBound' <=> /\ IsFiniteSet(TT) /\ IsFiniteSet(OO)
                      /\ tt + oo <= syncs' /\ clk' + (tt + oo) <= MaxClock + syncs'
    BY DEF ClockBound
<1>6. /\ IsFiniteSet(TT) /\ IsFiniteSet(OO)
      /\ \/ tt + oo <= t + o /\ clk' = clk /\ syncs' = syncs
         \/ tt + oo <= (t + o) - 1 /\ clk' = clk + 1 /\ syncs' = syncs
         \/ tt + oo <= (t + o) + 1 /\ clk' = clk /\ syncs' = syncs + 1
         \/ tt + oo <= t + o /\ clk < MaxClock /\ clk' = clk + 1 /\ syncs' = syncs
    <2> HIDE DEF T, O, TT, OO, t, o, tt, oo
    <2>1. CASE TT \subseteq T /\ OO \subseteq O
        <3>1. tt <= t /\ oo <= o /\ tt \in Nat /\ oo \in Nat /\ IsFiniteSet(TT) /\ IsFiniteSet(OO)
            BY <1>3, <1>4, <2>1
        <3>2. (\A c \in T : ~(TT \subseteq T \ {c})) \/ (\E c \in T : TT \subseteq T \ {c})
            OBVIOUS
        <3>3. (\E c \in T : TT \subseteq T \ {c}) => tt <= t - 1
            BY <1>3
        <3>4. (\E m \in O : OO \subseteq O \ {m}) => oo <= o - 1
            BY <1>4
        <3>5. \/ clk' = clk /\ (syncs' = syncs \/ syncs' = syncs + 1)
              \/ /\ clk' = clk + 1 /\ syncs' = syncs
                 /\ \/ \E c \in T : TT \subseteq T \ {c}
                    \/ \E m \in O : OO \subseteq O \ {m}
                    \/ clk < MaxClock
            BY DEF T, O, TT, OO
        <3>6. QED
            BY <1>1, <1>2, <3>1, <3>3, <3>4, <3>5
    <2>2. CASE OO \subseteq O /\ ~(TT \subseteq T)
        <3>1. /\ \E c : TT \subseteq T \cup {c}
              /\ clk' = clk /\ syncs' = syncs + 1
            BY <2>2 DEF T, O, TT, OO
        <3>2. tt <= t + 1 /\ IsFiniteSet(TT) /\ oo <= o /\ IsFiniteSet(OO)
            BY <1>3, <1>4, <2>2, <3>1
        <3>3. tt \in Nat /\ oo \in Nat
            BY <1>3, <1>4, <3>2
        <3>4. QED
            BY <1>1, <1>2, <3>1, <3>2, <3>3
    <2>3. CASE ~(OO \subseteq O)
        <3>1. /\ \E c \in T : TT \subseteq T \ {c}
              /\ \E m : OO \subseteq O \cup {m}
              /\ clk' = clk /\ syncs' = syncs
            BY <2>3 DEF T, O, TT, OO
        <3>2. tt <= t - 1 /\ IsFiniteSet(TT) /\ oo <= o + 1 /\ IsFiniteSet(OO)
            BY <1>3, <1>4, <3>1
        <3>3. tt \in Nat /\ oo \in Nat
            BY <1>3, <1>4, <3>2
        <3>4. QED
            BY <1>1, <1>2, <3>1, <3>2, <3>3
    <2>4. QED
        BY <2>1, <2>2, <2>3
<1> HIDE DEF T, O, TT, OO, t, o, tt, oo
<1>7. tt \in Nat /\ oo \in Nat
    BY <1>3, <1>4, <1>6
<1>8. QED
    BY <1>1, <1>2, <1>5, <1>6, <1>7

(* Whoever may move the clock finds it within the bound of AtomicSync.     *)
LEMMA MayMove ==
    ASSUME SyncInv, ClockBound, Tickers # {} \/ Orders # {}
    PROVE  clk < MaxClock + 3 * MaxSyncs
<1>1. /\ Cardinality(Tickers) \in Nat /\ Cardinality(Orders) \in Nat
      /\ clk + (Cardinality(Tickers) + Cardinality(Orders)) <= MaxClock + syncs
    BY FS_CardinalityType DEF ClockBound
<1>2. Cardinality(Tickers) # 0 \/ Cardinality(Orders) # 0
    BY FS_EmptySet DEF ClockBound
<1>3. syncs \in 0..MaxSyncs /\ MaxSyncs \in Nat /\ MaxClock \in Nat /\ clk \in Nat
    BY SyncBounds DEF SyncInv, Data
<1>4. QED
    BY <1>1, <1>2, <1>3

-----------------------------------------------------------------------------
(* A step of the client c, which leaves it the session s.                  *)

AbstractStep ==
    \/ AS!Next
    \/ UNCHANGED <<srv, torn, cli, Answered, Offered, Uploaded, clk, edits, born>>

Acts(c, s) ==
    /\ sess' = [sess EXCEPT ![c] = s] /\ resp' = [resp EXCEPT ![c] = NoResp]
    /\ net \subseteq net' /\ \A m \in net' \ net : m.from = c
    /\ \A d \in Clients \ {c} : cli'[d] = cli[d]
    /\ UNCHANGED <<srv, torn, user, epoch, edits, born>>

LEMMA ActsOn ==
    ASSUME SyncInv, NEW c \in Clients, NEW s, Acts(c, s)
    PROVE  /\ \A d \in Clients : /\ sess'[d] = IF d = c THEN s ELSE sess[d]
                                 /\ resp'[d] = IF d = c THEN NoResp ELSE resp[d]
           /\ \A d \in Clients : d # c /\ sess[d].await.type \in Underway =>
                 (sess[d].await \in net' <=> sess[d].await \in net)
           /\ \A d \in Clients : sess[d].await.type \in Underway =>
                 /\ SessionShape(sess[d], syncs, epoch)
                 /\ Awaits(d, sess[d], resp[d], syncs, epoch)
<1>1. \A d \in Clients : /\ sess'[d] = IF d = c THEN s ELSE sess[d]
                         /\ resp'[d] = IF d = c THEN NoResp ELSE resp[d]
    BY OneSession, OneAnswer DEF SyncInv, Talk, Acts
<1>2. ASSUME NEW d \in Clients, sess[d].await.type \in Underway
      PROVE  /\ SessionShape(sess[d], syncs, epoch)
             /\ Awaits(d, sess[d], resp[d], syncs, epoch)
    <2>1. ~Idle(d)
        BY <1>2, NoSessionFields, Numbers DEF Idle, Underway, Stateful
    <2>2. QED
        BY <2>1, SessionIs
<1>3. ASSUME NEW d \in Clients, d # c, sess[d].await.type \in Underway
      PROVE  sess[d].await \in net' <=> sess[d].await \in net
    <2>1. sess[d].await.from = d
        BY <1>2, <1>3 DEF Awaits
    <2>2. QED
        BY <1>3, <2>1 DEF Acts
<1>4. QED
    BY <1>1, <1>2, <1>3

LEMMA ActsStaged ==
    ASSUME SyncInv, Staged, NEW c \in Clients, NEW s, Acts(c, s),
           s.await.type \in Underway /\ user.st.skey = s.skey /\ user.col # NoCol
             => Stage(cli'[c], srv, user, s, NoResp, s.await \in net')
    PROVE  Staged'
<1> SUFFICES ASSUME NEW d \in Clients,
                    sess'[d].await.type \in Underway, user'.st.skey = sess'[d].skey,
                    user'.col # NoCol
             PROVE  Stage(cli'[d], srv', user', sess'[d], resp'[d], sess'[d].await \in net')
    BY DEF Staged, Joined, Asked
<1>1. srv' = srv /\ user' = user
    BY DEF Acts
<1>2. CASE d = c
    BY <1>1, <1>2, ActsOn
<1>3. CASE d # c
    <2>1. sess'[d] = sess[d] /\ resp'[d] = resp[d] /\ cli'[d] = cli[d]
        BY <1>3, ActsOn DEF Acts
    <2>2. sess[d].await \in net' <=> sess[d].await \in net
        BY <1>3, <2>1, ActsOn
    <2>3. (sess[d].await \in net') = (sess[d].await \in net)
        BY <2>2
    <2>4. Stage(cli[d], srv, user, sess[d], resp[d], sess[d].await \in net)
        BY <1>1, <2>1 DEF Staged, Joined, Asked
    <2>5. QED
        BY <1>1, <2>1, <2>3, <2>4
<1>4. QED
    BY <1>2, <1>3

LEMMA ActsCurrent ==
    ASSUME SyncInv, Current, NEW c \in Clients, NEW s, Acts(c, s),
           s.await.type = "start" => Starting(cli'[c], srv, s, TRUE, epoch)
    PROVE  Current'
<1> SUFFICES ASSUME NEW d \in Clients
             PROVE  /\ resp'[d].type = "meta" => Told(srv', resp'[d], epoch')
                    /\ sess'[d].await.type = "start" =>
                          Starting(cli'[d], srv', sess'[d], sess'[d].await \in net', epoch')
    BY DEF Current, Asked
<1>1. srv' = srv /\ epoch' = epoch /\ NoResp.type # "meta"
    BY DEF Acts, NoResp
<1>2. CASE d = c
    <2>1. s.await.type = "start" => Starting(cli'[c], srv, s, s.await \in net', epoch)
        BY DEF Starting
    <2>2. QED
        BY <1>1, <1>2, <2>1, ActsOn
<1>3. CASE d # c
    <2>1. sess'[d] = sess[d] /\ resp'[d] = resp[d] /\ cli'[d] = cli[d]
        BY <1>3, ActsOn DEF Acts
    <2>2. sess[d].await.type = "start" =>
             (sess[d].await \in net' <=> sess[d].await \in net)
        BY <1>3, ActsOn, UnderwayTypes
    <2>3. /\ resp[d].type = "meta" => Told(srv, resp[d], epoch)
          /\ sess[d].await.type = "start" =>
                Starting(cli[d], srv, sess[d], sess[d].await \in net, epoch)
        BY DEF Current, Asked
    <2>4. QED
        BY <1>1, <2>1, <2>2, <2>3 DEF Starting
<1>4. QED
    BY <1>2, <1>3

LEMMA ActsCommittable ==
    ASSUME Committable, NEW c \in Clients, NEW s, Acts(c, s),
           \A m \in net' \ net : ~(m.type = "finish" /\ InSession(m))
    PROVE  Acceptable' = Acceptable /\ Offered' = Offered /\ Committable'
<1>1. user' = user /\ srv' = srv /\ net \subseteq net'
    BY DEF Acts
<1>2. Acceptable' = Acceptable
    BY <1>1 DEF Acceptable, InSession
<1>3. Offered' = Offered
    BY <1>2 DEF Offered
<1>4. QED
    BY <1>1, <1>2, <1>3 DEF Committable

LEMMA ActsUploads ==
    ASSUME SyncInv, UploadsApart, NEW c \in Clients, NEW s, Acts(c, s),
           \A m \in net' \ net : m.type # "upload", clk' \in {clk, clk + 1}
    PROVE  Uploaded' = Uploaded /\ UploadsApart'
<1>1. \A m : m \in net' /\ m.type = "upload" <=> m \in net /\ m.type = "upload"
    BY DEF Acts
<1>2. {m \in net' : m.type = "upload"} = {m \in net : m.type = "upload"}
    BY <1>1
<1>3. Uploaded' = Uploaded
    BY <1>2 DEF Uploaded
<1>4. clk \in Nat /\ clk <= clk'
    BY Numbers
<1>5. \A m \in net : m.type = "upload" => m.col.mod \in Nat
    BY Fields DEF SyncInv, Talk, RequestOK
<1>6. UploadsApart'
    <2> SUFFICES ASSUME NEW m \in net', m.type = "upload"
                 PROVE  /\ m.col.mod <= clk'
                        /\ \A n \in net' : n.type = "upload" /\ m.col.mod = n.col.mod => m = n
        BY DEF UploadsApart
    <2>1. /\ m \in net /\ m.col.mod \in Nat /\ m.col.mod <= clk
          /\ \A n \in net : n.type = "upload" /\ m.col.mod = n.col.mod => m = n
        BY <1>1, <1>5 DEF UploadsApart
    <2>2. QED
        BY <1>1, <1>4, <2>1
<1>7. QED
    BY <1>3, <1>6

LEMMA ActsAnswered ==
    ASSUME SyncInv, NEW c \in Clients, NEW s, Acts(c, s)
    PROVE  Answered' = [Answered EXCEPT ![c] = NoCol]
<1>1. \A d \in Clients : /\ sess'[d] = IF d = c THEN s ELSE sess[d]
                         /\ resp'[d] = IF d = c THEN NoResp ELSE resp[d]
    BY ActsOn
<1>2. NoResp.type \notin {"finish", "download"}
    BY DEF NoResp
<1> DEFINE Of(r, w) == CASE r.type = "finish"   -> Finish(w.work, w.server_usn + 1, r.mod)
                         [] r.type = "download" -> r.col
                         [] OTHER               -> NoCol
<1>3. Answered = [d \in Clients |-> Of(resp[d], sess[d])]
    BY DEF Answered, FinishedWork
<1>4. Answered' = [d \in Clients |-> Of(resp'[d], sess'[d])]
    BY DEF Answered, FinishedWork
<1>5. Of(NoResp, s) = NoCol
    BY <1>2
<1> HIDE DEF Of
<1>6. QED
    BY <1>1, <1>3, <1>4, <1>5

(* A client that may not move the clock any more.                          *)
LEMMA ActsTickers ==
    ASSUME SyncInv, NEW c \in Clients, NEW s, Acts(c, s)
    PROVE  /\ ~MayTick(s) => Tickers' = Tickers \ {c}
           /\ MayTick(sess[c]) => Tickers' \subseteq Tickers /\ c \in Tickers
           /\ Tickers' \subseteq Tickers \cup {c}
<1>1. \A d \in Clients : sess'[d] = IF d = c THEN s ELSE sess[d]
    BY ActsOn
<1>2. Tickers' = {d \in Clients : MayTick(sess'[d])}
    BY DEF Tickers, MayTick
<1>3. QED
    BY <1>1, <1>2 DEF Tickers

LEMMA ActsOrders ==
    ASSUME NEW c \in Clients, NEW s, Acts(c, s),
           \A m \in net' \ net : m.type \notin {"finish", "download"}
    PROVE  Orders' = Orders
BY DEF Acts, Orders

(* What the client does for itself: the atomic sync stutters, or loses the *)
(* answer that the client had.                                             *)
LEMMA QuietAct ==
    ASSUME SyncInv, SerialInv, NEW c \in Clients, NEW s, Acts(c, s), UNCHANGED <<cli, clk>>,
           \A m \in net' \ net : m.type # "upload" /\ ~(m.type = "finish" /\ InSession(m)),
           s.await.type \in Underway /\ user.st.skey = s.skey /\ user.col # NoCol
             => Stage(cli[c], srv, user, s, NoResp, s.await \in net'),
           s.await.type = "start" => Starting(cli[c], srv, s, TRUE, epoch),
           ClockBound'
    PROVE  SerialInv' /\ AbstractStep
<1>1. cli' = cli /\ clk' = clk
    OBVIOUS
<1>2. Staged' /\ Current'
    BY <1>1, ActsStaged, ActsCurrent DEF SerialInv
<1>3. Committable' /\ Offered' = Offered
    BY ActsCommittable DEF SerialInv
<1>4. UploadsApart' /\ Uploaded' = Uploaded
    BY <1>1, ActsUploads DEF SerialInv
<1>5. SerialInv'
    BY <1>2, <1>3, <1>4 DEF SerialInv
<1>6. /\ Answered' = [Answered EXCEPT ![c] = NoCol]
      /\ UNCHANGED <<srv, torn, edits, born>>
    BY ActsAnswered DEF Acts
<1>7. CASE Answered[c] = NoCol
    <2>1. Answered' = Answered
        BY <1>6, <1>7 DEF Answered
    <2>2. QED
        BY <1>1, <1>3, <1>4, <1>5, <1>6, <2>1 DEF AbstractStep
<1>8. CASE Answered[c] # NoCol
    <2>1. AS!Lose(c)
        BY <1>1, <1>3, <1>4, <1>6, <1>8 DEF AS!Lose, AS!NoCol, NoCol, AS!Absent, AS!NoGrave,
                                            Absent, NoGrave
    <2>2. QED
        BY <1>5, <2>1 DEF AbstractStep, AS!Next
<1>9. QED
    BY <1>7, <1>8

-----------------------------------------------------------------------------
(* Steps of a client that the atomic sync does not see.                    *)

LEMMA QuietEnd ==
    ASSUME SyncInv, SerialInv, NEW c \in Clients, Acts(c, NoSession),
           UNCHANGED <<cli, clk, syncs>>, \A m \in net' \ net : m.type = "abort"
    PROVE  SerialInv' /\ AbstractStep
<1>1. NoSession.await.type = "none"
    BY NoSessionFields, Numbers
<1>2. "none" \notin Underway
    BY DEF Underway, Stateful
<1>3. Tickers' \subseteq Tickers
    BY <1>1, ActsTickers DEF MayTick
<1>4. Orders' = Orders
    BY ActsOrders
<1>5. ClockBound'
    BY <1>3, <1>4, Numbers, BoundKeeps DEF SerialInv
<1>6. \A m \in net' \ net : m.type # "upload" /\ ~(m.type = "finish" /\ InSession(m))
    OBVIOUS
<1>7. QED
    BY <1>1, <1>2, <1>5, <1>6, QuietAct

LEMMA RolledBack ==
    ASSUME NEW key, NEW bad, NEW m
    PROVE  LET s == [[NoSession EXCEPT !.skey = key, !.bad = bad] EXCEPT !.await = m]
           IN  s.await = m /\ s.bad = bad
BY DEF NoSession

LEMMA QuietRollBack ==
    ASSUME SyncInv, SerialInv, NEW c \in Clients, NEW bad \in BOOLEAN, RollBack(c, bad),
           resp' = [resp EXCEPT ![c] = NoResp],
           UNCHANGED <<srvVars, cli, clk, edits, born, syncs>>, bad => MayTick(sess[c])
    PROVE  SerialInv' /\ AbstractStep
<1> DEFINE m == Request(c, sess[c], "abort")
           s == [[NoSession EXCEPT !.skey = sess[c].skey, !.bad = bad] EXCEPT !.await = m]
<1>1. sess' = [sess EXCEPT ![c] = s] /\ net' = net \cup {m}
    BY DEF RollBack, Send
<1>2. m.type = "abort" /\ m.from = c
    BY DEF Request
<1>3. s.await = m /\ s.bad = bad
    BY RolledBack
<1> HIDE DEF m, s
<1>4. Acts(c, s)
    BY <1>1, <1>2 DEF Acts, srvVars
<1>5. "abort" \notin Underway
    BY DEF Underway, Stateful
<1>6. Tickers' \subseteq Tickers
    <2>1. CASE bad
        BY <2>1, <1>4, ActsTickers
    <2>2. CASE ~bad
        BY <2>2, <1>2, <1>3, <1>4, ActsTickers DEF MayTick
    <2>3. QED
        BY <2>1, <2>2
<1>7. \A n \in net' \ net : n.type = "abort"
    BY <1>1, <1>2
<1>8. Orders' = Orders
    BY <1>4, <1>7, ActsOrders
<1>9. ClockBound'
    BY <1>6, <1>8, Numbers, BoundKeeps DEF SerialInv
<1>10. \A n \in net' \ net : n.type # "upload" /\ ~(n.type = "finish" /\ InSession(n))
    BY <1>7
<1>11. QED
    BY <1>2, <1>3, <1>4, <1>5, <1>9, <1>10, QuietAct

LEMMA QuietSync ==
    ASSUME SyncInv, SerialInv, NEW c \in Clients, Sync(c)
    PROVE  SerialInv' /\ AbstractStep
<1> DEFINE s0 == [NoSession EXCEPT !.skey = syncs + 1]
           m == Request(c, s0, "meta")
           s == [s0 EXCEPT !.await = m]
<1>1. /\ Idle(c) /\ syncs' = syncs + 1 /\ sess' = [sess EXCEPT ![c] = s]
      /\ net' = net \cup {m} /\ UNCHANGED <<srvVars, cli, resp, clk, edits, born, faults>>
    BY DEF Sync, Send
<1>2. m.type = "meta" /\ m.from = c
    BY DEF Request
<1>3. s.await = m
    BY DEF NoSession
<1> HIDE DEF s0, m, s
<1>4. resp' = [resp EXCEPT ![c] = NoResp]
    <2>1. resp[c] = NoResp
        <3>1. NoReq.type \notin Keyed \cup {"upload", "download"}
            BY DEF NoReq, Keyed, Underway, Stateful
        <3>2. ~Awaits(c, sess[c], resp[c], syncs, epoch)
            BY <1>1, <3>1 DEF Idle, Awaits, RequestOK
        <3>3. QED
            BY <3>2 DEF SyncInv, Talk, SessionOK
    <2>2. resp = [d \in Clients |-> resp[d]]
        BY DEF SyncInv, Talk
    <2>3. QED
        BY <1>1, <2>1, <2>2
<1>5. Acts(c, s)
    BY <1>1, <1>2, <1>4 DEF Acts, srvVars
<1>6. "meta" \notin Underway
    BY DEF Underway, Stateful
<1>7. \A n \in net' \ net : n.type = "meta"
    BY <1>1, <1>2
<1>8. Orders' = Orders /\ Tickers' \subseteq Tickers \cup {c}
    BY <1>5, <1>7, ActsOrders, ActsTickers
<1>9. ClockBound'
    <2>1. syncs' \in Nat
        BY <1>1, Numbers
    <2>2. QED
        BY <1>1, <1>8, <2>1, BoundKeeps DEF SerialInv
<1>10. \A n \in net' \ net : n.type # "upload" /\ ~(n.type = "finish" /\ InSession(n))
    BY <1>7
<1>11. QED
    BY <1>1, <1>2, <1>3, <1>5, <1>6, <1>9, <1>10, QuietAct

(* A step inside the session.                                              *)
LEMMA QuietContinue ==
    ASSUME SyncInv, SerialInv, NEW c \in Clients, NEW s, NEW m, Continue(c, s, m),
           SessionShape(s, syncs, epoch), m.from = c, m.type \in Underway, m.type # "finish",
           MayTick(sess[c]),
           user.st.skey = s.skey /\ user.col # NoCol
             => Stage(cli[c], srv, user, [s EXCEPT !.await = m], NoResp, TRUE),
           m.type = "start" => Starting(cli[c], srv, [s EXCEPT !.await = m], TRUE, epoch)
    PROVE  SerialInv' /\ AbstractStep
<1> DEFINE t == [s EXCEPT !.await = m]
<1>1. /\ sess' = [sess EXCEPT ![c] = t] /\ net' = net \cup {m}
      /\ resp' = [resp EXCEPT ![c] = NoResp]
      /\ UNCHANGED <<srvVars, edits, born, faults, cli, clk, syncs>>
    BY DEF Continue, Send, Heard
<1>2. t.await = m /\ t.skey = s.skey
    BY Await, Numbers
<1>3. /\ user.st.skey = t.skey /\ user.col # NoCol => Stage(cli[c], srv, user, t, NoResp, TRUE)
      /\ m.type = "start" => Starting(cli[c], srv, t, TRUE, epoch)
    BY <1>2
<1> HIDE DEF t
<1>4. Acts(c, t)
    BY <1>1 DEF Acts, srvVars
<1>5. (t.await \in net') = TRUE
    BY <1>1, <1>2
<1>6. m.type \notin {"upload", "download"}
    BY UnderwayTypes
<1>7. \A n \in net' \ net : n = m
    BY <1>1
<1>8. Orders' = Orders /\ Tickers' \subseteq Tickers
    BY <1>4, <1>6, <1>7, ActsOrders, ActsTickers
<1>9. ClockBound'
    BY <1>1, <1>8, Numbers, BoundKeeps DEF SerialInv
<1>10. \A n \in net' \ net : n.type # "upload" /\ ~(n.type = "finish" /\ InSession(n))
    BY <1>6, <1>7
<1>11. UNCHANGED <<cli, clk>>
    BY <1>1
<1>12. user.st.skey = t.skey /\ user.col # NoCol
         => Stage(cli[c], srv, user, t, NoResp, t.await \in net')
    BY <1>3, <1>5
<1>13. t.await.type = "start" => Starting(cli[c], srv, t, TRUE, epoch)
    BY <1>2, <1>3
<1>14. QED
    BY <1>4, <1>9, <1>10, <1>11, <1>12, <1>13, QuietAct

LEMMA Reached ==
    ASSUME SyncInv, SerialInv, NEW c \in Clients, sess[c].await.type \in Underway,
           resp[c] # NoResp, user.st.skey = sess[c].skey, user.col # NoCol
    PROVE  /\ Stage(cli[c], srv, user, sess[c], resp[c], FALSE)
           /\ Opened(cli[c], srv, user, sess[c])
<1>1. Stage(cli[c], srv, user, sess[c], resp[c], sess[c].await \in net)
    BY DEF SerialInv, Staged, Joined, Asked
<1>2. (sess[c].await \in net) = FALSE
    BY DEF SyncInv, Protocol, NotAnswered
<1>3. Stage(cli[c], srv, user, sess[c], resp[c], FALSE)
    BY <1>1, <1>2
<1>4. QED
    BY <1>3 DEF Stage

LEMMA QuietStart ==
    ASSUME SyncInv, SerialInv, NEW c \in Clients, StartSession(c)
    PROVE  SerialInv' /\ AbstractStep
<1> DEFINE newer == LocalIsNewer(cli[c], resp[c].mod)
           s == [sess[c] EXCEPT !.work           = cli[c],
                                !.local_is_newer = newer,
                                !.server_usn     = resp[c].usn,
                                !.epoch          = resp[c].epoch]
           m == [type |-> "start", from |-> c, skey |-> s.skey,
                 client_usn |-> cli[c].usn, local_is_newer |-> s.local_is_newer,
                 epoch |-> s.epoch]
           t == [s EXCEPT !.await = m]
<1>1. /\ Received(c, "meta") /\ Continue(c, s, m)
      /\ NormalSyncRequired(cli[c], resp[c].mod, resp[c].scm)
    BY DEF StartSession, Continue
<1>2. /\ SessionShape(sess[c], syncs, epoch) /\ sess[c].await.type = "meta"
      /\ resp[c].type = "meta"
      /\ resp[c].mod \in Nat /\ resp[c].usn \in Nat /\ resp[c].epoch \in 0..epoch
    BY <1>1, ReceivedIs, UnderwayTypes DEF Fits, AnswerOK
<1>3. cli[c] \in Collection /\ newer \in BOOLEAN
    BY ClientData DEF LocalIsNewer
<1> HIDE DEF newer
<1>4. /\ SessionShape(s, syncs, epoch) /\ s.work = cli[c] /\ s.local_is_newer = newer
      /\ s.server_usn = resp[c].usn /\ s.epoch = resp[c].epoch
    <2>1. resp[c].usn \in Nat /\ resp[c].epoch \in 0..epoch
        BY <1>2
    <2>2. QED
        BY <1>2, <1>3, <2>1 DEF SessionShape
<1> HIDE DEF s
<1>5. /\ m.type = "start" /\ m.from = c /\ m.client_usn = cli[c].usn
      /\ m.local_is_newer = newer /\ m.epoch = s.epoch
    BY <1>4
<1> HIDE DEF m
<1>6. /\ t.await = m /\ t.work = cli[c] /\ t.local_is_newer = newer
      /\ t.server_usn = resp[c].usn /\ t.epoch = resp[c].epoch
    BY <1>4, Await, Numbers
<1> HIDE DEF t
<1>7. Starting(cli[c], srv, t, TRUE, epoch)
    <2>1. /\ t.await.epoch = t.epoch /\ t.await.client_usn = cli[c].usn
          /\ t.await.local_is_newer = t.local_is_newer /\ t.work = cli[c]
        BY <1>4, <1>5, <1>6
    <2>2. t.epoch = epoch => Agreed(cli[c], srv, t)
        <3>1. t.epoch = epoch => resp[c].mod = srv.mod /\ resp[c].scm = srv.scm /\ resp[c].usn = srv.usn
            BY <1>2, <1>6 DEF SerialInv, Current, Told
        <3>2. QED
            BY <1>1, <1>6, <3>1 DEF Agreed, newer
    <2>3. QED
        BY <2>1, <2>2 DEF Starting
<1>8. Stage(cli[c], srv, user, t, NoResp, TRUE)
    BY <1>5, <1>6 DEF Stage, NoResp
<1>9. MayTick(sess[c])
    BY <1>2 DEF MayTick
<1>10. QED
    BY <1>1, <1>4, <1>5, <1>7, <1>8, <1>9, UnderwayTypes, QuietContinue DEF t

(* Deletions, whose session s is where GravesApplied finds it or where     *)
(* SessionStarted has put it.                                              *)
LEMMA QuietDeletions ==
    ASSUME SyncInv, SerialInv, NEW c \in Clients, NEW s, SendDeletions(c, s),
           SessionShape(s, syncs, epoch), s.work \in Collection, MayTick(sess[c]),
           user.st.skey = s.skey /\ user.col # NoCol
             => Opened(cli[c], srv, user, s) /\ Deleted(cli[c], srv, user, s)
    PROVE  SerialInv' /\ AbstractStep
<1>1. s.todo \subseteq Objs /\ s.server_usn \in Nat
    BY SessionFields
<1>2. cli[c] \in Collection /\ srv \in Collection
    BY ClientData DEF SyncInv, Data
<1>3. CASE SendGraves(c, s)
    <2>1. PICK part \in kSubset(Min({ChunkSize, Cardinality(s.todo)}), s.todo) :
             Continue(c, [s EXCEPT !.todo = @ \ part],
                      [type |-> "applyGraves", from |-> c, skey |-> s.skey, ids |-> part])
        BY <1>3 DEF SendGraves
    <2> DEFINE todo == s.todo \ part
               t0 == [s EXCEPT !.todo = todo]
               m == [type |-> "applyGraves", from |-> c, skey |-> s.skey, ids |-> part]
               t == [t0 EXCEPT !.await = m]
    <2>2. todo \in SUBSET Objs /\ part \subseteq s.todo
        BY <1>1 DEF kSubset
    <2>3. Continue(c, t0, m)
        BY <2>1
    <2> HIDE DEF todo
    <2>4. /\ SessionShape(t0, syncs, epoch) /\ t0.todo = todo /\ t0.skey = s.skey
          /\ t0.work = s.work /\ t0.remote = s.remote
          /\ t0.server_usn = s.server_usn /\ t0.local_is_newer = s.local_is_newer
        BY <2>2, AssignedTodo
    <2> HIDE DEF t0
    <2>5. m.type = "applyGraves" /\ m.from = c /\ m.ids = part
        OBVIOUS
    <2> HIDE DEF m
    <2>6. /\ t.await = m /\ t.todo = todo /\ t.work = s.work /\ t.remote = s.remote
          /\ t.server_usn = s.server_usn /\ t.local_is_newer = s.local_is_newer
        BY <2>4, Await, Numbers
    <2> HIDE DEF t
    <2>7. ASSUME user.st.skey = s.skey, user.col # NoCol
          PROVE  Stage(cli[c], srv, user, t, NoResp, TRUE)
        <3>1. Opened(cli[c], srv, user, s) /\ Deleted(cli[c], srv, user, s)
            BY <2>7
        <3>2. Opened(cli[c], srv, user, t)
            BY <2>6, <3>1, StayOpened DEF SameMeta
        <3>3. t.todo = s.todo \ part
            BY <2>6 DEF todo
        <3>4. QED
            BY <1>2, <2>2, <2>5, <2>6, <3>1, <3>2, <3>3, SendMoreDeletions
    <2>8. QED
        BY <2>3, <2>4, <2>5, <2>7, UnderwayTypes, QuietContinue DEF t
<1>4. CASE SendChanges(c, s)
    <2> DEFINE deleted == ApplyGraves(s.work, s.remote, s.server_usn)
               sent == PendingRows(deleted, PendingUsn, Decks)
               stamped == StampRows(deleted, sent, s.server_usn)
               t0 == [s EXCEPT !.work = stamped]
               m == [type |-> "applyChanges", from |-> c, skey |-> s.skey,
                     rows |-> SentRows(stamped, sent),
                     conf |-> IF s.local_is_newer THEN stamped.conf ELSE NoConf]
               t == [t0 EXCEPT !.await = m]
    <2>1. Continue(c, t0, m) /\ s.todo = {}
        BY <1>4 DEF SendChanges
    <2>2. deleted \in Collection
        BY <1>1, HeadsStay
    <2> HIDE DEF deleted, sent
    <2>3. stamped \in Collection
        BY <1>1, <2>2, HeadsStay
    <2> HIDE DEF stamped
    <2>4. /\ SessionShape(t0, syncs, epoch) /\ t0.work = stamped /\ t0.skey = s.skey
          /\ t0.server_usn = s.server_usn /\ t0.local_is_newer = s.local_is_newer
        BY <2>3, AssignedWork
    <2> HIDE DEF t0
    <2>5. /\ m.type = "applyChanges" /\ m.from = c /\ m.rows = SentRows(stamped, sent)
          /\ m.conf = IF s.local_is_newer THEN stamped.conf ELSE NoConf
        OBVIOUS
    <2> HIDE DEF m
    <2>6. /\ t.await = m /\ t.work = stamped
          /\ t.server_usn = s.server_usn /\ t.local_is_newer = s.local_is_newer
        BY <2>4, Await, Numbers
    <2> HIDE DEF t
    <2>7. ASSUME user.st.skey = s.skey, user.col # NoCol
          PROVE  Stage(cli[c], srv, user, t, NoResp, TRUE)
        <3>1. Opened(cli[c], srv, user, s) /\ Deleted(cli[c], srv, user, s) /\ SameMeta(t, s)
            BY <2>6, <2>7 DEF SameMeta
        <3>2. /\ t.work = stamped /\ t.await.rows = SentRows(stamped, sent)
              /\ t.await.conf = IF s.local_is_newer THEN stamped.conf ELSE NoConf
              /\ t.await.type = "applyChanges"
            BY <2>5, <2>6
        <3>3. QED
            BY <1>2, <2>1, <3>1, <3>2, SendDecks DEF deleted, sent, stamped
    <2>8. QED
        BY <2>1, <2>4, <2>5, <2>7, UnderwayTypes, QuietContinue DEF t
<1>5. QED
    BY <1>3, <1>4 DEF SendDeletions

LEMMA QuietSessionStarted ==
    ASSUME SyncInv, SerialInv, NEW c \in Clients, SessionStarted(c)
    PROVE  SerialInv' /\ AbstractStep
<1> DEFINE todo == PendingGraves(sess[c].work, PendingUsn)
           work == StampGraves(sess[c].work, sess[c].server_usn)
           remote == resp[c].ids
           s == [sess[c] EXCEPT !.todo = todo, !.work = work, !.remote = remote]
<1>1. Received(c, "graves") /\ SendDeletions(c, s)
    BY DEF SessionStarted
<1>2. /\ SessionShape(sess[c], syncs, epoch) /\ sess[c].await.type = "start"
      /\ resp[c] # NoResp /\ resp[c].type = "graves"
      /\ remote \in SUBSET Objs /\ sess[c].work \in Collection
    BY <1>1, ReceivedIs, UnderwayTypes DEF Fits, AnswerOK, Awaits
<1>3. work \in Collection /\ todo \in SUBSET Objs
    <2>1. sess[c].server_usn \in Nat /\ Rows(SentRows(sess[c].work, {}))
        BY <1>2, SessionFields, SentTyped
    <2>2. work \in Collection
        BY <1>2, <2>1, MergedTyped
    <2>3. todo \in SUBSET Objs
        BY DEF PendingGraves
    <2>4. QED
        BY <2>2, <2>3
<1> HIDE DEF todo, work, remote
<1>4. /\ SessionShape(s, syncs, epoch) /\ s.skey = sess[c].skey /\ s.work = work
      /\ s.todo = todo /\ s.remote = remote /\ s.server_usn = sess[c].server_usn
      /\ s.local_is_newer = sess[c].local_is_newer
    BY <1>2, <1>3 DEF SessionShape
<1> HIDE DEF s
<1>5. cli[c] \in Collection /\ srv \in Collection
    BY ClientData DEF SyncInv, Data
<1>6. ASSUME user.st.skey = s.skey, user.col # NoCol
      PROVE  Opened(cli[c], srv, user, s) /\ Deleted(cli[c], srv, user, s)
    <2>1. /\ Stage(cli[c], srv, user, sess[c], resp[c], FALSE)
          /\ Opened(cli[c], srv, user, sess[c])
        BY <1>2, <1>4, <1>6, UnderwayTypes, Reached
    <2>2. user.col = srv /\ ~user.st.have_ids /\ remote = PendingGraves(srv, cli[c].usn)
        BY <1>2, <2>1 DEF Stage, remote
    <2>3. sess[c].work = cli[c]
        BY <1>2 DEF SerialInv, Current, Starting
    <2>4. Deleted(cli[c], srv, user, s)
        BY <1>4, <1>5, <2>1, <2>2, <2>3, BeginDeletions DEF todo, work
    <2>5. QED
        BY <1>4, <2>1, <2>4, StayOpened DEF SameMeta
<1>7. MayTick(sess[c])
    BY <1>2 DEF MayTick
<1>8. QED
    BY <1>1, <1>3, <1>4, <1>6, <1>7, QuietDeletions

LEMMA QuietGravesApplied ==
    ASSUME SyncInv, SerialInv, NEW c \in Clients, GravesApplied(c)
    PROVE  SerialInv' /\ AbstractStep
<1>1. /\ Received(c, "ok") /\ sess[c].await.type = "applyGraves"
      /\ SendDeletions(c, sess[c])
    BY DEF GravesApplied
<1>2. /\ SessionShape(sess[c], syncs, epoch) /\ resp[c] # NoResp
      /\ resp[c].type = "ok" /\ sess[c].work \in Collection
    BY <1>1, ReceivedIs, UnderwayTypes DEF Awaits
<1>3. ASSUME user.st.skey = sess[c].skey, user.col # NoCol
      PROVE  Opened(cli[c], srv, user, sess[c]) /\ Deleted(cli[c], srv, user, sess[c])
    <2>1. /\ Stage(cli[c], srv, user, sess[c], resp[c], FALSE)
          /\ Opened(cli[c], srv, user, sess[c])
        BY <1>1, <1>2, <1>3, UnderwayTypes, Reached
    <2>2. Deleting(cli[c], srv, user, sess[c], resp[c], FALSE)
        BY <1>1, <2>1, StageOf
    <2>3. QED
        BY <1>2, <2>1, <2>2 DEF Deleting, Deleted
<1>4. MayTick(sess[c])
    BY <1>1 DEF MayTick
<1>5. QED
    BY <1>1, <1>2, <1>3, <1>4, QuietDeletions

LEMMA QuietReceiveChanges ==
    ASSUME SyncInv, SerialInv, NEW c \in Clients, ReceiveChanges(c)
    PROVE  SerialInv' /\ AbstractStep
<1> DEFINE merged == MergeUnchunked(sess[c].work, resp[c].rows)
           conf == IF resp[c].conf = NoConf THEN merged.conf ELSE resp[c].conf
           work == [merged EXCEPT !.conf = conf]
           s == [sess[c] EXCEPT !.work = work]
           m == Request(c, sess[c], "chunk")
           t == [s EXCEPT !.await = m]
<1>1. Received(c, "changes") /\ Continue(c, s, m)
    BY DEF ReceiveChanges
<1>2. /\ SessionShape(sess[c], syncs, epoch) /\ sess[c].await.type = "applyChanges"
      /\ resp[c] # NoResp /\ resp[c].type = "changes" /\ Rows(resp[c].rows)
      /\ resp[c].conf \in 0..MaxEdits \cup {NoConf} /\ sess[c].work \in Collection
    BY <1>1, ReceivedIs, UnderwayTypes DEF Fits, AnswerOK, Awaits
<1>3. work \in Collection
    <2>1. conf \in 0..MaxEdits
        <3>1. sess[c].work.conf \in 0..MaxEdits
            BY <1>2, Fields
        <3>2. merged.conf = sess[c].work.conf
            BY <1>2, <3>1, MergedFields
        <3> HIDE DEF merged
        <3>3. QED
            BY <1>2, <3>1, <3>2
    <2> HIDE DEF conf
    <2>2. QED
        BY <1>2, <2>1, MergedFields
<1>4. work = [MergeUnchunked(sess[c].work, resp[c].rows)
                EXCEPT !.conf = IF resp[c].conf = NoConf
                                THEN MergeUnchunked(sess[c].work, resp[c].rows).conf
                                ELSE resp[c].conf]
    OBVIOUS
<1> HIDE DEF work
<1>5. /\ SessionShape(s, syncs, epoch) /\ s.work = work /\ s.skey = sess[c].skey
      /\ s.server_usn = sess[c].server_usn /\ s.local_is_newer = sess[c].local_is_newer
    BY <1>2, <1>3, AssignedWork
<1> HIDE DEF s
<1>6. m.type = "chunk" /\ m.from = c
    BY DEF Request
<1> HIDE DEF m
<1>7. /\ t.await = m /\ t.work = work
      /\ t.server_usn = sess[c].server_usn /\ t.local_is_newer = sess[c].local_is_newer
    BY <1>5, Await, Numbers
<1> HIDE DEF t
<1>8. cli[c] \in Collection /\ srv \in Collection
    BY ClientData DEF SyncInv, Data
<1>9. ASSUME user.st.skey = s.skey, user.col # NoCol
      PROVE  Stage(cli[c], srv, user, t, NoResp, TRUE)
    <2>1. /\ Stage(cli[c], srv, user, sess[c], resp[c], FALSE)
          /\ Opened(cli[c], srv, user, sess[c])
        BY <1>2, <1>5, <1>9, UnderwayTypes, Reached
    <2>2. SameMeta(t, sess[c]) /\ t.await.type = "chunk"
        BY <1>6, <1>7 DEF SameMeta
    <2>3. QED
        BY <1>2, <1>4, <1>7, <1>8, <2>1, <2>2, AskForChunks
<1>10. MayTick(sess[c])
    BY <1>2 DEF MayTick
<1>11. QED
    BY <1>1, <1>5, <1>6, <1>9, <1>10, UnderwayTypes, QuietContinue DEF t

LEMMA QuietSendChunk ==
    ASSUME SyncInv, SerialInv, NEW c \in Clients, NEW s, SendChunk(c, s),
           SessionShape(s, syncs, epoch), s.work \in Collection, MayTick(sess[c]),
           user.st.skey = s.skey /\ user.col # NoCol
             => Opened(cli[c], srv, user, s) /\ Took(cli[c], srv, user, s)
    PROVE  SerialInv' /\ AbstractStep
<1>1. s.todo \subseteq Objs /\ s.server_usn \in Nat
    BY SessionFields
<1>2. PICK part \in ChunksOf(s.todo) :
         LET stamped == StampRows(s.work, part, s.server_usn)
         IN  Continue(c, [s EXCEPT !.work = stamped, !.todo = @ \ part,
                                   !.last = ChunkDone(part)],
                      [type |-> "applyChunk", from |-> c, skey |-> s.skey,
                       rows |-> SentRows(stamped, part)])
    BY DEF SendChunk
<1> DEFINE stamped == StampRows(s.work, part, s.server_usn)
           todo == s.todo \ part
           last == ChunkDone(part)
           t0 == [s EXCEPT !.work = stamped, !.todo = todo, !.last = last]
           m == [type |-> "applyChunk", from |-> c, skey |-> s.skey,
                 rows |-> SentRows(stamped, part)]
           t == [t0 EXCEPT !.await = m]
<1>3. Continue(c, t0, m)
    BY <1>2
<1>4. todo \in SUBSET Objs /\ last \in BOOLEAN
    BY <1>1 DEF ChunkDone
<1>5. stamped \in Collection
    BY <1>1, HeadsStay
<1> HIDE DEF stamped, todo, last
<1>6. /\ SessionShape(t0, syncs, epoch) /\ t0.skey = s.skey /\ t0.work = stamped
      /\ t0.todo = todo /\ t0.last = last /\ t0.server_usn = s.server_usn
      /\ t0.local_is_newer = s.local_is_newer
    BY <1>4, <1>5 DEF SessionShape
<1> HIDE DEF t0
<1>7. m.type = "applyChunk" /\ m.from = c /\ m.rows = SentRows(stamped, part)
    OBVIOUS
<1> HIDE DEF m
<1>8. /\ t.await = m /\ t.work = stamped /\ t.todo = todo /\ t.last = last
      /\ t.server_usn = s.server_usn /\ t.local_is_newer = s.local_is_newer
    BY <1>6, Await, Numbers
<1> HIDE DEF t
<1>9. cli[c] \in Collection /\ srv \in Collection
    BY ClientData DEF SyncInv, Data
<1>10. ASSUME user.st.skey = s.skey, user.col # NoCol
       PROVE  Stage(cli[c], srv, user, t, NoResp, TRUE)
    <2>1. /\ Opened(cli[c], srv, user, s) /\ Took(cli[c], srv, user, s)
          /\ SameMeta(t, s)
        BY <1>8, <1>10 DEF SameMeta
    <2>2. /\ t.await.type = "applyChunk" /\ t.todo = s.todo \ part
          /\ t.last = ChunkDone(part) /\ t.work = StampRows(s.work, part, s.server_usn)
          /\ t.await.rows = SentRows(t.work, part)
        BY <1>7, <1>8 DEF stamped, todo, last
    <2>3. QED
        BY <1>2, <1>9, <2>1, <2>2, SendClientChunk
<1>11. QED
    BY <1>3, <1>6, <1>7, <1>10, UnderwayTypes, QuietContinue DEF t

LEMMA QuietReceiveChunk ==
    ASSUME SyncInv, SerialInv, NEW c \in Clients, ReceiveChunk(c)
    PROVE  SerialInv' /\ AbstractStep
<1> DEFINE work == MergeChunk(sess[c].work, resp[c].rows, PendingUsn)
           s == [sess[c] EXCEPT !.work = work]
           todo == PendingRows(s.work, PendingUsn, Chunked)
<1>1. /\ Received(c, "chunk")
      /\ \/ resp[c].done /\ SendChunk(c, [s EXCEPT !.todo = todo])
         \/ Continue(c, s, Request(c, s, "chunk"))
    BY DEF ReceiveChunk
<1>2. /\ SessionShape(sess[c], syncs, epoch) /\ sess[c].await.type = "chunk"
      /\ resp[c] # NoResp /\ resp[c].type = "chunk"
      /\ Rows(resp[c].rows) /\ sess[c].work \in Collection
    BY <1>1, ReceivedIs, UnderwayTypes DEF Fits, AnswerOK, Awaits
<1>3. work \in Collection
    <2>1. 0 \in Nat
        OBVIOUS
    <2>2. QED
        BY <1>2, <2>1, MergedTyped
<1>4. todo \in SUBSET Objs
    BY DEF PendingRows, Objs
<1>5. work = MergeChunk(sess[c].work, resp[c].rows, PendingUsn)
    OBVIOUS
<1> HIDE DEF work
<1>6. /\ SessionShape(s, syncs, epoch) /\ s.skey = sess[c].skey /\ s.work = work
      /\ s.server_usn = sess[c].server_usn /\ s.local_is_newer = sess[c].local_is_newer
    BY <1>2, <1>3, AssignedWork
<1>7. todo = PendingRows(work, PendingUsn, Chunked)
    BY <1>6
<1> HIDE DEF s, todo
<1>8. cli[c] \in Collection /\ srv \in Collection
    BY ClientData DEF SyncInv, Data
<1>9. MayTick(sess[c])
    BY <1>2 DEF MayTick
<1>10. ASSUME user.st.skey = sess[c].skey, user.col # NoCol
       PROVE  /\ Stage(cli[c], srv, user, sess[c], resp[c], FALSE)
              /\ Opened(cli[c], srv, user, sess[c])
    BY <1>2, <1>10, UnderwayTypes, Reached
<1>11. CASE resp[c].done /\ SendChunk(c, [s EXCEPT !.todo = todo])
    <2> DEFINE t == [s EXCEPT !.todo = todo]
    <2>1. /\ SessionShape(t, syncs, epoch) /\ t.skey = s.skey /\ t.work = s.work /\ t.todo = todo
          /\ t.server_usn = s.server_usn /\ t.local_is_newer = s.local_is_newer
        BY <1>4, <1>6, AssignedTodo
    <2>2. SendChunk(c, t)
        BY <1>11
    <2> HIDE DEF t
    <2>3. ASSUME user.st.skey = t.skey, user.col # NoCol
          PROVE  Opened(cli[c], srv, user, t) /\ Took(cli[c], srv, user, t)
        <3>1. /\ Stage(cli[c], srv, user, sess[c], resp[c], FALSE)
              /\ Opened(cli[c], srv, user, sess[c])
            BY <1>6, <1>10, <2>1, <2>3
        <3>2. Took(cli[c], srv, user, t)
            BY <1>2, <1>5, <1>6, <1>7, <1>8, <1>11, <2>1, <3>1, BeginChunks
        <3>3. QED
            BY <1>6, <2>1, <3>1, <3>2, StayOpened DEF SameMeta
    <2>4. QED
        BY <1>3, <1>6, <1>9, <2>1, <2>2, <2>3, QuietSendChunk
<1>12. CASE Continue(c, s, Request(c, s, "chunk"))
    <2> DEFINE m == Request(c, s, "chunk")
               t == [s EXCEPT !.await = m]
    <2>1. m.type = "chunk" /\ m.from = c
        BY DEF Request
    <2>2. Continue(c, s, m)
        BY <1>12
    <2> HIDE DEF m
    <2>3. /\ t.await = m /\ t.work = work
          /\ t.server_usn = sess[c].server_usn /\ t.local_is_newer = sess[c].local_is_newer
        BY <1>6, Await, Numbers
    <2> HIDE DEF t
    <2>4. ASSUME user.st.skey = s.skey, user.col # NoCol
          PROVE  Stage(cli[c], srv, user, t, NoResp, TRUE)
        <3>1. /\ Stage(cli[c], srv, user, sess[c], resp[c], FALSE)
              /\ Opened(cli[c], srv, user, sess[c])
            BY <1>6, <1>10, <2>4
        <3>2. SameMeta(t, sess[c]) /\ t.await.type = "chunk"
            BY <2>1, <2>3 DEF SameMeta
        <3>3. QED
            BY <1>2, <1>5, <1>8, <2>3, <3>1, <3>2, AskForMore
    <2>5. QED
        BY <1>6, <1>9, <2>1, <2>2, <2>4, UnderwayTypes, QuietContinue DEF t
<1>13. QED
    BY <1>1, <1>11, <1>12

LEMMA QuietChunkApplied ==
    ASSUME SyncInv, SerialInv, NEW c \in Clients, ChunkApplied(c)
    PROVE  SerialInv' /\ AbstractStep
<1> DEFINE s == sess[c]
           m == [type |-> "sanity", from |-> c, skey |-> s.skey,
                 counts |-> SanityCounts(s.work)]
           t == [s EXCEPT !.await = m]
<1>1. /\ Received(c, "ok") /\ s.await.type = "applyChunk"
      /\ \/ SendChunk(c, s)
         \/ RollBack(c, FALSE) /\ Heard(c) /\ UNCHANGED <<cli, clk, syncs>>
         \/ s.last /\ Continue(c, s, m)
    BY DEF ChunkApplied, CheckSanity
<1>2. /\ SessionShape(s, syncs, epoch) /\ resp[c] # NoResp /\ resp[c].type = "ok"
      /\ s.work \in Collection
    BY <1>1, ReceivedIs, UnderwayTypes DEF Awaits
<1>3. MayTick(s)
    BY <1>1 DEF MayTick
<1>4. cli[c] \in Collection /\ srv \in Collection
    BY ClientData DEF SyncInv, Data
<1>5. ASSUME user.st.skey = s.skey, user.col # NoCol
      PROVE  /\ Opened(cli[c], srv, user, s) /\ Took(cli[c], srv, user, s)
             /\ s.last => s.todo = {}
    <2>1. Stage(cli[c], srv, user, s, resp[c], FALSE) /\ Opened(cli[c], srv, user, s)
        BY <1>1, <1>2, <1>5, UnderwayTypes, Reached
    <2>2. Sending(cli[c], srv, user, s, resp[c], FALSE)
        BY <1>1, <2>1, StageOf
    <2>3. QED
        BY <1>2, <2>1, <2>2 DEF Sending, Took
<1>6. CASE SendChunk(c, s)
    BY <1>2, <1>3, <1>5, <1>6, QuietSendChunk
<1>7. CASE RollBack(c, FALSE) /\ Heard(c) /\ UNCHANGED <<cli, clk, syncs>>
    <2>1. /\ resp' = [resp EXCEPT ![c] = NoResp]
          /\ UNCHANGED <<srvVars, cli, clk, edits, born, syncs>>
        BY <1>7 DEF Heard
    <2>2. QED
        BY <1>7, <2>1, QuietRollBack
<1>8. CASE s.last /\ Continue(c, s, m)
    <2>1. m.type = "sanity" /\ m.from = c /\ m.counts = SanityCounts(s.work)
        OBVIOUS
    <2> HIDE DEF m
    <2>2. /\ t.await = m /\ t.work = s.work
          /\ t.server_usn = s.server_usn /\ t.local_is_newer = s.local_is_newer
        BY <1>2, Await, Numbers
    <2> HIDE DEF t
    <2>3. ASSUME user.st.skey = s.skey, user.col # NoCol
          PROVE  Stage(cli[c], srv, user, t, NoResp, TRUE)
        <3>1. SameMeta(t, s) /\ t.await.type = "sanity" /\ t.await.counts = SanityCounts(s.work)
            BY <2>1, <2>2 DEF SameMeta
        <3>2. /\ Opened(cli[c], srv, user, s) /\ Took(cli[c], srv, user, s) /\ s.todo = {}
            BY <1>5, <1>8, <2>3
        <3>3. QED
            BY <1>4, <2>2, <3>1, <3>2, AskForSanity
    <2>4. QED
        BY <1>2, <1>3, <1>8, <2>1, <2>3, UnderwayTypes, QuietContinue DEF t
<1>9. QED
    BY <1>1, <1>6, <1>7, <1>8

-----------------------------------------------------------------------------
(* A client that stops waiting, or whose wait moves a whole collection.    *)

LEMMA ActParts ==
    ASSUME SyncInv, SerialInv, NEW c \in Clients, NEW s, Acts(c, s),
           s.await.type \notin Underway, clk' \in {clk, clk + 1},
           \A m \in net' \ net : m.type # "finish"
    PROVE  /\ Staged' /\ Current' /\ Committable' /\ Offered' = Offered
           /\ Answered' = [Answered EXCEPT ![c] = NoCol]
           /\ (\A m \in net' \ net : m.type # "upload") => UploadsApart' /\ Uploaded' = Uploaded
           /\ (\A m \in net' \ net : m.type # "download") => Orders' = Orders
           /\ ~MayTick(s) => Tickers' = Tickers \ {c}
<1>1. s.await.type # "start"
    BY UnderwayTypes
<1>2. Staged' /\ Current'
    BY <1>1, ActsStaged, ActsCurrent DEF SerialInv
<1>3. Committable' /\ Offered' = Offered
    BY ActsCommittable DEF SerialInv
<1>4. Answered' = [Answered EXCEPT ![c] = NoCol]
    BY ActsAnswered
<1>5. (\A m \in net' \ net : m.type # "upload") => UploadsApart' /\ Uploaded' = Uploaded
    BY ActsUploads DEF SerialInv
<1>6. (\A m \in net' \ net : m.type # "download") => Orders' = Orders
    BY ActsOrders
<1>7. ~MayTick(s) => Tickers' = Tickers \ {c}
    BY ActsTickers
<1>8. QED
    BY <1>2, <1>3, <1>4, <1>5, <1>6, <1>7

LEMMA NoSessionWaits ==
    /\ NoSession.await.type = "none" /\ "none" \notin Underway /\ ~MayTick(NoSession)
    /\ \A m : LET s == [NoSession EXCEPT !.await = m] IN s.await = m
<1>1. NoSession.await.type = "none"
    BY DEF NoSession, NoReq
<1>2. \A m : LET s == [NoSession EXCEPT !.await = m] IN s.await = m
    BY DEF NoSession
<1>3. QED
    BY <1>1, <1>2 DEF MayTick, Underway, Stateful

LEMMA EndActs ==
    ASSUME NEW c \in Clients, EndSession(c), resp' = [resp EXCEPT ![c] = NoResp],
           UNCHANGED <<srvVars, edits, born>>, \A d \in Clients \ {c} : cli'[d] = cli[d]
    PROVE  Acts(c, NoSession) /\ net' = net
BY DEF Acts, EndSession, srvVars

(* An answer that is no collection to adopt.                               *)
LEMMA NothingToAdopt ==
    ASSUME NEW c \in Clients, resp[c].type \notin {"finish", "download"}
    PROVE  Answered[c] = NoCol /\ [Answered EXCEPT ![c] = NoCol] = Answered
BY DEF Answered

LEMMA QuietAbort ==
    ASSUME SyncInv, SerialInv, NEW c \in Clients, sess[c].await.type = "abort", ~Idle(c),
           EndAbort(c), resp' = [resp EXCEPT ![c] = NoResp],
           UNCHANGED <<srvVars, edits, born, syncs>>
    PROVE  SerialInv' /\ AbstractStep
<1>1. EndSession(c)
    BY DEF EndAbort
<1>2. CASE ~sess[c].bad
    <2>1. UNCHANGED <<cli, clk>>
        BY <1>2 DEF EndAbort
    <2>2. Acts(c, NoSession) /\ net' = net
        BY <1>1, <2>1, EndActs
    <2>3. QED
        BY <2>1, <2>2, QuietEnd
<1>3. CASE sess[c].bad
    <2> DEFINE col == SetSchemaModified(cli[c], clk + 1)
    <2>1. clk' = clk + 1 /\ cli' = [cli EXCEPT ![c] = col]
        BY <1>3 DEF EndAbort, Tick
    <2>2. cli = [d \in Clients |-> cli[d]] /\ cli[c] \in Collection
        BY DEF SyncInv, Data
    <2>3. \A d \in Clients \ {c} : cli'[d] = cli[d]
        BY <2>1, <2>2
    <2>4. Acts(c, NoSession) /\ net' = net
        BY <1>1, <2>3, EndActs
    <2>5. /\ Staged' /\ Current' /\ Committable' /\ Offered' = Offered
          /\ Answered' = [Answered EXCEPT ![c] = NoCol]
          /\ UploadsApart' /\ Uploaded' = Uploaded /\ Orders' = Orders
          /\ Tickers' = Tickers \ {c}
        BY <2>1, <2>4, NoSessionWaits, ActParts
    <2>6. c \in Tickers
        BY <1>3 DEF Tickers, MayTick
    <2>7. ClockBound'
        BY <2>1, <2>5, <2>6, Numbers, BoundKeeps DEF SerialInv
    <2>8. clk < MaxClock + 3 * MaxSyncs
        BY <2>6, MayMove DEF SerialInv
    <2>9. resp[c].type \notin {"finish", "download"}
        BY SessionIs, NoSessionFields, Numbers DEF Awaits, Fits
    <2>10. Answered[c] = NoCol /\ Answered' = Answered
        BY <2>5, <2>9, NothingToAdopt
    <2>11. col = [AS!SetSchemaModified(cli[c], clk + 1) EXCEPT !.mod = cli[c].mod]
        BY <2>2 DEF SetSchemaModified, AS!SetSchemaModified, Collection
    <2> HIDE DEF col
    <2>12. AS!NoCol = NoCol
        BY DEF AS!NoCol, NoCol, AS!Absent, AS!NoGrave, Absent, NoGrave
    <2>13. AS!Change(c, col)
        BY <2>1, <2>4, <2>5, <2>8, <2>10, <2>12 DEF AS!Change, AS!Idle, AS!Tick, Acts
    <2>14. AS!ModifySchema(c)
        BY <2>11, <2>13 DEF AS!ModifySchema
    <2>15. AS!Next
        BY <2>14 DEF AS!Next, AS!LocalChange
    <2>16. QED
        BY <2>5, <2>7, <2>15 DEF SerialInv, AbstractStep
<1>4. QED
    BY <1>2, <1>3

LEMMA QuietEndings ==
    ASSUME SyncInv, SerialInv, NEW c \in Clients,
           NothingToSync(c) \/ PostponeFullSync(c) \/ UploadDone(c) \/ ClientRestart(c)
    PROVE  SerialInv' /\ AbstractStep
<1>1. /\ EndSession(c) /\ resp' = [resp EXCEPT ![c] = NoResp]
      /\ UNCHANGED <<srvVars, edits, born, cli, clk, syncs>>
    BY DEF NothingToSync, PostponeFullSync, UploadDone, ClientRestart, Heard
<1>2. Acts(c, NoSession) /\ net' = net
    BY <1>1, EndActs
<1>3. QED
    BY <1>1, <1>2, QuietEnd

LEMMA QuietUserAbort ==
    ASSUME SyncInv, SerialInv, NEW c \in Clients, UserAbort(c)
    PROVE  SerialInv' /\ AbstractStep
<1> DEFINE m == Request(c, NoSession, "abort")
<1>1. m.type = "abort" /\ m.from = c
    BY DEF Request
<1>2. /\ sess' = [sess EXCEPT ![c] = NoSession] /\ net' = net \cup {m}
      /\ resp' = [resp EXCEPT ![c] = NoResp] /\ UNCHANGED <<srvVars, cli, clk, edits, born, syncs>>
    BY DEF UserAbort
<1> HIDE DEF m
<1>3. Acts(c, NoSession)
    BY <1>1, <1>2 DEF Acts, srvVars
<1>4. \A n \in net' \ net : n.type = "abort"
    BY <1>1, <1>2
<1>5. QED
    BY <1>2, <1>3, <1>4, QuietEnd

LEMMA QuietTimeout ==
    ASSUME SyncInv, SerialInv, NEW c \in Clients, Timeout(c) \/ Aborted(c)
    PROVE  SerialInv' /\ AbstractStep
<1>1. /\ ~Idle(c) /\ resp' = [resp EXCEPT ![c] = NoResp]
      /\ UNCHANGED <<srvVars, edits, born, syncs>>
    BY DEF Timeout, Aborted, Received, Heard
<1>2. CASE sess[c].await.type = "abort"
    <2>1. EndAbort(c)
        BY <1>2 DEF Timeout, Aborted
    <2>2. QED
        BY <1>1, <1>2, <2>1, QuietAbort
<1>3. CASE sess[c].await.type \in {"meta", "upload", "download"}
    <2>1. EndSession(c) /\ UNCHANGED <<cli, clk>>
        BY <1>3 DEF Timeout, Aborted
    <2>2. Acts(c, NoSession) /\ net' = net
        BY <1>1, <2>1, EndActs
    <2>3. QED
        BY <1>1, <2>1, <2>2, QuietEnd
<1>4. CASE sess[c].await.type \notin {"abort", "meta", "upload", "download"}
    <2>1. RollBack(c, FALSE) /\ UNCHANGED <<cli, clk>>
        BY <1>4 DEF Timeout, Aborted
    <2>2. QED
        BY <1>1, <2>1, QuietRollBack
<1>5. QED
    BY <1>2, <1>3, <1>4

LEMMA QuietErrors ==
    ASSUME SyncInv, SerialInv, NEW c \in Clients, SanityFailed(c) \/ SessionError(c)
    PROVE  SerialInv' /\ AbstractStep
<1>1. /\ resp' = [resp EXCEPT ![c] = NoResp]
      /\ UNCHANGED <<srvVars, cli, clk, edits, born, syncs>>
    BY DEF SanityFailed, SessionError, Heard
<1>2. CASE SanityFailed(c)
    <2>1. Received(c, "sanity") /\ RollBack(c, TRUE)
        BY <1>2 DEF SanityFailed
    <2>2. sess[c].await.type = "sanity"
        BY <2>1, ReceivedIs DEF Fits
    <2>3. MayTick(sess[c])
        BY <2>2 DEF MayTick
    <2>4. QED
        BY <1>1, <2>1, <2>3, QuietRollBack
<1>3. CASE SessionError(c)
    BY <1>1, <1>3, QuietRollBack DEF SessionError
<1>4. QED
    BY <1>2, <1>3

LEMMA QuietDownload ==
    ASSUME SyncInv, SerialInv, NEW c \in Clients, DownloadCollection(c)
    PROVE  SerialInv' /\ AbstractStep
<1> DEFINE m == Request(c, sess[c], "download")
           s == [NoSession EXCEPT !.await = m]
<1>1. /\ Received(c, "meta") /\ sess' = [sess EXCEPT ![c] = s] /\ net' = net \cup {m}
      /\ resp' = [resp EXCEPT ![c] = NoResp]
      /\ UNCHANGED <<srvVars, cli, clk, edits, born, syncs>>
    BY DEF DownloadCollection, FullSyncRequired, Send, Heard
<1>2. m.type = "download" /\ m.from = c /\ s.await = m
    BY NoSessionWaits DEF Request
<1> HIDE DEF m, s
<1>3. Acts(c, s)
    BY <1>1, <1>2 DEF Acts, srvVars
<1>4. s.await.type \notin Underway /\ s.await.type # "start" /\ ~MayTick(s)
    BY <1>2, UnderwayTypes DEF MayTick
<1>5. \A n \in net' \ net : n = m
    BY <1>1
<1>6. \E n : Orders' \subseteq Orders \cup {n}
    BY <1>1 DEF Orders
<1>7. \E d \in Tickers : Tickers' \subseteq Tickers \ {d}
    <2>1. sess[c].await.type = "meta"
        BY <1>1, ReceivedIs DEF Fits
    <2>2. c \in Tickers
        BY <2>1 DEF Tickers, MayTick
    <2>3. QED
        BY <1>3, <1>4, <2>2, ActsTickers
<1>8. ClockBound'
    BY <1>1, <1>6, <1>7, Numbers, BoundKeeps DEF SerialInv
<1>9. \A n \in net' \ net : n.type # "upload" /\ ~(n.type = "finish" /\ InSession(n))
    BY <1>2, <1>5
<1>10. UNCHANGED <<cli, clk>>
    BY <1>1
<1>11. QED
    BY <1>3, <1>4, <1>8, <1>9, <1>10, QuietAct

(* The collection is made ready, and sent.                                 *)
LEMMA UploadPrepares ==
    ASSUME SyncInv, SerialInv, NEW c \in Clients, UploadCollection(c)
    PROVE  SerialInv' /\ AbstractStep
<1> DEFINE col == BeforeUpload(cli[c], clk + 1)
           m == [type |-> "upload", from |-> c, skey |-> sess[c].skey, col |-> col]
           s == [NoSession EXCEPT !.await = m]
<1>1. /\ Received(c, "meta") /\ sess' = [sess EXCEPT ![c] = s] /\ net' = net \cup {m}
      /\ cli' = [cli EXCEPT ![c] = col] /\ clk' = clk + 1
      /\ resp' = [resp EXCEPT ![c] = NoResp]
      /\ UNCHANGED <<srvVars, edits, born, syncs>>
    BY DEF UploadCollection, FullSyncRequired, Tick, Send, Heard
<1>2. m.type = "upload" /\ m.from = c /\ m.col = col /\ s.await = m
    BY NoSessionWaits
<1>3. col = AS!BeforeUpload(cli[c], clk + 1) /\ col.mod = clk + 1 /\ col \in Collection
    <2>1. cli[c] \in Collection /\ clk + 1 \in Nat
        BY ClientData, Numbers
    <2>2. col \in Collection
        BY <2>1, MovedTyped
    <2>3. col.mod = clk + 1
        BY <2>1 DEF BeforeUpload, Collection
    <2>4. \A row, usn : AS!StampRow(row, usn) = StampRow(row, usn)
        BY DEF AS!StampRow, StampRow
    <2>5. AS!Objs = Objs /\ AS!PendingUsn = PendingUsn /\ AS!NoGrave = NoGrave
        BY Linked DEF AS!NoGrave, NoGrave
    <2>6. col = AS!BeforeUpload(cli[c], clk + 1)
        BY <2>4, <2>5 DEF BeforeUpload, AS!BeforeUpload
    <2>7. QED
        BY <2>2, <2>3, <2>6
<1> HIDE DEF m, s, col
<1>4. cli = [d \in Clients |-> cli[d]]
    BY DEF SyncInv, Data
<1>5. Acts(c, s)
    BY <1>1, <1>2, <1>4 DEF Acts, srvVars
<1>6. s.await.type \notin Underway /\ ~MayTick(s)
    BY <1>2, UnderwayTypes DEF MayTick
<1>7. \A n \in net' \ net : n = m
    BY <1>1
<1>8. /\ Staged' /\ Current' /\ Committable' /\ Offered' = Offered
      /\ Answered' = [Answered EXCEPT ![c] = NoCol] /\ Orders' = Orders
      /\ Tickers' = Tickers \ {c}
    BY <1>1, <1>2, <1>5, <1>6, <1>7, ActParts
<1>9. sess[c].await.type = "meta" /\ resp[c].type = "meta"
    BY <1>1, ReceivedIs DEF Fits
<1>10. c \in Tickers
    BY <1>9 DEF Tickers, MayTick
<1>11. ClockBound'
    BY <1>1, <1>8, <1>10, Numbers, BoundKeeps DEF SerialInv
<1>12. clk < MaxClock + 3 * MaxSyncs
    BY <1>10, MayMove DEF SerialInv
<1>13. UploadsApart'
    <2>1. clk \in Nat /\ \A n \in net : n.type = "upload" => n.col.mod \in Nat /\ n.col.mod <= clk
        BY Fields, Numbers DEF SyncInv, Talk, RequestOK, SerialInv, UploadsApart
    <2>2. m.col.mod = clk + 1
        BY <1>2, <1>3
    <2>3. ASSUME NEW n \in net', n.type = "upload"
          PROVE  n.col.mod <= clk'
        BY <1>1, <2>1, <2>2, <2>3
    <2>4. ASSUME NEW n \in net', NEW x \in net', n.type = "upload", x.type = "upload",
                 n.col.mod = x.col.mod
          PROVE  n = x
        <3>1. CASE n \in net /\ x \in net
            BY <2>4, <3>1 DEF SerialInv, UploadsApart
        <3>2. CASE n = m /\ x \in net
            BY <2>1, <2>2, <2>4, <3>2
        <3>3. CASE n \in net /\ x = m
            BY <2>1, <2>2, <2>4, <3>3
        <3>4. QED
            BY <1>1, <3>1, <3>2, <3>3
    <2>5. QED
        BY <2>3, <2>4 DEF UploadsApart
<1>14. Uploaded' = Uploaded \cup {col}
    BY <1>1, <1>2 DEF Uploaded
<1>15. Answered[c] = NoCol /\ Answered' = Answered
    BY <1>8, <1>9, NothingToAdopt
<1>16. AS!NoCol = NoCol
    BY DEF AS!NoCol, NoCol, AS!Absent, AS!NoGrave, Absent, NoGrave
<1>17. AS!PrepareUpload(c)
    BY <1>1, <1>3, <1>5, <1>8, <1>12, <1>14, <1>15, <1>16
       DEF AS!PrepareUpload, AS!Idle, AS!Tick, Acts
<1>18. AS!Next
    BY <1>17 DEF AS!Next
<1>19. QED
    BY <1>8, <1>11, <1>13, <1>18 DEF SerialInv, AbstractStep

(* The client replaces its collection.                                     *)
LEMMA EndAdopts ==
    ASSUME SyncInv, SerialInv, NEW c \in Clients, SessionFinished(c) \/ DownloadDone(c)
    PROVE  SerialInv' /\ AbstractStep
<1> DEFINE col == IF SessionFinished(c) THEN FinishedWork(c) ELSE resp[c].col
<1>1. /\ EndSession(c) /\ resp' = [resp EXCEPT ![c] = NoResp]
      /\ UNCHANGED <<srvVars, edits, born, clk, syncs>> /\ cli' = [cli EXCEPT ![c] = col]
    BY DEF SessionFinished, DownloadDone, Heard
<1>2. cli = [d \in Clients |-> cli[d]]
    BY DEF SyncInv, Data
<1>3. Acts(c, NoSession) /\ net' = net
    BY <1>1, <1>2, EndActs
<1>4. /\ Staged' /\ Current' /\ Committable' /\ Offered' = Offered
      /\ Answered' = [Answered EXCEPT ![c] = NoCol]
      /\ UploadsApart' /\ Uploaded' = Uploaded /\ Orders' = Orders
      /\ Tickers' = Tickers \ {c}
    BY <1>1, <1>3, NoSessionWaits, ActParts
<1>5. ClockBound'
    BY <1>1, <1>4, Numbers, BoundKeeps DEF SerialInv
<1>6. Answered[c] = col /\ col \in Collection
    <2>1. CASE SessionFinished(c)
        <3>1. Received(c, "finish") /\ col = FinishedWork(c)
            BY <2>1 DEF SessionFinished
        <3>2. /\ resp[c].type = "finish" /\ resp[c].mod \in Nat /\ sess[c].work \in Collection
              /\ sess[c].server_usn \in Nat
            BY <3>1, ReceivedIs, UnderwayTypes, SessionFields DEF Fits, Awaits, AnswerOK
        <3>3. sess[c].server_usn + 1 \in Nat
            BY <3>2
        <3>4. FinishedWork(c) \in Collection
            BY <3>2, <3>3, MovedTyped DEF FinishedWork
        <3>5. QED
            BY <3>1, <3>2, <3>4 DEF Answered
    <2>2. CASE ~SessionFinished(c)
        <3>1. Received(c, "download") /\ col = resp[c].col
            BY <2>2 DEF DownloadDone
        <3>2. resp[c].type = "download" /\ resp[c].col \in Collection
            BY <3>1, ReceivedIs DEF AnswerOK
        <3>3. QED
            BY <3>1, <3>2 DEF Answered
    <2>3. QED
        BY <2>1, <2>2
<1> HIDE DEF col
<1>7. AS!NoCol = NoCol
    BY DEF AS!NoCol, NoCol, AS!Absent, AS!NoGrave, Absent, NoGrave
<1>8. AS!Adopt(c)
    BY <1>1, <1>3, <1>4, <1>6, <1>7, NoColApart DEF AS!Adopt, Acts
<1>9. AS!Next
    BY <1>8 DEF AS!Next
<1>10. QED
    BY <1>4, <1>5, <1>9 DEF SerialInv, AbstractStep

(* A session that asks the server to commit it, or one that the server has *)
(* closed meanwhile.                                                       *)
LEMMA PassedBegins ==
    ASSUME SyncInv, SerialInv, NEW c \in Clients, SanityPassed(c)
    PROVE  SerialInv' /\ AbstractStep
<1> DEFINE m == [type |-> "finish", from |-> c, skey |-> sess[c].skey, base |-> cli[c]]
           s == [sess[c] EXCEPT !.await = m]
<1>1. /\ Received(c, "sanity") /\ resp[c].good
      /\ sess' = [sess EXCEPT ![c] = s] /\ net' = net \cup {m}
      /\ resp' = [resp EXCEPT ![c] = NoResp]
      /\ UNCHANGED <<srvVars, cli, clk, edits, born, syncs>>
    BY DEF SanityPassed, Continue, Send, Heard
<1>2. /\ SessionShape(sess[c], syncs, epoch) /\ sess[c].await.type = "sanity"
      /\ resp[c].type = "sanity" /\ resp[c] # NoResp /\ sess[c].skey # 0
    BY <1>1, ReceivedIs, UnderwayTypes DEF Fits
<1>3. /\ s.await = m /\ s.work = sess[c].work /\ s.skey = sess[c].skey
      /\ s.server_usn = sess[c].server_usn /\ s.local_is_newer = sess[c].local_is_newer
    BY <1>2, Await, Numbers
<1>4. m.type = "finish" /\ m.from = c /\ m.skey = sess[c].skey /\ m.base = cli[c]
    OBVIOUS
<1> HIDE DEF m, s
<1>5. Acts(c, s)
    BY <1>1, <1>4 DEF Acts, srvVars
<1>6. cli[c] \in Collection /\ srv \in Collection
    BY ClientData DEF SyncInv, Data
<1>7. ASSUME user.st.skey = sess[c].skey, user.col # NoCol
      PROVE  /\ Stage(cli[c], srv, user, s, NoResp, TRUE)
             /\ user.col = AS!ServerMerged(cli[c], srv)
             /\ SanityCounts(AS!ClientMerged(cli[c], srv))
                  = SanityCounts(AS!ServerMerged(cli[c], srv))
             /\ NormalSyncRequired(cli[c], srv.mod, srv.scm)
    <2>1. /\ Stage(cli[c], srv, user, sess[c], resp[c], FALSE)
          /\ Opened(cli[c], srv, user, sess[c])
        BY <1>2, <1>7, UnderwayTypes, Reached
    <2>2. SameMeta(s, sess[c]) /\ s.await.type = "finish" /\ s.await.base = cli[c]
        BY <1>3, <1>4 DEF SameMeta
    <2>3. QED
        BY <1>1, <1>2, <1>3, <1>6, <2>1, <2>2, AskToFinish
<1>8. (s.await \in net') = TRUE
    BY <1>1, <1>3
<1>9. /\ s.await.type \in Underway /\ user.st.skey = s.skey /\ user.col # NoCol
           => Stage(cli[c], srv, user, s, NoResp, s.await \in net')
      /\ s.await.type # "start" /\ ~MayTick(s)
    BY <1>3, <1>4, <1>7, <1>8 DEF MayTick
<1>10. ClockBound'
    <2>1. \E n : Orders' \subseteq Orders \cup {n}
        BY <1>1 DEF Orders
    <2>2. c \in Tickers
        BY <1>2 DEF Tickers, MayTick
    <2>3. \E d \in Tickers : Tickers' \subseteq Tickers \ {d}
        BY <1>5, <1>9, <2>2, ActsTickers
    <2>4. QED
        BY <1>1, <2>1, <2>3, Numbers, BoundKeeps DEF SerialInv
<1>11. \A n \in net' \ net : n = m
    BY <1>1
<1>12. UNCHANGED <<cli, clk>>
    BY <1>1
<1>13. CASE ~InSession(m)
    <2>1. \A n \in net' \ net : n.type # "upload" /\ ~(n.type = "finish" /\ InSession(n))
        BY <1>4, <1>11, <1>13
    <2>2. QED
        BY <1>5, <1>9, <1>10, <1>12, <2>1, QuietAct
<1>14. CASE InSession(m)
    <2>1. user.st.skey = sess[c].skey /\ user.col # NoCol
        <3>1. user.st # NoSync /\ user.st.skey = sess[c].skey
            BY <1>4, <1>14 DEF InSession
        <3>2. user # ClosedUser
            BY <3>1 DEF ClosedUser
        <3>3. sess[c].await.type # "abort" /\ ~SanityRefused(resp[c])
            BY <1>1, <1>2 DEF SanityRefused
        <3>4. QED
            BY <3>1, <3>2, <3>3 DEF SyncInv, Protocol, Closed
    <2>2. Acceptable = {}
        <3>1. ASSUME NEW n \in Acceptable
              PROVE  FALSE
            <4>1. n \in net /\ n.type = "finish" /\ n.skey = sess[c].skey
                BY <2>1, <3>1 DEF Acceptable, InSession
            <4>2. n = sess[c].await \/ sess[c].await.type = "abort"
                BY <4>1, UnderwayTypes DEF SyncInv, Protocol, RequestAwaited
            <4>3. QED
                BY <1>2, <4>1, <4>2
        <3>2. QED
            BY <3>1
    <2>3. Acceptable' = {m}
        <3>1. user' = user
            BY <1>5 DEF Acts
        <3>2. \A n \in net : ~(n.type = "finish" /\ InSession(n))
            BY <2>2 DEF Acceptable
        <3>3. \A n : InSession(n)' <=> InSession(n)
            BY <3>1 DEF InSession
        <3>4. Acceptable' = {n \in net' : n.type = "finish" /\ InSession(n)'}
            BY DEF Acceptable
        <3>5. QED
            BY <1>1, <1>4, <1>14, <3>2, <3>3, <3>4
    <2>4. /\ Offered = {} /\ Offered' = {[client |-> c, col |-> cli[c]]}
        BY <1>4, <2>2, <2>3 DEF Offered
    <2>5. Committable'
        <3>1. user' = user /\ srv' = srv
            BY <1>5 DEF Acts
        <3>2. Committable' <=>
                \A n \in Acceptable' :
                   /\ user'.col = AS!ServerMerged(n.base, srv')
                   /\ SanityCounts(AS!ClientMerged(n.base, srv'))
                        = SanityCounts(AS!ServerMerged(n.base, srv'))
                   /\ NormalSyncRequired(n.base, srv'.mod, srv'.scm)
            BY DEF Committable
        <3>3. QED
            BY <1>4, <1>7, <2>1, <2>3, <3>1, <3>2
    <2>6. Staged' /\ Current'
        BY <1>5, <1>9, <1>12, ActsStaged, ActsCurrent DEF SerialInv
    <2>7. UploadsApart' /\ Uploaded' = Uploaded
        BY <1>4, <1>5, <1>11, <1>12, ActsUploads DEF SerialInv
    <2>8. Answered[c] = NoCol /\ Answered' = Answered
        <3>1. Answered' = [Answered EXCEPT ![c] = NoCol]
            BY <1>5, ActsAnswered
        <3>2. QED
            BY <1>2, <3>1, NothingToAdopt
    <2>9. AS!NoCol = NoCol
        BY DEF AS!NoCol, NoCol, AS!Absent, AS!NoGrave, Absent, NoGrave
    <2>10. AS!BeginSession(c)
        BY <1>5, <1>12, <2>4, <2>7, <2>8, <2>9 DEF AS!BeginSession, AS!Idle, Acts
    <2>11. AS!Next
        BY <2>10 DEF AS!Next
    <2>12. QED
        BY <1>10, <2>5, <2>6, <2>7, <2>11 DEF SerialInv, AbstractStep
<1>15. QED
    BY <1>13, <1>14

LEMMA IdleIs ==
    ASSUME SyncInv, NEW c \in Clients, Idle(c)
    PROVE  sess[c] = NoSession /\ resp[c] = NoResp
<1>1. NoReq.type \notin Keyed \cup {"upload", "download"}
    BY DEF NoReq, Keyed, Underway, Stateful
<1>2. ~Awaits(c, sess[c], resp[c], syncs, epoch)
    BY <1>1 DEF Idle, Awaits, RequestOK
<1>3. QED
    BY <1>2 DEF SyncInv, Talk, SessionOK

LEMMA ChangeStays ==
    ASSUME SyncInv, SerialInv, NEW c \in Clients, NEW col, Change(c, col)
    PROVE  SerialInv' /\ AS!Change(c, col)
<1>1. /\ Idle(c) /\ clk < MaxClock /\ clk' = clk + 1 /\ cli' = [cli EXCEPT ![c] = col]
      /\ UNCHANGED <<srv, torn, user, epoch, sess, net, resp, syncs, faults>>
    BY DEF Change, Tick, srvVars
<1>2. sess[c] = NoSession /\ resp[c] = NoResp
    BY <1>1, IdleIs
<1>3. sess[c].await.type = "none" /\ "none" \notin Underway /\ resp[c].type = "none"
    BY <1>2, NoSessionWaits DEF NoResp
<1>4. cli = [d \in Clients |-> cli[d]]
    BY DEF SyncInv, Data
<1>5. \A d \in Clients : d = c \/ cli'[d] = cli[d]
    BY <1>1, <1>4
<1>6. Staged'
    <2> SUFFICES ASSUME NEW d \in Clients, Joined(d)'
                 PROVE  Stage(cli'[d], srv', user', sess'[d], resp'[d], sess'[d].await \in net')
        BY DEF Staged, Asked
    <2>1. Joined(d) /\ d # c
        BY <1>1, <1>3 DEF Joined
    <2>2. Stage(cli[d], srv, user, sess[d], resp[d], sess[d].await \in net)
        BY <2>1 DEF SerialInv, Staged, Asked
    <2>3. QED
        BY <1>1, <1>5, <2>1, <2>2
<1>7. Current'
    <2> SUFFICES ASSUME NEW d \in Clients
                 PROVE  /\ resp'[d].type = "meta" => Told(srv', resp'[d], epoch')
                        /\ sess'[d].await.type = "start" =>
                              Starting(cli'[d], srv', sess'[d], sess'[d].await \in net', epoch')
        BY DEF Current, Asked
    <2>1. d = c => resp'[d].type # "meta" /\ sess'[d].await.type # "start"
        BY <1>1, <1>3
    <2>2. /\ resp[d].type = "meta" => Told(srv, resp[d], epoch)
          /\ sess[d].await.type = "start" =>
                Starting(cli[d], srv, sess[d], sess[d].await \in net, epoch)
        BY DEF SerialInv, Current, Asked
    <2>3. QED
        BY <1>1, <1>5, <2>1, <2>2
<1>8. Acceptable' = Acceptable
    BY <1>1 DEF Acceptable, InSession
<1>9. Offered' = Offered /\ Uploaded' = Uploaded
    BY <1>1, <1>8 DEF Offered, Uploaded
<1>10. Committable'
    BY <1>1, <1>8 DEF SerialInv, Committable
<1>11. UploadsApart'
    <2>1. clk \in Nat /\ \A m \in net : m.type = "upload" => m.col.mod \in Nat
        BY Numbers, Fields DEF SyncInv, Talk, RequestOK
    <2>2. QED
        BY <1>1, <2>1 DEF SerialInv, UploadsApart
<1>12. Tickers' = Tickers /\ Orders' = Orders
    BY <1>1 DEF Tickers, Orders, MayTick
<1>13. ClockBound'
    BY <1>1, <1>12, Numbers, BoundKeeps DEF SerialInv
<1>14. Answered' = Answered /\ Answered[c] = NoCol
    BY <1>1, <1>3, NothingToAdopt DEF Answered, FinishedWork
<1>15. AS!NoCol = NoCol
    BY DEF AS!NoCol, NoCol, AS!Absent, AS!NoGrave, Absent, NoGrave
<1>16. clk < MaxClock + 3 * MaxSyncs
    BY <1>1, Numbers, SyncBounds
<1>17. AS!Change(c, col)
    BY <1>1, <1>9, <1>14, <1>15, <1>16 DEF AS!Change, AS!Idle, AS!Tick
<1>18. QED
    BY <1>6, <1>7, <1>10, <1>11, <1>13, <1>17 DEF SerialInv

(* Ids are used once, which is so unless packages bring them back.         *)
LEMMA ChangeMoves ==
    ASSUME SyncInv, SerialInv, NEW c \in Clients, LocalChange(c), Reimportable = {}
    PROVE  SerialInv' /\ AbstractStep
<1>1. /\ AS!Objs = Objs /\ AS!PendingUsn = PendingUsn
      /\ \A row : AS!Present(row) = Present(row)
      /\ \A col, o, ed, now : AS!WriteRow(col, o, ed, now) = WriteRow(col, o, ed, now)
      /\ \A col, o, now : AS!RemoveRow(col, o, now) = RemoveRow(col, o, now)
      /\ \A col, ed, now : AS!WriteConfig(col, ed, now) = WriteConfig(col, ed, now)
      /\ \A col, now : AS!SetSchemaModified(col, now) = SetSchemaModified(col, now)
      /\ AS!Graved = Graved
    BY Linked DEF AS!Present, Present, AS!WriteRow, WriteRow, AS!RemoveRow, RemoveRow, AS!WriteConfig, WriteConfig, AS!SetSchemaModified,
           SetSchemaModified, AS!AddGrave, AddGrave, AS!Absent, Absent, AS!NoGrave, NoGrave,
           AS!Graved, Graved
<1>2. AS!NewEdit <=> NewEdit
    BY DEF AS!NewEdit, NewEdit
<1>3. CASE \E o \in Objs : Add(c, o)
    <2>1. PICK o \in Objs : Add(c, o)
        BY <1>3
    <2>2. Change(c, WriteRow(cli[c], o, edits + 1, clk + 1))
        BY <2>1 DEF Add
    <2>3. SerialInv' /\ AS!Change(c, WriteRow(cli[c], o, edits + 1, clk + 1))
        BY <2>2, ChangeStays
    <2>4. AS!Add(c, o)
        BY <1>1, <1>2, <2>1, <2>3 DEF Add, AS!Add
    <2>5. AS!Next
        BY <1>1, <2>4 DEF AS!Next, AS!LocalChange
    <2>6. QED
        BY <2>3, <2>5 DEF AbstractStep
<1>4. CASE \E o \in Objs : Edit(c, o)
    <2>1. PICK o \in Objs : Edit(c, o)
        BY <1>4
    <2>2. Change(c, WriteRow(cli[c], o, edits + 1, clk + 1))
        BY <2>1 DEF Edit
    <2>3. SerialInv' /\ AS!Change(c, WriteRow(cli[c], o, edits + 1, clk + 1))
        BY <2>2, ChangeStays
    <2>4. AS!Edit(c, o)
        BY <1>1, <1>2, <2>1, <2>3 DEF Edit, AS!Edit
    <2>5. AS!Next
        BY <1>1, <2>4 DEF AS!Next, AS!LocalChange
    <2>6. QED
        BY <2>3, <2>5 DEF AbstractStep
<1>5. CASE \E o \in Objs : Remove(c, o)
    <2>1. PICK o \in Objs : Remove(c, o)
        BY <1>5
    <2>2. Change(c, RemoveRow(cli[c], o, clk + 1))
        BY <2>1 DEF Remove
    <2>3. SerialInv' /\ AS!Change(c, RemoveRow(cli[c], o, clk + 1))
        BY <2>2, ChangeStays
    <2>4. AS!Remove(c, o)
        BY <1>1, <2>1, <2>3 DEF Remove, AS!Remove
    <2>5. AS!Next
        BY <1>1, <2>4 DEF AS!Next, AS!LocalChange
    <2>6. QED
        BY <2>3, <2>5 DEF AbstractStep
<1>6. CASE SetConfig(c)
    <2>1. Change(c, WriteConfig(cli[c], edits + 1, clk + 1))
        BY <1>6 DEF SetConfig
    <2>2. SerialInv' /\ AS!Change(c, WriteConfig(cli[c], edits + 1, clk + 1))
        BY <2>1, ChangeStays
    <2>3. AS!SetConfig(c)
        BY <1>1, <1>2, <1>6, <2>2 DEF SetConfig, AS!SetConfig
    <2>4. AS!Next
        BY <2>3 DEF AS!Next, AS!LocalChange
    <2>5. QED
        BY <2>2, <2>4 DEF AbstractStep
<1>7. CASE ModifySchema(c)
    <2> DEFINE col == [SetSchemaModified(cli[c], clk + 1) EXCEPT !.mod = clk + 1]
    <2>1. Change(c, col)
        BY <1>7 DEF ModifySchema
    <2>2. SerialInv' /\ AS!Change(c, col)
        BY <2>1, ChangeStays
    <2>3. AS!ModifySchema(c)
        BY <1>1, <1>7, <2>2 DEF ModifySchema, AS!ModifySchema
    <2>4. AS!Next
        BY <2>3 DEF AS!Next, AS!LocalChange
    <2>5. QED
        BY <2>2, <2>4 DEF AbstractStep
<1>8. QED
    BY <1>3, <1>4, <1>5, <1>6, <1>7 DEF LocalChange

LEMMA ClientMoves ==
    ASSUME SyncInv, SerialInv, NEW c \in Clients, Reimportable = {},
           \/ LocalChange(c) \/ Sync(c) \/ Proceed(c)
           \/ Timeout(c) \/ UserAbort(c) \/ ClientRestart(c)
    PROVE  SerialInv' /\ AbstractStep
<1>1. CASE LocalChange(c)
    BY <1>1, ChangeMoves
<1>2. CASE Sync(c)
    BY <1>2, QuietSync
<1>3. CASE \/ NothingToSync(c) \/ PostponeFullSync(c) \/ UploadDone(c) \/ ClientRestart(c)
           \/ UserAbort(c) \/ Timeout(c) \/ Aborted(c) \/ SanityFailed(c) \/ SessionError(c)
    BY <1>3, QuietEndings, QuietUserAbort, QuietTimeout, QuietErrors
<1>4. CASE \/ UploadCollection(c) \/ DownloadCollection(c) \/ DownloadDone(c)
           \/ SessionFinished(c) \/ SanityPassed(c)
    BY <1>4, UploadPrepares, QuietDownload, EndAdopts, PassedBegins
<1>5. CASE \/ StartSession(c) \/ SessionStarted(c) \/ GravesApplied(c)
           \/ ReceiveChanges(c) \/ ReceiveChunk(c) \/ ChunkApplied(c)
    BY <1>5, QuietStart, QuietSessionStarted, QuietGravesApplied, QuietReceiveChanges,
       QuietReceiveChunk, QuietChunkApplied
<1>6. QED
    BY <1>1, <1>2, <1>3, <1>4, <1>5 DEF Proceed

-----------------------------------------------------------------------------
(* A step of the server.                                                   *)

Serves(m) == net' = net \ {m} /\ UNCHANGED <<cli, sess, edits, born, syncs>>

(* Whoever waits for the answer to m has none yet.                         *)
LEMMA ServedWaits ==
    ASSUME SyncInv, NEW m \in net
    PROVE  /\ m.from \in Clients
           /\ \A d \in Clients : sess[d].await = m =>
                 /\ d = m.from /\ resp[d] = NoResp /\ sess[d].await \in net
                 /\ m.type \in Keyed => sess[d].skey = m.skey
<1>1. m.from \in Clients /\ m.type # "none"
    BY DEF SyncInv, Talk, RequestOK, Keyed, Underway, Stateful
<1>2. ASSUME NEW d \in Clients, sess[d].await = m
      PROVE  /\ d = m.from /\ resp[d] = NoResp /\ sess[d].await \in net
             /\ m.type \in Keyed => sess[d].skey = m.skey
    <2>1. ~Idle(d)
        BY <1>1, <1>2, NoSessionFields, Numbers DEF Idle
    <2>2. Awaits(d, sess[d], resp[d], syncs, epoch)
        BY <2>1, SessionIs
    <2>3. resp[d] = NoResp
        BY <1>2 DEF SyncInv, Protocol, NotAnswered
    <2>4. QED
        BY <1>2, <2>2, <2>3 DEF Awaits
<1>3. QED
    BY <1>1, <1>2

LEMMA ServedAnswer ==
    ASSUME SyncInv, NEW m \in net, NEW r, Answer(m, r)
    PROVE  \A d \in Clients : resp'[d] = IF sess[d].await = m THEN r ELSE resp[d]
BY AnswerReaches, Numbers DEF SyncInv

LEMMA ServedCurrent ==
    ASSUME SyncInv, Current, net' \subseteq net, UNCHANGED <<cli, sess>>,
           (srv' = srv /\ epoch' = epoch) \/ epoch' = epoch + 1,
           \A d \in Clients :
              resp'[d] = resp[d] \/ (resp'[d].type = "meta" => Told(srv', resp'[d], epoch'))
    PROVE  Current'
<1> SUFFICES ASSUME NEW d \in Clients
             PROVE  /\ resp'[d].type = "meta" => Told(srv', resp'[d], epoch')
                    /\ sess[d].await.type = "start" =>
                          Starting(cli[d], srv', sess[d], sess[d].await \in net', epoch')
    BY DEF Current, Asked
<1>1. /\ resp[d].type = "meta" => Told(srv, resp[d], epoch) /\ resp[d].epoch \in 0..epoch
      /\ sess[d].await.type = "start" =>
            /\ Starting(cli[d], srv, sess[d], sess[d].await \in net, epoch)
            /\ sess[d].epoch \in 0..epoch
    <2>1. /\ resp[d].type = "meta" => Told(srv, resp[d], epoch)
          /\ sess[d].await.type = "start" =>
                Starting(cli[d], srv, sess[d], sess[d].await \in net, epoch)
        BY DEF Current, Asked
    <2>2. SessionShape(sess[d], syncs, epoch)
        BY NoSessionFields, Numbers DEF SyncInv, Talk, SessionOK
    <2>3. sess[d].epoch \in 0..epoch
        BY <2>2, SessionFields
    <2>4. resp[d].type = "meta" => resp[d].epoch \in 0..epoch
        <3>1. resp[d] = NoResp \/ AnswerOK(resp[d], epoch)
            BY DEF SyncInv, Talk, SessionOK, Awaits
        <3>2. QED
            BY <3>1 DEF AnswerOK, NoResp
    <2>5. QED
        BY <2>1, <2>3, <2>4
<1>2. epoch \in Nat /\ \A e \in 0..epoch : e # epoch + 1
    BY Numbers
<1>3. resp'[d].type = "meta" => Told(srv', resp'[d], epoch')
    <2>1. CASE resp'[d] = resp[d]
        BY <1>1, <1>2, <2>1 DEF Told
    <2>2. CASE resp'[d] # resp[d]
        BY <2>2
    <2>3. QED
        BY <2>1, <2>2
<1>4. sess[d].await.type = "start" =>
         Starting(cli[d], srv', sess[d], sess[d].await \in net', epoch')
    <2>1. CASE srv' = srv /\ epoch' = epoch
        BY <1>1, <2>1 DEF Starting
    <2>2. CASE epoch' = epoch + 1
        BY <1>1, <1>2, <2>2 DEF Starting
    <2>3. QED
        BY <2>1, <2>2
<1>5. QED
    BY <1>3, <1>4

LEMMA ServedUploads ==
    ASSUME SyncInv, UploadsApart, net' \subseteq net, clk' \in {clk, clk + 1}
    PROVE  UploadsApart'
<1>1. clk \in Nat /\ \A m \in net : m.type = "upload" => m.col.mod \in Nat
    BY Numbers, Fields DEF SyncInv, Talk, RequestOK
<1>2. QED
    BY <1>1 DEF UploadsApart

LEMMA ServedBound ==
    ASSUME SyncInv, ClockBound, net' \subseteq net, UNCHANGED <<sess, syncs>>,
           \/ clk' = clk
           \/ /\ clk' = clk + 1
              /\ \E m \in net : m.type \in {"finish", "download"} /\ m \notin net'
    PROVE  ClockBound'
<1>1. Tickers' = Tickers /\ Orders' \subseteq Orders
    BY DEF Tickers, MayTick, Orders
<1>2. (\E m \in net : m.type \in {"finish", "download"} /\ m \notin net')
        => \E m \in Orders : Orders' \subseteq Orders \ {m}
    BY DEF Orders
<1>3. QED
    BY <1>1, <1>2, Numbers, BoundKeeps

(* Only one session may be committed.                                      *)
LEMMA OneOffer ==
    ASSUME SyncInv, NEW m \in Acceptable
    PROVE  Acceptable = {m} /\ Offered = {[client |-> m.from, col |-> m.base]}
<1>1. Acceptable = {m}
    BY UnderwayTypes DEF SyncInv, Protocol, OneRequest, Acceptable, InSession
<1>2. QED
    BY <1>1 DEF Offered

(* A session that ends is withdrawn when it was offered.                   *)
LEMMA Withdrawn ==
    ASSUME SyncInv, UNCHANGED <<srv, torn, cli, clk, edits, born>>,
           Answered' = Answered, Uploaded' = Uploaded,
           Acceptable' = {} \/ Acceptable' = Acceptable
    PROVE  AbstractStep
<1>1. CASE Acceptable' = Acceptable
    <2>1. Offered' = Offered
        BY <1>1 DEF Offered
    <2>2. QED
        BY <2>1 DEF AbstractStep
<1>2. CASE Acceptable' = {} /\ Acceptable # {}
    <2>1. PICK m \in Acceptable : TRUE
        BY <1>2
    <2> DEFINE x == [client |-> m.from, col |-> m.base]
    <2>2. Offered = {x} /\ Offered' = {}
        BY <1>2, OneOffer DEF Offered
    <2> HIDE DEF x
    <2>3. AS!Withdraw(x) /\ x \in Offered
        BY <2>2 DEF AS!Withdraw
    <2>4. QED
        BY <2>3 DEF AbstractStep, AS!Next
<1>3. QED
    BY <1>1, <1>2

(* An answer that brings no collection.                                    *)
LEMMA AnswerBringsNone ==
    ASSUME SyncInv, NEW m \in net, NEW r, Answer(m, r), sess' = sess,
           r.type \notin {"finish", "download"}
    PROVE  Answered' = Answered
<1>1. \A d \in Clients : resp'[d] = IF sess[d].await = m THEN r ELSE resp[d]
    BY ServedAnswer
<1>2. \A d \in Clients : sess[d].await = m => resp[d].type \notin {"finish", "download"}
    BY ServedWaits DEF NoResp
<1> DEFINE Of(a, w) == CASE a.type = "finish"   -> Finish(w.work, w.server_usn + 1, a.mod)
                         [] a.type = "download" -> a.col
                         [] OTHER               -> NoCol
<1>3. /\ Answered = [d \in Clients |-> Of(resp[d], sess[d])]
      /\ Answered' = [d \in Clients |-> Of(resp'[d], sess'[d])]
    BY DEF Answered, FinishedWork
<1>4. \A d \in Clients : Of(resp'[d], sess'[d]) = Of(resp[d], sess[d])
    <2> SUFFICES ASSUME NEW d \in Clients
                 PROVE  Of(resp'[d], sess'[d]) = Of(resp[d], sess[d])
        OBVIOUS
    <2>1. CASE sess[d].await = m
        BY <1>1, <1>2, <2>1
    <2>2. CASE sess[d].await # m
        BY <1>1, <2>2
    <2>3. QED
        BY <2>1, <2>2
<1> HIDE DEF Of
<1>5. QED
    BY <1>3, <1>4

(* What the server does without a change of its collection.                *)
LEMMA QuietServe ==
    ASSUME SyncInv, SerialInv, NEW m \in net, Serves(m), m.type # "upload",
           UNCHANGED <<srv, torn, epoch, clk>>, NEW r, Answer(m, r),
           r.type \notin {"finish", "download"},
           r.type = "meta" => Told(srv, r, epoch),
           Staged', Acceptable' = {} \/ (Acceptable' = Acceptable /\ user' = user)
    PROVE  SerialInv' /\ AbstractStep
<1>1. /\ net' = net \ {m} /\ net' \subseteq net
      /\ UNCHANGED <<srv, torn, epoch, clk, cli, sess, edits, born, syncs>>
    BY DEF Serves
<1>2. \A d \in Clients :
         resp'[d] = resp[d] \/ (resp'[d].type = "meta" => Told(srv', resp'[d], epoch'))
    BY <1>1, ServedAnswer
<1>3. Current' /\ UploadsApart' /\ ClockBound'
    BY <1>1, <1>2, ServedCurrent, ServedUploads, ServedBound DEF SerialInv
<1>4. Committable'
    BY <1>1 DEF SerialInv, Committable
<1>5. Answered' = Answered
    BY <1>1, AnswerBringsNone
<1>6. Uploaded' = Uploaded
    <2>1. {x \in net' : x.type = "upload"} = {x \in net : x.type = "upload"}
        BY <1>1
    <2>2. QED
        BY <2>1 DEF Uploaded
<1>7. AbstractStep
    BY <1>1, <1>5, <1>6, Withdrawn
<1>8. QED
    BY <1>3, <1>4, <1>7 DEF SerialInv

LEMMA ClosingEnds ==
    ASSUME user' = ClosedUser
    PROVE  Staged' /\ Acceptable' = {}
<1>1. user'.col = NoCol /\ user'.st = NoSync
    BY DEF ClosedUser
<1>2. Staged'
    BY <1>1 DEF Staged, Joined
<1>3. \A x : ~InSession(x)'
    BY <1>1 DEF InSession
<1>4. QED
    BY <1>2, <1>3 DEF Acceptable

LEMMA QuietClosing ==
    ASSUME SyncInv, SerialInv, NEW m \in net,
           HandleMeta(m) \/ FailOperation(m) \/ HandleAbort(m)
    PROVE  SerialInv' /\ AbstractStep
<1>1. /\ user' = ClosedUser /\ UNCHANGED <<srv, torn, epoch, clk>> /\ m.type # "upload"
      /\ UNCHANGED <<cli, sess, edits, born, syncs>>
    BY DEF HandleMeta, FailOperation, HandleAbort, Served, cliVars, Stateful
<1>2. \E r : /\ Answer(m, r) /\ r.type \notin {"finish", "download"}
             /\ r.type = "meta" => Told(srv, r, epoch)
    <2>1. CASE HandleMeta(m)
        <3> DEFINE r == [type |-> "meta", mod |-> srv.mod, scm |-> srv.scm, usn |-> srv.usn,
                         empty |-> CountOf(srv, Cards) = 0, epoch |-> epoch]
        <3>1. Answer(m, r)
            BY <2>1 DEF HandleMeta
        <3>2. r.type = "meta" /\ Told(srv, r, epoch)
            BY DEF Told
        <3> HIDE DEF r
        <3>3. QED
            BY <3>1, <3>2
    <2>2. CASE FailOperation(m)
        BY <2>2 DEF FailOperation
    <2>3. CASE HandleAbort(m)
        BY <2>3 DEF HandleAbort
    <2>4. QED
        BY <2>1, <2>2, <2>3
<1>3. PICK r : /\ Answer(m, r) /\ r.type \notin {"finish", "download"}
               /\ r.type = "meta" => Told(srv, r, epoch)
    BY <1>2
<1>4. Serves(m)
    BY <1>1, <1>3 DEF Serves, Answer
<1>5. Staged' /\ Acceptable' = {}
    BY <1>1, ClosingEnds
<1>6. QED
    BY <1>1, <1>3, <1>4, <1>5, QuietServe

LEMMA QuietRestart ==
    ASSUME SyncInv, SerialInv, ServerRestart
    PROVE  SerialInv' /\ AbstractStep
<1>1. /\ user' = ClosedUser
      /\ UNCHANGED <<srv, torn, epoch, net, resp, clk, cli, sess, edits, born, syncs>>
    BY DEF ServerRestart, Served, cliVars
<1>2. Staged' /\ Acceptable' = {}
    BY <1>1, ClosingEnds
<1>3. Current' /\ UploadsApart' /\ ClockBound'
    BY <1>1, ServedCurrent, ServedUploads, ServedBound DEF SerialInv
<1>4. Committable'
    BY <1>2 DEF Committable
<1>5. Answered' = Answered /\ Uploaded' = Uploaded
    BY <1>1 DEF Answered, FinishedWork, Uploaded
<1>6. AbstractStep
    BY <1>1, <1>2, <1>5, Withdrawn
<1>7. QED
    BY <1>2, <1>3, <1>4, <1>6 DEF SerialInv

LEMMA QuietReject ==
    ASSUME SyncInv, SerialInv, NEW m \in net, RejectConflict(m)
    PROVE  SerialInv' /\ AbstractStep
<1> DEFINE r == [type |-> "error"]
<1>1. /\ m.type \in Stateful /\ ~InSession(m) /\ Answer(m, r)
      /\ UNCHANGED <<srv, torn, user, epoch, clk, cli, sess, edits, born, syncs>>
    BY DEF RejectConflict, srvVars, Served, cliVars
<1>2. r.type = "error"
    OBVIOUS
<1> HIDE DEF r
<1>3. net' = net \ {m} /\ Serves(m)
    BY <1>1 DEF Serves, Answer
<1>4. Acceptable' = Acceptable
    BY <1>1, <1>3 DEF Acceptable, InSession
<1>5. Staged'
    <2> SUFFICES ASSUME NEW d \in Clients, Joined(d)'
                 PROVE  Stage(cli'[d], srv', user', sess'[d], resp'[d], sess'[d].await \in net')
        BY DEF Staged, Asked
    <2>1. Joined(d) /\ cli'[d] = cli[d] /\ sess'[d] = sess[d] /\ srv' = srv /\ user' = user
        BY <1>1 DEF Joined
    <2>2. sess[d].await # m
        <3> SUFFICES ASSUME sess[d].await = m
                     PROVE  FALSE
            OBVIOUS
        <3>1. user.st.skey = m.skey
            BY <1>1, <2>1, ServedWaits, UnderwayTypes DEF Joined
        <3>2. user # ClosedUser
            BY <2>1 DEF Joined, ClosedUser
        <3>3. user.st.skey # 0
            BY <3>2 DEF SyncInv, Protocol, Closed
        <3>4. user.st # NoSync
            BY <3>3 DEF NoSync
        <3>5. QED
            BY <1>1, <3>1, <3>4 DEF InSession
    <2>3. resp'[d] = resp[d]
        BY <1>1, <2>2, ServedAnswer
    <2>4. (sess[d].await \in net') = (sess[d].await \in net)
        BY <1>3, <2>2
    <2>5. Stage(cli[d], srv, user, sess[d], resp[d], sess[d].await \in net)
        BY <2>1 DEF SerialInv, Staged, Asked
    <2>6. QED
        BY <2>1, <2>3, <2>4, <2>5
<1>6. m.type # "upload"
    BY <1>1 DEF Stateful
<1>7. QED
    BY <1>1, <1>2, <1>3, <1>4, <1>5, <1>6, QuietServe

(* A step for the session of m, which becomes the only one.                *)
LEMMA ServedStaged ==
    ASSUME SyncInv, NEW m \in net, NEW r, Answer(m, r), UNCHANGED <<srv, cli, sess>>,
           m.type \in Underway, user'.st.skey = m.skey,
           \A d \in Clients :
              sess[d].await = m /\ user'.col # NoCol
                => Stage(cli[d], srv, user', sess[d], r, FALSE)
    PROVE  Staged' /\ Acceptable' = {}
<1>1. ASSUME NEW d \in Clients, Joined(d)'
      PROVE  Stage(cli'[d], srv', user', sess'[d], resp'[d], sess'[d].await \in net')
    <2>1. /\ sess[d].await.type \in Underway /\ sess[d].skey = m.skey /\ user'.col # NoCol
        BY <1>1 DEF Joined
    <2>2. sess[d].await = m
        BY <2>1, UnderwayTypes DEF SyncInv, Protocol, RequestAwaited
    <2>3. resp'[d] = r
        BY <2>2, ServedAnswer
    <2>4. (sess[d].await \in net') = FALSE
        BY <2>2 DEF Answer
    <2>5. QED
        BY <2>1, <2>2, <2>3, <2>4
<1>2. Staged'
    BY <1>1 DEF Staged, Asked
<1>3. ASSUME NEW x \in Acceptable'
      PROVE  FALSE
    <2>1. x \in net' /\ x.type = "finish" /\ x.skey = m.skey
        BY <1>3 DEF Acceptable, InSession
    <2>2. x \in net /\ x # m
        BY <2>1 DEF Answer
    <2>3. QED
        BY <2>1, <2>2, UnderwayTypes DEF SyncInv, Protocol, OneRequest
<1>4. QED
    BY <1>2, <1>3

LEMMA StartOpens ==
    ASSUME SyncInv, SerialInv, NEW m \in net, HandleStart(m), ~Stale(m)
    PROVE  SerialInv' /\ AbstractStep
<1> DEFINE st == [NoSync EXCEPT !.skey            = m.skey,
                                !.server_usn      = srv.usn,
                                !.client_usn      = m.client_usn,
                                !.client_is_newer = m.local_is_newer]
           r == [type |-> "graves", ids |-> PendingGraves(srv, m.client_usn)]
<1>1. /\ m.type = "start" /\ user' = [st |-> st, col |-> srv] /\ Answer(m, r)
      /\ UNCHANGED <<srv, torn, epoch, clk, cli, sess, edits, born, syncs>>
    BY DEF HandleStart, Served, cliVars
<1>2. /\ st.skey = m.skey /\ st.server_usn = srv.usn /\ st.client_usn = m.client_usn
      /\ st.client_is_newer = m.local_is_newer /\ ~st.have_ids
    BY DEF NoSync
<1>3. r.type = "graves" /\ r.ids = PendingGraves(srv, m.client_usn)
    OBVIOUS
<1> HIDE DEF st, r
<1>4. user'.st = st /\ user'.col = srv
    BY <1>1
<1>5. ASSUME NEW d \in Clients, sess[d].await = m
      PROVE  Stage(cli[d], srv, user', sess[d], r, FALSE)
    <2>1. /\ m.epoch = sess[d].epoch /\ m.client_usn = cli[d].usn
          /\ m.local_is_newer = sess[d].local_is_newer
          /\ sess[d].epoch = epoch => Agreed(cli[d], srv, sess[d])
        BY <1>1, <1>5 DEF SerialInv, Current, Starting, Asked
    <2>2. Agreed(cli[d], srv, sess[d])
        BY <1>1, <2>1 DEF Stale
    <2>3. Opened(cli[d], srv, user', sess[d])
        BY <1>2, <1>4, <2>1, <2>2 DEF Opened, Agreed
    <2>4. sess[d].await.type = "start"
        BY <1>1, <1>5
    <2>5. /\ user'.col = srv /\ ~user'.st.have_ids /\ r.ids = PendingGraves(srv, cli[d].usn)
        BY <1>2, <1>3, <1>4, <2>1
    <2>6. QED
        BY <2>3, <2>4, <2>5 DEF Stage
<1>6. Staged' /\ Acceptable' = {}
    <2>1. m.type \in Underway /\ user'.st.skey = m.skey
        BY <1>1, <1>2, <1>4, UnderwayTypes
    <2>2. Answer(m, r) /\ UNCHANGED <<srv, cli, sess>>
        BY <1>1
    <2>3. QED
        BY <1>5, <2>1, <2>2, ServedStaged
<1>7. Serves(m) /\ m.type # "upload"
    BY <1>1 DEF Serves, Answer
<1>8. QED
    BY <1>1, <1>3, <1>6, <1>7, QuietServe

LEMMA QuietOperate ==
    ASSUME SyncInv, SerialInv, NEW m \in net, NEW type \in Stateful, NEW col, NEW st, NEW r,
           Operate(m, type, col, st, r), st.skey = user.st.skey,
           r.type \notin {"finish", "download", "meta"},
           \A d \in Clients :
              /\ sess[d].await = m /\ Opened(cli[d], srv, user, sess[d])
              /\ Stage(cli[d], srv, user, sess[d], NoResp, TRUE)
              => Stage(cli[d], srv, [st |-> st, col |-> col], sess[d], r, FALSE)
    PROVE  SerialInv' /\ AbstractStep
<1>1. /\ m.type = type /\ InSession(m) /\ user.col # NoCol
      /\ user' = [st |-> st, col |-> col] /\ Answer(m, r)
      /\ UNCHANGED <<srv, torn, epoch, clk, cli, sess, edits, born, syncs>>
    BY DEF Operate, Served, cliVars
<1>2. m.type \in Underway /\ m.type # "start" /\ m.type # "upload" /\ m.type \in Keyed
    BY <1>1 DEF Stateful, Underway, Keyed
<1>3. user.st.skey = m.skey /\ user'.st.skey = m.skey
    BY <1>1 DEF InSession
<1>4. ASSUME NEW d \in Clients, sess[d].await = m
      PROVE  Stage(cli[d], srv, user', sess[d], r, FALSE)
    <2>1. sess[d].skey = m.skey /\ resp[d] = NoResp /\ sess[d].await \in net
        BY <1>2, <1>4, ServedWaits
    <2>2. Joined(d)
        BY <1>1, <1>2, <1>3, <1>4, <2>1 DEF Joined
    <2>3. Stage(cli[d], srv, user, sess[d], resp[d], sess[d].await \in net)
        BY <2>2 DEF SerialInv, Staged, Asked
    <2>4. (sess[d].await \in net) = TRUE
        BY <2>1
    <2>5. Stage(cli[d], srv, user, sess[d], NoResp, TRUE)
        BY <2>1, <2>3, <2>4
    <2>6. Opened(cli[d], srv, user, sess[d])
        BY <1>2, <1>4, <2>5 DEF Stage
    <2>7. QED
        BY <1>1, <1>4, <2>5, <2>6
<1>5. Staged' /\ Acceptable' = {}
    BY <1>1, <1>2, <1>3, <1>4, ServedStaged
<1>6. Serves(m)
    BY <1>1 DEF Serves, Answer
<1>7. QED
    BY <1>1, <1>2, <1>5, <1>6, QuietServe

LEMMA QuietHandlers ==
    ASSUME SyncInv, SerialInv, NEW m \in net,
           \/ HandleApplyGraves(m) \/ HandleApplyChanges(m)
           \/ HandleChunk(m) \/ HandleApplyChunk(m) \/ HandleSanity(m)
    PROVE  SerialInv' /\ AbstractStep
<1>1. srv \in Collection /\ \A d \in Clients : cli[d] \in Collection
    BY ClientData DEF SyncInv, Data
<1>2. CASE HandleApplyGraves(m)
    <2> DEFINE col == ApplyGraves(user.col, m.ids, user.st.server_usn)
               r == [type |-> "ok"]
    <2>1. Operate(m, "applyGraves", col, user.st, r) /\ m.type = "applyGraves"
        BY <1>2 DEF HandleApplyGraves, Operate
    <2>2. ASSUME NEW d \in Clients, sess[d].await = m, Opened(cli[d], srv, user, sess[d]),
                 Stage(cli[d], srv, user, sess[d], NoResp, TRUE)
          PROVE  Stage(cli[d], srv, [st |-> user.st, col |-> col], sess[d], r, FALSE)
        <3> DEFINE v == [st |-> user.st, col |-> col]
        <3>1. v.st = user.st /\ v.col = ApplyGraves(user.col, sess[d].await.ids, user.st.server_usn)
            BY <2>2
        <3> HIDE DEF v, col
        <3>2. QED
            BY <1>1, <2>1, <2>2, <3>1, TakeDeletions DEF v
    <2>3. r.type = "ok"
        OBVIOUS
    <2> HIDE DEF col, r
    <2>4. QED
        BY <2>1, <2>2, <2>3, UnderwayTypes, QuietOperate
<1>3. CASE HandleApplyChanges(m)
    <2> DEFINE merged == MergeUnchunked(user.col, m.rows)
               col == [merged EXCEPT !.conf = IF m.conf = NoConf THEN @ ELSE m.conf]
               r == [type |-> "changes",
                     rows |-> SentRows(user.col, PendingRows(user.col, user.st.client_usn, Decks)),
                     conf |-> IF user.st.client_is_newer THEN NoConf ELSE user.col.conf]
    <2>1. Operate(m, "applyChanges", col, user.st, r) /\ m.type = "applyChanges"
        BY <1>3 DEF HandleApplyChanges, Operate
    <2>2. /\ r.type = "changes"
          /\ r.rows = SentRows(user.col, PendingRows(user.col, user.st.client_usn, Decks))
          /\ r.conf = IF user.st.client_is_newer THEN NoConf ELSE user.col.conf
        OBVIOUS
    <2> HIDE DEF r
    <2>3. ASSUME NEW d \in Clients, sess[d].await = m, Opened(cli[d], srv, user, sess[d]),
                 Stage(cli[d], srv, user, sess[d], NoResp, TRUE)
          PROVE  Stage(cli[d], srv, [st |-> user.st, col |-> col], sess[d], r, FALSE)
        <3> DEFINE v == [st |-> user.st, col |-> col]
        <3>1. /\ v.st = user.st
              /\ v.col = [MergeUnchunked(user.col, sess[d].await.rows)
                            EXCEPT !.conf = IF sess[d].await.conf = NoConf THEN @
                                            ELSE sess[d].await.conf]
            BY <2>3
        <3> HIDE DEF v, col
        <3>2. QED
            BY <1>1, <2>1, <2>2, <2>3, <3>1, TakeDecks DEF v
    <2> HIDE DEF col
    <2>4. QED
        BY <2>1, <2>2, <2>3, UnderwayTypes, QuietOperate
<1>4. CASE HandleChunk(m)
    <2> DEFINE ids == IF user.st.have_ids THEN user.st.ids
                      ELSE PendingRows(user.col, user.st.client_usn, Chunked)
    <2>1. /\ m.type = "chunk"
          /\ \E part \in ChunksOf(ids) :
               Operate(m, "chunk", user.col,
                       [user.st EXCEPT !.have_ids = TRUE, !.ids = ids \ part],
                       [type |-> "chunk", rows |-> SentRows(user.col, part),
                        done |-> ChunkDone(part)])
        BY <1>4 DEF HandleChunk
    <2>2. PICK part \in ChunksOf(ids) :
             Operate(m, "chunk", user.col,
                     [user.st EXCEPT !.have_ids = TRUE, !.ids = ids \ part],
                     [type |-> "chunk", rows |-> SentRows(user.col, part),
                      done |-> ChunkDone(part)])
        BY <2>1
    <2>3. ids = IF user.st.have_ids THEN user.st.ids
                ELSE PendingRows(user.col, user.st.client_usn, Chunked)
        OBVIOUS
    <2> HIDE DEF ids
    <2> DEFINE left == ids \ part
               st == [user.st EXCEPT !.have_ids = TRUE, !.ids = left]
               r == [type |-> "chunk", rows |-> SentRows(user.col, part),
                     done |-> ChunkDone(part)]
    <2>4. Operate(m, "chunk", user.col, st, r)
        BY <2>2
    <2>5. r.type = "chunk" /\ r.rows = SentRows(user.col, part) /\ r.done = ChunkDone(part)
        OBVIOUS
    <2> HIDE DEF r
    <2>6. /\ st.skey = user.st.skey /\ st.server_usn = user.st.server_usn
          /\ st.client_usn = user.st.client_usn
          /\ st.client_is_newer = user.st.client_is_newer /\ st.have_ids /\ st.ids = left
        BY UsedState DEF ServerStates
    <2> HIDE DEF st
    <2>7. ASSUME NEW d \in Clients, sess[d].await = m, Opened(cli[d], srv, user, sess[d]),
                 Stage(cli[d], srv, user, sess[d], NoResp, TRUE)
          PROVE  Stage(cli[d], srv, [st |-> st, col |-> user.col], sess[d], r, FALSE)
        <3> DEFINE v == [st |-> st, col |-> user.col]
        <3>1. /\ v.col = user.col
              /\ v.st.server_usn = user.st.server_usn /\ v.st.client_usn = user.st.client_usn
              /\ v.st.client_is_newer = user.st.client_is_newer
              /\ v.st.have_ids /\ v.st.ids = ids \ part
            BY <2>6 DEF left
        <3> HIDE DEF v
        <3>2. sess[d].await.type = "chunk"
            BY <2>1, <2>7
        <3>3. Stage(cli[d], srv, v, sess[d], r, FALSE)
            BY <1>1, <2>3, <2>5, <2>7, <3>1, <3>2, SendServerChunk
        <3>4. QED
            BY <3>3 DEF v
    <2>8. QED
        BY <2>4, <2>5, <2>6, <2>7, UnderwayTypes, QuietOperate
<1>5. CASE HandleApplyChunk(m)
    <2> DEFINE col == MergeChunk(user.col, m.rows, user.st.client_usn)
               r == [type |-> "ok"]
    <2>1. Operate(m, "applyChunk", col, user.st, r) /\ m.type = "applyChunk"
        BY <1>5 DEF HandleApplyChunk, Operate
    <2>2. ASSUME NEW d \in Clients, sess[d].await = m, Opened(cli[d], srv, user, sess[d]),
                 Stage(cli[d], srv, user, sess[d], NoResp, TRUE)
          PROVE  Stage(cli[d], srv, [st |-> user.st, col |-> col], sess[d], r, FALSE)
        <3> DEFINE v == [st |-> user.st, col |-> col]
        <3>1. v.st = user.st /\ v.col = MergeChunk(user.col, sess[d].await.rows, user.st.client_usn)
            BY <2>2
        <3> HIDE DEF v, col
        <3>2. QED
            BY <1>1, <2>1, <2>2, <3>1, TakeClientChunk DEF v
    <2>3. r.type = "ok"
        OBVIOUS
    <2> HIDE DEF col, r
    <2>4. QED
        BY <2>1, <2>2, <2>3, UnderwayTypes, QuietOperate
<1>6. CASE HandleSanity(m)
    <2> DEFINE good == ~HasPending(user.col) /\ m.counts = SanityCounts(user.col)
               col == IF good THEN user.col ELSE NoCol
               r == [type |-> "sanity", good |-> good]
    <2>1. Operate(m, "sanity", col, user.st, r) /\ m.type = "sanity"
        BY <1>6 DEF HandleSanity, Operate
    <2>2. r.type = "sanity" /\ (r.good => col = user.col /\ m.counts = SanityCounts(user.col))
        OBVIOUS
    <2> HIDE DEF r, col
    <2>3. ASSUME NEW d \in Clients, sess[d].await = m, Opened(cli[d], srv, user, sess[d]),
                 Stage(cli[d], srv, user, sess[d], NoResp, TRUE)
          PROVE  Stage(cli[d], srv, [st |-> user.st, col |-> col], sess[d], r, FALSE)
        <3> DEFINE v == [st |-> user.st, col |-> col]
        <3>1. v.st = user.st /\ v.col = col
            OBVIOUS
        <3> HIDE DEF v
        <3>2. r.good => v.col = user.col /\ sess[d].await.counts = SanityCounts(user.col)
            BY <2>2, <2>3, <3>1
        <3>3. QED
            BY <1>1, <2>1, <2>2, <2>3, <3>1, <3>2, CompareSanity DEF v
    <2>4. QED
        BY <2>1, <2>2, <2>3, UnderwayTypes, QuietOperate
<1>7. QED
    BY <1>2, <1>3, <1>4, <1>5, <1>6

-----------------------------------------------------------------------------
(* The server replaces its collection, and closes it.                      *)

LEMMA Replacing ==
    ASSUME SyncInv, SerialInv, NEW m \in net, Serves(m), user' = ClosedUser, epoch' = epoch + 1,
           (clk' = clk + 1 /\ m.type \in {"finish", "download"}) \/ clk' = clk,
           resp' = resp \/ \E r : Answer(m, r) /\ r.type # "meta"
    PROVE  SerialInv' /\ Offered' = {}
<1>1. net' = net \ {m} /\ UNCHANGED <<cli, sess, edits, born, syncs>>
    BY DEF Serves
<1>2. Staged' /\ Acceptable' = {}
    BY ClosingEnds
<1>3. \A d \in Clients :
         resp'[d] = resp[d] \/ (resp'[d].type = "meta" => Told(srv', resp'[d], epoch'))
    BY ServedAnswer
<1>4. Current'
    BY <1>1, <1>3, ServedCurrent DEF SerialInv
<1>5. UploadsApart' /\ ClockBound'
    <2>1. net' \subseteq net /\ m \notin net'
        BY <1>1
    <2>2. UploadsApart'
        BY <2>1, ServedUploads DEF SerialInv
    <2>3. ClockBound'
        BY <1>1, <2>1, ServedBound DEF SerialInv
    <2>4. QED
        BY <2>2, <2>3
<1>6. Committable' /\ Offered' = {}
    BY <1>2 DEF Committable, Offered
<1>7. QED
    BY <1>2, <1>4, <1>5, <1>6 DEF SerialInv

LEMMA SameUploads ==
    ASSUME NEW m, net' = net \ {m}, m.type # "upload"
    PROVE  Uploaded' = Uploaded
<1>1. {x \in net' : x.type = "upload"} = {x \in net : x.type = "upload"}
    OBVIOUS
<1>2. QED
    BY <1>1 DEF Uploaded

(* An answer that brings a collection to the client, if it still waits.    *)
LEMMA AnswerBrings ==
    ASSUME SyncInv, NEW m \in net, NEW r, Answer(m, r), sess' = sess, NEW col,
           Waiting(m) => col = CASE r.type = "finish"   -> Finish(sess[m.from].work,
                                                                  sess[m.from].server_usn + 1, r.mod)
                                 [] r.type = "download" -> r.col
                                 [] OTHER               -> NoCol
    PROVE  /\ Answered' = IF Waiting(m) THEN [Answered EXCEPT ![m.from] = col] ELSE Answered
           /\ Waiting(m) => Answered[m.from] = NoCol
<1>1. \A d \in Clients : resp'[d] = IF sess[d].await = m THEN r ELSE resp[d]
    BY ServedAnswer
<1>2. m.from \in Clients /\ \A d \in Clients : sess[d].await = m => d = m.from /\ resp[d] = NoResp
    BY ServedWaits
<1>3. \A d \in Clients : sess[d].await = m <=> d = m.from /\ Waiting(m)
    BY <1>2 DEF Waiting
<1>4. Waiting(m) => resp[m.from].type \notin {"finish", "download"}
    BY <1>2 DEF Waiting, NoResp
<1> DEFINE Of(a, w) == CASE a.type = "finish"   -> Finish(w.work, w.server_usn + 1, a.mod)
                         [] a.type = "download" -> a.col
                         [] OTHER               -> NoCol
<1>5. /\ Answered = [d \in Clients |-> Of(resp[d], sess[d])]
      /\ Answered' = [d \in Clients |-> Of(resp'[d], sess'[d])]
    BY DEF Answered, FinishedWork
<1>6. Waiting(m) => col = Of(r, sess[m.from])
    OBVIOUS
<1> HIDE DEF Of
<1>7. CASE Waiting(m)
    <2>1. \A d \in Clients :
             Of(resp'[d], sess'[d]) = IF d = m.from THEN col ELSE Of(resp[d], sess[d])
        BY <1>1, <1>3, <1>6, <1>7
    <2>2. Answered' = [Answered EXCEPT ![m.from] = col]
        BY <1>5, <2>1
    <2>3. QED
        BY <1>2, <1>4, <1>7, <2>2, NothingToAdopt
<1>8. CASE ~Waiting(m)
    <2>1. \A d \in Clients : Of(resp'[d], sess'[d]) = Of(resp[d], sess[d])
        BY <1>1, <1>3, <1>8
    <2>2. QED
        BY <1>5, <1>8, <2>1
<1>9. QED
    BY <1>7, <1>8

(* What the server commits is what an atomic exchange makes of the two     *)
(* collections, and so is what the client adopts when it hears of it.      *)
LEMMA CommitMerges ==
    ASSUME SyncInv, SerialInv, NEW m \in net, m.type = "finish", InSession(m)
    PROVE  /\ m \in Acceptable /\ m.base \in Collection /\ srv \in Collection
           /\ user.col = AS!ServerMerged(m.base, srv) /\ user.col.usn = srv.usn
           /\ SanityCounts(AS!ClientMerged(m.base, srv))
                = SanityCounts(AS!ServerMerged(m.base, srv))
           /\ NormalSyncRequired(m.base, srv.mod, srv.scm)
           /\ Waiting(m) =>
                /\ cli[m.from] = m.base
                /\ sess[m.from].work = AS!ClientMerged(m.base, srv)
                /\ sess[m.from].server_usn = srv.usn
<1>1. m \in Acceptable
    BY DEF Acceptable
<1>2. m.base \in Collection /\ srv \in Collection
    BY DEF SyncInv, Data, Talk, RequestOK
<1>3. /\ user.col = AS!ServerMerged(m.base, srv)
      /\ SanityCounts(AS!ClientMerged(m.base, srv)) = SanityCounts(AS!ServerMerged(m.base, srv))
      /\ NormalSyncRequired(m.base, srv.mod, srv.scm)
    BY <1>1 DEF SerialInv, Committable
<1>4. user.col.usn = srv.usn
    BY <1>2, <1>3, ChunkTypes
<1>5. ASSUME Waiting(m)
      PROVE  /\ cli[m.from] = m.base /\ sess[m.from].work = AS!ClientMerged(m.base, srv)
             /\ sess[m.from].server_usn = srv.usn
    <2> DEFINE c == m.from
    <2>1. c \in Clients /\ sess[c].await = m
        BY <1>5, ServedWaits DEF Waiting
    <2>2. sess[c].skey = m.skey /\ m.type \in Underway
        BY <2>1, ServedWaits, UnderwayTypes
    <2>3. user.st.skey = m.skey /\ user.col \in Collection
        BY <2>2, InSessionIs
    <2> HIDE DEF c
    <2>4. Joined(c)
        BY <2>1, <2>2, <2>3, NoColApart DEF Joined
    <2>5. Stage(cli[c], srv, user, sess[c], resp[c], Asked(c))
        BY <2>1, <2>4 DEF SerialInv, Staged
    <2>6. Opened(cli[c], srv, user, sess[c]) /\ Finishing(cli[c], srv, sess[c])
        BY <2>1, <2>5 DEF Stage
    <2>7. QED
        BY <2>1, <2>6 DEF Opened, Agreed, Finishing, c
<1>6. QED
    BY <1>1, <1>2, <1>3, <1>4, <1>5

LEMMA FinishCommits ==
    ASSUME SyncInv, SerialInv, NEW m \in net, HandleFinish(m) \/ FinishAndStop(m)
    PROVE  SerialInv' /\ AbstractStep
<1> DEFINE x == [client |-> m.from, col |-> m.base]
<1>1. /\ m.type = "finish" /\ InSession(m) /\ user' = ClosedUser /\ epoch' = epoch + 1
      /\ clk' = clk + 1 /\ net' = net \ {m} /\ UNCHANGED <<cli, sess, edits, born, syncs>>
    BY DEF HandleFinish, FinishAndStop, Tick, Served, cliVars, Answer
<1>2. /\ m \in Acceptable /\ m.base \in Collection /\ srv \in Collection
      /\ user.col = AS!ServerMerged(m.base, srv) /\ user.col.usn = srv.usn
      /\ SanityCounts(AS!ClientMerged(m.base, srv)) = SanityCounts(AS!ServerMerged(m.base, srv))
      /\ NormalSyncRequired(m.base, srv.mod, srv.scm)
      /\ Waiting(m) =>
           /\ cli[m.from] = m.base
           /\ sess[m.from].work = AS!ClientMerged(m.base, srv)
           /\ sess[m.from].server_usn = srv.usn
    BY <1>1, CommitMerges
<1>3. SerialInv' /\ Offered' = {}
    <2>1. resp' = resp \/ \E r : Answer(m, r) /\ r.type # "meta"
        BY DEF HandleFinish, FinishAndStop
    <2>2. QED
        BY <1>1, <2>1, Replacing DEF Serves
<1>4. Offered = {x}
    BY <1>2, OneOffer
<1>5. Uploaded' = Uploaded
    BY <1>1, SameUploads
<1>6. clk < MaxClock + 3 * MaxSyncs
    <2>1. m \in Orders
        BY <1>1 DEF Orders
    <2>2. QED
        BY <2>1, MayMove DEF SerialInv
<1>7. x.client = m.from /\ x.col = m.base
    OBVIOUS
<1> HIDE DEF x
<1>8. /\ AS!NormalSyncRequired(x.col, srv.mod, srv.scm)
      /\ AS!SanityCounts(AS!ClientMerged(x.col, srv)) = AS!SanityCounts(AS!ServerMerged(x.col, srv))
    BY <1>2, <1>7, Linked
<1>9. AS!NoCol = NoCol
    BY DEF AS!NoCol, NoCol, AS!Absent, AS!NoGrave, Absent, NoGrave
<1>10. x \in Offered /\ Offered' = Offered \ {x}
    BY <1>3, <1>4
<1>11. CASE HandleFinish(m)
    <2> DEFINE r == [type |-> "finish", mod |-> clk + 1]
               col == AS!Finish(AS!ClientMerged(x.col, srv), srv.usn + 1, clk + 1)
    <2>1. /\ srv' = Finish(user.col, user.col.usn + 1, clk + 1) /\ torn' = FALSE
          /\ Answer(m, r)
        BY <1>11 DEF HandleFinish
    <2>2. srv' = AS!Finish(AS!ServerMerged(x.col, srv), srv.usn + 1, clk + 1)
        BY <1>2, <1>7, <2>1, Linked
    <2>3. r.type = "finish" /\ r.mod = clk + 1
        OBVIOUS
    <2>4. Waiting(m) => col = Finish(sess[m.from].work, sess[m.from].server_usn + 1, r.mod)
        BY <1>2, <1>7, <2>3, Linked
    <2> HIDE DEF r, col
    <2>5. /\ Answered' = IF Waiting(m) THEN [Answered EXCEPT ![m.from] = col] ELSE Answered
          /\ Waiting(m) => Answered[m.from] = NoCol
        BY <1>1, <2>1, <2>3, <2>4, AnswerBrings
    <2>6. /\ AS!CommitSession(x, TRUE, FALSE) \/ ~Waiting(m)
          /\ AS!CommitSession(x, FALSE, FALSE) \/ Waiting(m)
        <3>1. CASE Waiting(m)
            <4>1. Answered' = [Answered EXCEPT ![x.client] = col]
                BY <1>7, <2>5, <3>1
            <4>2. Answered[x.client] = AS!NoCol /\ cli[x.client] = x.col
                BY <1>2, <1>7, <1>9, <2>5, <3>1
            <4>3. AS!CommitSession(x, TRUE, FALSE)
                BY <1>1, <1>5, <1>6, <1>8, <1>10, <2>1, <2>2, <4>1, <4>2
                   DEF AS!CommitSession, AS!Idle, AS!Tick, col
            <4>4. QED
                BY <3>1, <4>3
        <3>2. CASE ~Waiting(m)
            <4>1. Answered' = Answered
                BY <2>5, <3>2
            <4>2. AS!CommitSession(x, FALSE, FALSE)
                BY <1>1, <1>5, <1>6, <1>8, <1>10, <2>1, <2>2, <4>1
                   DEF AS!CommitSession, AS!Tick
            <4>3. QED
                BY <3>2, <4>2
        <3>3. QED
            BY <3>1, <3>2
    <2>7. AS!Next
        BY <1>10, <2>6 DEF AS!Next
    <2>8. QED
        BY <1>3, <2>7 DEF AbstractStep
<1>12. CASE FinishAndStop(m)
    <2>1. /\ srv' = Finish(user.col, user.col.usn + 1, srv.mod) /\ torn' = TRUE /\ resp' = resp
        BY <1>12 DEF FinishAndStop
    <2>2. srv' = AS!Finish(AS!ServerMerged(x.col, srv), srv.usn + 1, srv.mod)
        BY <1>2, <1>7, <2>1, Linked
    <2>3. Answered' = Answered
        BY <1>1, <2>1 DEF Answered, FinishedWork
    <2>4. AS!CommitSession(x, FALSE, TRUE)
        BY <1>1, <1>5, <1>6, <1>8, <1>10, <2>1, <2>2, <2>3 DEF AS!CommitSession, AS!Tick
    <2>5. AS!Next
        BY <1>10, <2>4 DEF AS!Next
    <2>6. QED
        BY <1>3, <2>5 DEF AbstractStep
<1>13. QED
    BY <1>11, <1>12

LEMMA UploadStores ==
    ASSUME SyncInv, SerialInv, NEW m \in net, HandleUpload(m)
    PROVE  SerialInv' /\ AbstractStep
<1> DEFINE r == [type |-> "ok"]
<1>1. /\ m.type = "upload" /\ user' = ClosedUser /\ epoch' = epoch + 1 /\ srv' = m.col
      /\ torn' = FALSE /\ Answer(m, r) /\ clk' = clk
      /\ UNCHANGED <<cli, sess, edits, born, syncs>>
    BY DEF HandleUpload, Served, cliVars
<1>2. r.type = "ok"
    OBVIOUS
<1> HIDE DEF r
<1>3. net' = net \ {m} /\ Serves(m)
    BY <1>1 DEF Answer, Serves
<1>4. SerialInv' /\ Offered' = {}
    BY <1>1, <1>2, <1>3, Replacing
<1>5. Answered' = Answered
    BY <1>1, <1>2, AnswerBringsNone
<1>6. m.col \in Uploaded /\ Uploaded' = Uploaded \ {m.col}
    <2>1. \A n \in net : n.type = "upload" /\ n.col = m.col => n = m
        BY <1>1 DEF SerialInv, UploadsApart
    <2>2. \A col : col \in Uploaded <=> \E n \in net : n.type = "upload" /\ n.col = col
        BY DEF Uploaded
    <2>3. \A col : col \in Uploaded' <=> \E n \in net' : n.type = "upload" /\ n.col = col
        BY DEF Uploaded
    <2>4. \A col : col \in Uploaded' <=> col \in Uploaded /\ col # m.col
        BY <1>1, <1>3, <2>1, <2>2, <2>3
    <2>5. m.col \in Uploaded
        BY <1>1, <2>2
    <2>6. QED
        BY <2>4, <2>5
<1>7. AS!StoreUpload(m.col)
    BY <1>1, <1>4, <1>5, <1>6 DEF AS!StoreUpload
<1>8. AS!Next
    BY <1>6, <1>7 DEF AS!Next
<1>9. QED
    BY <1>4, <1>8 DEF AbstractStep

LEMMA DownloadSends ==
    ASSUME SyncInv, SerialInv, NEW m \in net, HandleDownload(m)
    PROVE  SerialInv' /\ AbstractStep
<1> DEFINE col == BeforeDownload(srv, clk + 1)
           r == [type |-> "download", col |-> col]
<1>1. /\ m.type = "download" /\ user' = ClosedUser /\ epoch' = epoch + 1 /\ srv' = col
      /\ torn' = FALSE /\ Answer(m, r) /\ clk' = clk + 1
      /\ UNCHANGED <<cli, sess, edits, born, syncs>>
    BY DEF HandleDownload, Tick, Served, cliVars
<1>2. r.type = "download" /\ r.col = col
    OBVIOUS
<1>3. col = AS!BeforeDownload(srv, clk + 1)
    BY DEF BeforeDownload, AS!BeforeDownload
<1> HIDE DEF r, col
<1>4. net' = net \ {m} /\ Serves(m)
    BY <1>1 DEF Answer, Serves
<1>5. SerialInv' /\ Offered' = {}
    BY <1>1, <1>2, <1>4, Replacing
<1>6. Uploaded' = Uploaded
    BY <1>1, <1>4, SameUploads
<1>7. clk < MaxClock + 3 * MaxSyncs
    <2>1. m \in Orders
        BY <1>1 DEF Orders
    <2>2. QED
        BY <2>1, MayMove DEF SerialInv
<1>8. /\ Answered' = IF Waiting(m) THEN [Answered EXCEPT ![m.from] = col] ELSE Answered
      /\ Waiting(m) => Answered[m.from] = NoCol
    BY <1>1, <1>2, AnswerBrings
<1>9. m.from \in Clients
    BY ServedWaits
<1>10. AS!NoCol = NoCol
    BY DEF AS!NoCol, NoCol, AS!Absent, AS!NoGrave, Absent, NoGrave
<1>11. CASE Waiting(m)
    <2>1. AS!Download(m.from, TRUE)
        BY <1>1, <1>3, <1>5, <1>6, <1>7, <1>8, <1>10, <1>11 DEF AS!Download, AS!Idle, AS!Tick
    <2>2. AS!Next
        BY <1>9, <2>1 DEF AS!Next
    <2>3. QED
        BY <1>5, <2>2 DEF AbstractStep
<1>12. CASE ~Waiting(m)
    <2>1. AS!Download(m.from, FALSE)
        BY <1>1, <1>3, <1>5, <1>6, <1>7, <1>8, <1>12 DEF AS!Download, AS!Tick
    <2>2. AS!Next
        BY <1>9, <2>1 DEF AS!Next
    <2>3. QED
        BY <1>5, <2>2 DEF AbstractStep
<1>13. QED
    BY <1>11, <1>12

-----------------------------------------------------------------------------
LEMMA SerialStep ==
    ASSUME SyncInv, SerialInv, [SerialNext]_vars, Reimportable = {}
    PROVE  SerialInv' /\ [AS!Next]_(AS!vars)
<1>1. CASE SerialNext
    <2>1. Next /\ \A m \in net \ net' : ~Stale(m)
        BY <1>1 DEF SerialNext
    <2>2. ASSUME NEW c \in Clients,
                 \/ LocalChange(c) \/ Sync(c) \/ Proceed(c)
                 \/ Timeout(c) \/ UserAbort(c) \/ ClientRestart(c)
          PROVE  SerialInv' /\ AbstractStep
        BY <2>2, ClientMoves
    <2>3. ASSUME NEW m \in net, Handle(m) \/ FailOperation(m) \/ FinishAndStop(m)
          PROVE  SerialInv' /\ AbstractStep
        <3>1. CASE HandleStart(m)
            <4>1. m \notin net'
                BY <3>1 DEF HandleStart, Answer
            <4>2. QED
                BY <2>1, <3>1, <4>1, StartOpens
        <3>2. CASE \/ HandleMeta(m) \/ FailOperation(m) \/ HandleAbort(m) \/ RejectConflict(m)
            BY <3>2, QuietClosing, QuietReject
        <3>3. CASE \/ HandleApplyGraves(m) \/ HandleApplyChanges(m) \/ HandleChunk(m)
                   \/ HandleApplyChunk(m) \/ HandleSanity(m)
            BY <3>3, QuietHandlers
        <3>4. CASE \/ HandleFinish(m) \/ FinishAndStop(m) \/ HandleUpload(m) \/ HandleDownload(m)
            BY <3>4, FinishCommits, UploadStores, DownloadSends
        <3>5. QED
            BY <2>3, <3>1, <3>2, <3>3, <3>4 DEF Handle
    <2>4. ASSUME ServerRestart
          PROVE  SerialInv' /\ AbstractStep
        BY <2>4, QuietRestart
    <2>5. SerialInv' /\ AbstractStep
        BY <2>1, <2>2, <2>3, <2>4 DEF Next
    <2>6. QED
        BY <2>5 DEF AbstractStep, AS!vars
<1>2. CASE UNCHANGED vars
    <2>1. /\ UNCHANGED <<srv, torn, user, epoch, cli, sess, net, resp, clk>>
          /\ UNCHANGED <<edits, born, syncs, faults>>
        BY <1>2 DEF vars, srvVars, cliVars, counts
    <2>2. Acceptable' = Acceptable
        BY <2>1 DEF Acceptable, InSession
    <2>3. Staged' /\ Current'
        BY <2>1 DEF SerialInv, Staged, Joined, Current, Asked
    <2>4. Committable' /\ UploadsApart'
        BY <2>1, <2>2 DEF SerialInv, Committable, UploadsApart
    <2>5. ClockBound'
        <3>1. Tickers' = Tickers /\ Orders' = Orders
            BY <2>1 DEF Tickers, Orders, MayTick
        <3>2. QED
            BY <2>1, <3>1 DEF SerialInv, ClockBound
    <2>6. Answered' = Answered /\ Offered' = Offered /\ Uploaded' = Uploaded
        BY <2>1, <2>2 DEF Answered, FinishedWork, Offered, Uploaded
    <2>7. QED
        BY <2>1, <2>3, <2>4, <2>5, <2>6 DEF SerialInv, AS!vars
<1>3. QED
    BY <1>1, <1>2

LEMMA SerialBegins ==
    ASSUME Init
    PROVE  SerialInv /\ AS!Init
<1>1. /\ srv = Initial /\ torn = FALSE /\ user = ClosedUser /\ epoch = 0
      /\ cli = [c \in Clients |-> Initial] /\ sess = [c \in Clients |-> NoSession] /\ net = {}
      /\ resp = [c \in Clients |-> NoResp] /\ clk = 0
      /\ edits = 1 /\ born = KnownFrom /\ syncs = 0 /\ faults = 0
    BY DEF Init, Begin
<1>2. /\ \A c \in Clients : /\ sess[c].await.type = "none" /\ ~MayTick(sess[c])
                            /\ resp[c].type = "none"
      /\ "none" \notin Underway
    BY <1>1, NoSessionWaits DEF NoResp
<1>3. Acceptable = {} /\ Tickers = {} /\ Orders = {}
    BY <1>1, <1>2 DEF Acceptable, Tickers, Orders
<1>4. Staged /\ Current /\ Committable /\ UploadsApart
    BY <1>1, <1>2, <1>3 DEF Staged, Joined, Current, Committable, UploadsApart
<1>5. ClockBound
    <2>1. IsFiniteSet(Tickers) /\ IsFiniteSet(Orders)
          /\ Cardinality(Tickers) = 0 /\ Cardinality(Orders) = 0
        BY <1>3, FS_EmptySet
    <2>2. QED
        BY <1>1, <2>1, SyncBounds DEF ClockBound
<1>6. Offered = {} /\ Uploaded = {}
    BY <1>1, <1>3 DEF Offered, Uploaded
<1>7. Answered = [c \in Clients |-> AS!NoCol]
    <2>1. AS!NoCol = NoCol
        BY DEF AS!NoCol, NoCol, AS!Absent, AS!NoGrave, Absent, NoGrave
    <2>2. QED
        BY <1>2, <2>1 DEF Answered
<1>8. AS!Initial = Initial /\ AS!KnownFrom = KnownFrom
    BY Linked DEF AS!Initial, Initial, AS!KnownFrom, KnownFrom, AS!Absent, Absent,
                  AS!NoGrave, NoGrave
<1>9. AS!Init
    BY <1>1, <1>6, <1>7, <1>8 DEF AS!Init
<1>10. QED
    BY <1>4, <1>5, <1>9 DEF SerialInv

(* A session of many requests changes the collections of the client and    *)
(* the server as one exchange does, or not at all: whatever devices, rows, *)
(* bounds and clocks there are, and whatever request or answer is lost, if *)
(* a session starts from what the server said of itself (SerialSpec) and   *)
(* an id is used for one object only (NormalSyncer::sync, User, handlers). *)
THEOREM SyncImplementsAtomic ==
    ASSUME Reimportable = {}
    PROVE  SerialSpec => AtomicSpec
<1>1. [SerialNext]_vars => [Next]_vars
    BY DEF SerialNext
<1>2. Init => SyncInv /\ SerialInv /\ AS!Init
    BY InitRight, SerialBegins
<1>3. SyncInv /\ SerialInv /\ [SerialNext]_vars =>
         SyncInv' /\ SerialInv' /\ [AS!Next]_(AS!vars)
    BY <1>1, NextKeeps, SerialStep
<1>4. QED
    BY <1>2, <1>3, PTL DEF SerialSpec, AtomicSpec, AS!Spec

-----------------------------------------------------------------------------
(* The theorems about AtomicSync, at the collections of this module.       *)
AP == INSTANCE AtomicSyncProofs WITH
          MaxClock <- MaxClock + 3 * MaxSyncs,
          ack <- Answered, offers <- Offered, uploads <- Uploaded

(* AP repeats the definitions of AS.                                       *)
LEMMA SameDefinitions ==
    /\ AP!Objs = AS!Objs /\ AP!Chunked = AS!Chunked /\ AP!NoCol = AS!NoCol
    /\ AP!Initial = AS!Initial /\ AP!KnownFrom = AS!KnownFrom
    /\ AP!NoGrave = AS!NoGrave /\ AP!PendingUsn = AS!PendingUsn /\ AP!Graved = AS!Graved
    /\ \A row : AP!Present(row) = AS!Present(row)
    /\ \A col, o, ed, now : AP!WriteRow(col, o, ed, now) = AS!WriteRow(col, o, ed, now)
    /\ \A col, o, now : AP!RemoveRow(col, o, now) = AS!RemoveRow(col, o, now)
    /\ \A col, ed, now : AP!WriteConfig(col, ed, now) = AS!WriteConfig(col, ed, now)
    /\ \A col, now : AP!SetSchemaModified(col, now) = AS!SetSchemaModified(col, now)
    /\ \A col, usn, now : AP!Finish(col, usn, now) = AS!Finish(col, usn, now)
    /\ \A col, now : AP!BeforeUpload(col, now) = AS!BeforeUpload(col, now)
    /\ \A col, now : AP!BeforeDownload(col, now) = AS!BeforeDownload(col, now)
    /\ \A col : AP!SanityCounts(col) = AS!SanityCounts(col)
    /\ \A col : AP!HasPending(col) = AS!HasPending(col)
    /\ \A cl, mod, scm : AP!NormalSyncRequired(cl, mod, scm) = AS!NormalSyncRequired(cl, mod, scm)
    /\ \A cl, sv : AP!ClientMerged(cl, sv) = AS!ClientMerged(cl, sv)
    /\ \A cl, sv : AP!ServerMerged(cl, sv) = AS!ServerMerged(cl, sv)
    /\ \A col, usn : AP!PendingGraves(col, usn) = AS!PendingGraves(col, usn)
<1>1. /\ AP!Chunked = AS!Chunked /\ AP!Objs = AS!Objs /\ AP!PendingUsn = AS!PendingUsn
      /\ AP!NoGrave = AS!NoGrave /\ AP!Absent = AS!Absent /\ AP!Graved = AS!Graved
    BY DEF AP!Chunked, AS!Chunked, AP!Objs, AS!Objs, AP!PendingUsn, AS!PendingUsn,
           AP!NoGrave, AS!NoGrave, AP!Absent, AS!Absent, AP!Graved, AS!Graved
<1>2. /\ AP!NoCol = AS!NoCol /\ AP!Initial = AS!Initial /\ AP!KnownFrom = AS!KnownFrom
    BY <1>1 DEF AP!NoCol, AS!NoCol, AP!Initial, AS!Initial, AP!KnownFrom, AS!KnownFrom
<1>3. /\ \A row : AP!Present(row) = AS!Present(row)
      /\ \A row : AP!Mtime(row) = AS!Mtime(row)
      /\ \A usn, p : AP!IsPendingSync(usn, p) = AS!IsPendingSync(usn, p)
      /\ \A row, usn : AP!StampRow(row, usn) = AS!StampRow(row, usn)
      /\ \A g, usn : AP!AddGrave(g, usn) = AS!AddGrave(g, usn)
    BY <1>1 DEF AP!Present, AS!Present, AP!Mtime, AS!Mtime, AP!IsPendingSync, AS!IsPendingSync,
                AP!StampRow, AS!StampRow, AP!AddGrave, AS!AddGrave
<1>4. /\ \A mine, theirs : AP!TakesUnchunked(mine, theirs) = AS!TakesUnchunked(mine, theirs)
      /\ \A o, mine, theirs, p :
            AP!TakesChunked(o, mine, theirs, p) = AS!TakesChunked(o, mine, theirs, p)
    BY <1>3 DEF AP!TakesUnchunked, AS!TakesUnchunked, AP!TakesChunked, AS!TakesChunked
<1>5. /\ \A col, usn : AP!PendingGraves(col, usn) = AS!PendingGraves(col, usn)
      /\ \A col, usn, ids : AP!PendingRows(col, usn, ids) = AS!PendingRows(col, usn, ids)
    BY <1>1, <1>3 DEF AP!PendingGraves, AS!PendingGraves, AP!PendingRows, AS!PendingRows
<1>6. /\ \A col, ids, usn : AP!ApplyGraves(col, ids, usn) = AS!ApplyGraves(col, ids, usn)
      /\ \A col, usn : AP!StampGraves(col, usn) = AS!StampGraves(col, usn)
      /\ \A col, ids, usn : AP!StampRows(col, ids, usn) = AS!StampRows(col, ids, usn)
      /\ \A col, ids : AP!SentRows(col, ids) = AS!SentRows(col, ids)
    BY <1>1, <1>3 DEF AP!ApplyGraves, AS!ApplyGraves, AP!StampGraves, AS!StampGraves,
                      AP!StampRows, AS!StampRows, AP!SentRows, AS!SentRows
<1>7. /\ \A col, rows : AP!MergeUnchunked(col, rows) = AS!MergeUnchunked(col, rows)
      /\ \A col, rows, usn : AP!MergeChunk(col, rows, usn) = AS!MergeChunk(col, rows, usn)
    BY <1>1, <1>4 DEF AP!MergeUnchunked, AS!MergeUnchunked, AP!MergeChunk, AS!MergeChunk
<1>8. /\ \A col, usn, now : AP!Finish(col, usn, now) = AS!Finish(col, usn, now)
      /\ \A cl, mod : AP!LocalIsNewer(cl, mod) = AS!LocalIsNewer(cl, mod)
      /\ \A cl, mod, scm : AP!NormalSyncRequired(cl, mod, scm) = AS!NormalSyncRequired(cl, mod, scm)
    BY DEF AP!Finish, AS!Finish, AP!LocalIsNewer, AS!LocalIsNewer, AP!NormalSyncRequired,
           AS!NormalSyncRequired, AP!NoChanges, AS!NoChanges
<1>9. \A col : AP!SanityCounts(col) = AS!SanityCounts(col)
    <2>1. \A S : AP!Cardinality(S) = AS!Cardinality(S)
        BY DEF AP!Cardinality, AS!Cardinality
    <2>2. \A col, ids : AP!CountOf(col, ids) = AS!CountOf(col, ids)
        BY <1>3, <2>1 DEF AP!CountOf, AS!CountOf
    <2>3. QED
        BY <2>2 DEF AP!SanityCounts, AS!SanityCounts
<1>10. \A col : AP!HasPending(col) = AS!HasPending(col)
    BY <1>1, <1>5 DEF AP!HasPending, AS!HasPending
<1>11. /\ \A col, o, ed, now : AP!WriteRow(col, o, ed, now) = AS!WriteRow(col, o, ed, now)
       /\ \A col, o, now : AP!RemoveRow(col, o, now) = AS!RemoveRow(col, o, now)
       /\ \A col, ed, now : AP!WriteConfig(col, ed, now) = AS!WriteConfig(col, ed, now)
       /\ \A col, now : AP!SetSchemaModified(col, now) = AS!SetSchemaModified(col, now)
    BY <1>1, <1>3 DEF AP!WriteRow, AS!WriteRow, AP!RemoveRow, AS!RemoveRow, AP!WriteConfig,
                      AS!WriteConfig, AP!SetSchemaModified, AS!SetSchemaModified
<1>12. /\ \A col, now : AP!BeforeUpload(col, now) = AS!BeforeUpload(col, now)
       /\ \A col, now : AP!BeforeDownload(col, now) = AS!BeforeDownload(col, now)
    BY <1>1, <1>3 DEF AP!BeforeUpload, AS!BeforeUpload, AP!BeforeDownload, AS!BeforeDownload
<1>13. /\ \A cl, sv : AP!ServerDeleted(cl, sv) = AS!ServerDeleted(cl, sv)
       /\ \A cl, sv : AP!ClientDeleted(cl, sv) = AS!ClientDeleted(cl, sv)
       /\ \A cl, sv : AP!NewerConf(cl, sv) = AS!NewerConf(cl, sv)
    BY <1>1, <1>5, <1>6, <1>8 DEF AP!ServerDeleted, AS!ServerDeleted, AP!ClientDeleted,
       AS!ClientDeleted, AP!NewerConf, AS!NewerConf
<1>14. /\ \A cl, sv : AP!ServerUnchunked(cl, sv) = AS!ServerUnchunked(cl, sv)
       /\ \A cl, sv : AP!ClientUnchunked(cl, sv) = AS!ClientUnchunked(cl, sv)
    BY <1>1, <1>5, <1>6, <1>7, <1>13 DEF AP!ServerUnchunked, AS!ServerUnchunked,
       AP!ClientUnchunked, AS!ClientUnchunked
<1>15. \A cl, sv : AP!ClientReceived(cl, sv) = AS!ClientReceived(cl, sv)
    BY <1>1, <1>5, <1>6, <1>7, <1>14 DEF AP!ClientReceived, AS!ClientReceived
<1>16. \A cl, sv : AP!ClientMerged(cl, sv) = AS!ClientMerged(cl, sv)
    BY <1>1, <1>5, <1>6, <1>15 DEF AP!ClientMerged, AS!ClientMerged
<1>17. \A cl, sv : AP!ServerMerged(cl, sv) = AS!ServerMerged(cl, sv)
    BY <1>1, <1>5, <1>6, <1>7, <1>14, <1>15, <1>16 DEF AP!ServerMerged, AS!ServerMerged
<1>18. QED
    BY <1>1, <1>2, <1>3, <1>5, <1>8, <1>9, <1>10, <1>11, <1>12, <1>16, <1>17


LEMMA SameStep == [AS!Next]_(AS!vars) => [AP!Next]_(AP!vars)
<1>1. UNCHANGED AS!vars => UNCHANGED AP!vars
    BY DEF AP!vars, AS!vars
<1>2. /\ AP!Tick <=> AS!Tick
      /\ AP!NewEdit <=> AS!NewEdit
      /\ \A c : AP!Idle(c) <=> AS!Idle(c)
    BY SameDefinitions DEF AP!Tick, AS!Tick, AP!NewEdit, AS!NewEdit, AP!Idle, AS!Idle
<1>3. \A c, col : AS!Change(c, col) => AP!Change(c, col)
    BY <1>2 DEF AP!Change, AS!Change
<1>4. \A c, o : AS!Add(c, o) => AP!Add(c, o)
    BY <1>2, <1>3, SameDefinitions DEF AP!Add, AS!Add
<1>5. \A c, o : AS!Edit(c, o) => AP!Edit(c, o)
    BY <1>2, <1>3, SameDefinitions DEF AP!Edit, AS!Edit
<1>6. \A c, o : AS!Remove(c, o) => AP!Remove(c, o)
    BY <1>2, <1>3, SameDefinitions DEF AP!Remove, AS!Remove
<1>7. \A c : (AS!SetConfig(c) => AP!SetConfig(c)) /\ (AS!ModifySchema(c) => AP!ModifySchema(c))
    BY <1>2, <1>3, SameDefinitions
       DEF AP!SetConfig, AS!SetConfig, AP!ModifySchema, AS!ModifySchema
<1>8. \A c : AS!LocalChange(c) => AP!LocalChange(c)
    BY <1>4, <1>5, <1>6, <1>7, SameDefinitions DEF AP!LocalChange, AS!LocalChange
<1>9. /\ \A c : AS!BeginSession(c) => AP!BeginSession(c)
      /\ \A x : AS!Withdraw(x) => AP!Withdraw(x)
      /\ \A c : AS!Adopt(c) => AP!Adopt(c)
      /\ \A c : AS!Lose(c) => AP!Lose(c)
    BY <1>2, SameDefinitions DEF AP!BeginSession, AS!BeginSession, AP!Withdraw, AS!Withdraw,
       AP!Adopt, AS!Adopt, AP!Lose, AS!Lose
<1>10. \A x, answered, crash : AS!CommitSession(x, answered, crash)
                                  => AP!CommitSession(x, answered, crash)
    BY <1>2, SameDefinitions DEF AP!CommitSession, AS!CommitSession
<1>11. /\ \A c : AS!PrepareUpload(c) => AP!PrepareUpload(c)
       /\ \A col : AS!StoreUpload(col) => AP!StoreUpload(col)
       /\ \A col : AS!DropUpload(col) => AP!DropUpload(col)
    BY <1>2, SameDefinitions DEF AP!PrepareUpload, AS!PrepareUpload, AP!StoreUpload,
       AS!StoreUpload, AP!DropUpload, AS!DropUpload
<1>12. \A c, answered : AS!Download(c, answered) => AP!Download(c, answered)
    BY <1>2, SameDefinitions DEF AP!Download, AS!Download
<1>13. AS!Next => AP!Next
    BY <1>8, <1>9, <1>10, <1>11, <1>12 DEF AP!Next, AS!Next
<1>14. QED
    BY <1>1, <1>13

(* AtomicSync's invariant, of the collections that sessions have.          *)
LEMMA AtomicInvariant ==
    /\ AS!Init => AP!IInv
    /\ AP!IInv /\ [AS!Next]_(AS!vars) => AP!IInv'
<1>1. AP!Bounds
    BY SyncBounds DEF AP!Bounds
<1>2. AP!IdsApart
    BY IdsApart DEF AP!IdsApart, Objs, Chunked, Graved, AP!Objs, AP!Chunked, AP!Graved
<1>3. AS!Init => AP!Init
    BY SameDefinitions DEF AS!Init, AP!Init
<1>4. AP!Init => AP!IInv
    BY <1>1, <1>2, AP!InitInvariant
<1>5. AP!IInv /\ [AP!Next]_(AP!vars) => AP!IInv'
    BY <1>1, <1>2, AP!NextInvariant
<1>6. QED
    BY <1>3, <1>4, <1>5, SameStep

-----------------------------------------------------------------------------
(* What that says of sessions.                                             *)

(* The result of one exchange leaves nothing pending on the server and     *)
(* passes the sanity check; both sides have the same rows where mtimes     *)
(* tell edits apart.                                                       *)
LEMMA ExchangeAgrees ==
    ASSUME AP!IInv, NEW c \in Clients, cli[c].scm = srv.scm
    PROVE  LET cm == AS!ClientMerged(cli[c], srv)
               sm == AS!ServerMerged(cli[c], srv)
           IN  /\ ~HasPending(sm) /\ SanityCounts(cm) = SanityCounts(sm)
               /\ cm.conf = sm.conf
               /\ AS!StampsDiffer => \A o \in Chunked : SameRow(cm, sm, o)
<1>1. AP!Bounds
    BY SyncBounds DEF AP!Bounds
<1>2. AP!IdsApart
    BY IdsApart DEF AP!IdsApart, Objs, Chunked, Graved, AP!Objs, AP!Chunked, AP!Graved
<1>3. cli[c] \in AP!Replicas
    BY DEF AP!Replicas
<1>4. LET cm == AP!ClientMerged(cli[c], srv)
          sm == AP!ServerMerged(cli[c], srv)
      IN  /\ ~AP!HasPending(cm) /\ ~AP!HasPending(sm)
          /\ AP!SanityCounts(cm) = AP!SanityCounts(sm)
          /\ cm.conf = sm.conf
          /\ \A o \in AP!Objs : AP!Exact(o) => AP!SameRow(cm, sm, o)
    BY <1>1, <1>2, <1>3, AP!SessionAgrees
<1>5. \A col : AP!HasPending(col) = HasPending(col)
    BY Linked, SameDefinitions DEF AS!HasPending, HasPending
<1>6. \A col : AP!SanityCounts(col) = SanityCounts(col)
    BY Linked, SameDefinitions
<1>7. ASSUME AS!StampsDiffer, NEW o \in Chunked
      PROVE  o \in AP!Objs /\ AP!Exact(o)
    BY <1>7, Linked, SameDefinitions DEF AP!Exact, AP!StampsDiffer, AS!StampsDiffer, Objs
<1>8. \A a, b, o : AP!SameRow(a, b, o) <=> SameRow(a, b, o)
    BY DEF AP!SameRow, SameRow
<1>9. /\ AP!ClientMerged(cli[c], srv) = AS!ClientMerged(cli[c], srv)
      /\ AP!ServerMerged(cli[c], srv) = AS!ServerMerged(cli[c], srv)
    BY SameDefinitions
<1>10. QED
    BY <1>4, <1>5, <1>6, <1>7, <1>8, <1>9

(* The server never refuses the counts of a client that it hears.          *)
LEMMA SanityHolds ==
    ASSUME SyncInv, SerialInv, AP!IInv, NEW m \in net, HandleSanity(m), Waiting(m)
    PROVE  ~HasPending(user.col) /\ m.counts = SanityCounts(user.col)
<1> DEFINE c == m.from
<1>1. m.type = "sanity" /\ InSession(m)
    BY DEF HandleSanity, Operate
<1>2. c \in Clients /\ sess[c].await = m /\ m.type \in Underway
    BY <1>1, ServedWaits DEF Waiting, Underway, Stateful
<1>3. sess[c].skey = m.skey /\ user.st.skey = m.skey /\ user.col \in Collection
    BY <1>1, <1>2, ServedWaits, InSessionIs, UnderwayTypes
<1> HIDE DEF c
<1>4. Joined(c) /\ Asked(c)
    BY <1>2, <1>3, NoColApart DEF Joined, Asked
<1>5. Stage(cli[c], srv, user, sess[c], resp[c], Asked(c))
    BY <1>2, <1>4 DEF SerialInv, Staged
<1>6. Opened(cli[c], srv, user, sess[c]) /\ Checking(cli[c], srv, user, sess[c], resp[c], Asked(c))
    BY <1>1, <1>2, <1>5 DEF Stage
<1>7. cli[c].scm = srv.scm
    BY <1>6 DEF Opened, Agreed, NormalSyncRequired
<1>8. m.counts = SanityCounts(AS!ClientMerged(cli[c], srv))
      /\ user.col = AS!ServerMerged(cli[c], srv)
    BY <1>2, <1>4, <1>6 DEF Checking
<1>9. QED
    BY <1>2, <1>7, <1>8, ExchangeAgrees

(* An answer to a sanity check comes from one handler only.                *)
LEMMA SanityAnswered ==
    ASSUME SyncInv, [Next]_vars, NEW c \in Clients, resp'[c].type = "sanity"
    PROVE  \/ resp'[c] = resp[c]
           \/ \E m \in net :
                 /\ HandleSanity(m) /\ Waiting(m)
                 /\ resp'[c] = [type |-> "sanity", good |->
                        ~HasPending(user.col) /\ m.counts = SanityCounts(user.col)]
<1>1. ASSUME NEW d \in Clients, NEW r, resp' = [resp EXCEPT ![d] = r], r.type # "sanity"
      PROVE  resp'[c] = resp[c]
    BY <1>1, OneAnswer DEF SyncInv, Talk
<1>2. NoResp.type # "sanity"
    BY DEF NoResp
<1>3. ASSUME NEW m \in net, NEW r, Answer(m, r)
      PROVE  resp'[c] = resp[c] \/ (Waiting(m) /\ resp'[c] = r)
    BY <1>3, ServedAnswer, ServedWaits DEF Waiting
<1>4. ASSUME NEW d \in Clients, LocalChange(d) \/ Sync(d)
      PROVE  resp' = resp
    BY <1>4 DEF LocalChange, Add, Edit, Remove, SetConfig, ModifySchema, Change, Sync
<1>5. ASSUME NEW d \in Clients, Proceed(d)
      PROVE  resp' = [resp EXCEPT ![d] = NoResp]
    <2>1. Heard(d) => resp' = [resp EXCEPT ![d] = NoResp]
        BY DEF Heard
    <2>2. /\ \A s, n : Continue(d, s, n) => Heard(d)
          /\ \A s : SendDeletions(d, s) => Heard(d)
          /\ \A s : SendChunk(d, s) => Heard(d)
          /\ \A s : CheckSanity(d, s) => Heard(d)
        BY DEF Continue, SendDeletions, SendGraves, SendChanges, SendChunk, CheckSanity
    <2>3. Heard(d)
        BY <1>5, <2>2 DEF Proceed, NothingToSync, PostponeFullSync, UploadCollection,
           DownloadCollection, UploadDone, DownloadDone, StartSession, SessionStarted,
           GravesApplied, ReceiveChanges, ReceiveChunk, ChunkApplied, SanityPassed,
           SessionFinished, SanityFailed, SessionError, Aborted
    <2>4. QED
        BY <2>1, <2>3
<1>6. ASSUME NEW d \in Clients, Timeout(d) \/ UserAbort(d) \/ ClientRestart(d)
      PROVE  resp' = [resp EXCEPT ![d] = NoResp]
    BY <1>6 DEF Timeout, UserAbort, ClientRestart
<1>7. ASSUME NEW m \in net, Handle(m) \/ FailOperation(m), ~HandleSanity(m)
      PROVE  \E r : r.type # "sanity" /\ Answer(m, r)
    <2>1. \A type, col, st, r : Operate(m, type, col, st, r) => Answer(m, r)
        BY DEF Operate
    <2>2. QED
        BY <1>7, <2>1 DEF Handle, HandleMeta, HandleStart, HandleApplyGraves,
           HandleApplyChanges, HandleChunk, HandleApplyChunk, HandleFinish, HandleAbort,
           HandleUpload, HandleDownload, RejectConflict, FailOperation
<1>8. ASSUME NEW m \in net, HandleSanity(m)
      PROVE  Answer(m, [type |-> "sanity", good |->
                    ~HasPending(user.col) /\ m.counts = SanityCounts(user.col)])
    BY <1>8 DEF HandleSanity, Operate
<1>9. ASSUME UNCHANGED vars \/ ServerRestart \/ (\E m \in net : FinishAndStop(m))
      PROVE  resp' = resp
    BY <1>9 DEF vars, srvVars, cliVars, ServerRestart, FinishAndStop
<1>10. ASSUME NEW m \in net, Handle(m) \/ FailOperation(m)
       PROVE  \/ resp'[c] = resp[c]
              \/ /\ HandleSanity(m) /\ Waiting(m)
                 /\ resp'[c] = [type |-> "sanity", good |->
                        ~HasPending(user.col) /\ m.counts = SanityCounts(user.col)]
    <2>1. CASE HandleSanity(m)
        BY <1>3, <1>8, <2>1
    <2>2. CASE ~HandleSanity(m)
        BY <1>3, <1>7, <1>10, <2>2
    <2>3. QED
        BY <2>1, <2>2
<1>11. QED
    BY <1>1, <1>2, <1>4, <1>5, <1>6, <1>9, <1>10 DEF Next

LEMMA SanityStep ==
    ASSUME SyncInv, SerialInv, AP!IInv, SanityAgrees, [Next]_vars
    PROVE  SanityAgrees'
<1> SUFFICES ASSUME NEW c \in Clients, resp'[c].type = "sanity"
             PROVE  resp'[c].good
    BY DEF SanityAgrees
<1>1. CASE resp'[c] = resp[c]
    BY <1>1 DEF SanityAgrees
<1>2. CASE resp'[c] # resp[c]
    <2>1. PICK m \in net :
             /\ HandleSanity(m) /\ Waiting(m)
             /\ resp'[c] = [type |-> "sanity", good |->
                    ~HasPending(user.col) /\ m.counts = SanityCounts(user.col)]
        BY <1>2, SanityAnswered
    <2>2. ~HasPending(user.col) /\ m.counts = SanityCounts(user.col)
        BY <2>1, SanityHolds
    <2>3. ASSUME NEW good, good, NEW a, a = [type |-> "sanity", good |-> good]
          PROVE  a.good
        BY <2>3
    <2>4. QED
        BY <2>1, <2>2, <2>3
<1>3. QED
    BY <1>1, <1>2

LEMMA CommitAgrees ==
    ASSUME SyncInv, SerialInv, AP!IInv, AS!StampsDiffer, [Next]_vars,
           NEW m \in net, Commits(m), Waiting(m)
    PROVE  /\ \A o \in Chunked : SameRow(sess[m.from].work, srv', o)
           /\ sess[m.from].work.conf = srv'.conf
<1>1. HandleFinish(m) \/ FinishAndStop(m)
    <2>1. m \notin net' /\ m.type = "finish" /\ epoch' # epoch
        BY DEF Commits
    <2>2. ASSUME NEW c \in Clients,
                 \/ LocalChange(c) \/ Sync(c) \/ Proceed(c)
                 \/ Timeout(c) \/ UserAbort(c) \/ ClientRestart(c)
          PROVE  epoch' = epoch
        <3>1. Heard(c) => epoch' = epoch
            BY DEF Heard, srvVars
        <3>2. /\ \A s, n : Continue(c, s, n) => Heard(c)
              /\ \A s : SendDeletions(c, s) => Heard(c)
              /\ \A s : SendChunk(c, s) => Heard(c)
              /\ \A s : CheckSanity(c, s) => Heard(c)
            BY DEF Continue, SendDeletions, SendGraves, SendChanges, SendChunk, CheckSanity
        <3>3. Proceed(c) => Heard(c)
            BY <3>2 DEF Proceed, NothingToSync, PostponeFullSync, UploadCollection,
               DownloadCollection, UploadDone, DownloadDone, StartSession, SessionStarted,
               GravesApplied, ReceiveChanges, ReceiveChunk, ChunkApplied, SanityPassed,
               SessionFinished, SanityFailed, SessionError, Aborted
        <3>4. LocalChange(c) \/ Sync(c) => epoch' = epoch
            BY DEF LocalChange, Add, Edit, Remove, SetConfig, ModifySchema, Change, Sync, srvVars
        <3>5. Timeout(c) \/ UserAbort(c) \/ ClientRestart(c) => epoch' = epoch
            BY DEF Timeout, UserAbort, ClientRestart, srvVars
        <3>6. QED
            BY <2>2, <3>1, <3>3, <3>4, <3>5
    <2>3. ASSUME NEW n \in net, Handle(n) \/ FailOperation(n) \/ FinishAndStop(n)
          PROVE  net' = net \ {n}
        BY <2>3 DEF Handle, HandleMeta, HandleStart, HandleApplyGraves,
           HandleApplyChanges, HandleChunk, HandleApplyChunk, HandleSanity, HandleFinish,
           HandleAbort, HandleUpload, HandleDownload, RejectConflict, FailOperation,
           FinishAndStop, Operate, Answer
    <2>4. UNCHANGED vars \/ ServerRestart => epoch' = epoch
        BY DEF vars, srvVars, cliVars, ServerRestart
    <2>5. Handle(m) \/ FailOperation(m) \/ FinishAndStop(m)
        BY <2>1, <2>2, <2>3, <2>4 DEF Next
    <2>6. QED
        BY <2>1, <2>5 DEF Handle, HandleMeta, HandleStart, HandleApplyGraves,
           HandleApplyChanges, HandleChunk, HandleApplyChunk, HandleSanity,
           HandleAbort, HandleUpload, HandleDownload, RejectConflict, FailOperation, Operate,
           srvVars
<1>2. m.type = "finish" /\ InSession(m) /\ m.from \in Clients
    BY <1>1, ServedWaits DEF HandleFinish, FinishAndStop
<1>3. /\ user.col = AS!ServerMerged(cli[m.from], srv)
      /\ sess[m.from].work = AS!ClientMerged(cli[m.from], srv)
      /\ NormalSyncRequired(cli[m.from], srv.mod, srv.scm)
      /\ srv \in Collection /\ cli[m.from] \in Collection
    BY <1>2, CommitMerges
<1>4. PICK usn, now : srv' = Finish(user.col, usn, now)
    BY <1>1 DEF HandleFinish, FinishAndStop
<1>5. user.col \in Collection
    BY <1>2, InSessionIs, UnderwayTypes
<1>6. srv'.row = user.col.row /\ srv'.conf = user.col.conf
    BY <1>4, <1>5 DEF Finish, Collection
<1>7. cli[m.from].scm = srv.scm
    BY <1>3 DEF NormalSyncRequired
<1>8. QED
    BY <1>2, <1>3, <1>6, <1>7, ExchangeAgrees DEF SameRow

LEMMA SerialAtomic ==
    ASSUME Reimportable = {}
    PROVE  SerialSpec => [](SyncInv /\ SerialInv /\ AP!IInv)
<1>1. [SerialNext]_vars => [Next]_vars
    BY DEF SerialNext
<1>2. Init => SyncInv /\ SerialInv /\ AP!IInv
    BY InitRight, SerialBegins, AtomicInvariant
<1>3. SyncInv /\ SerialInv /\ AP!IInv /\ [SerialNext]_vars
         => SyncInv' /\ SerialInv' /\ AP!IInv'
    BY <1>1, NextKeeps, SerialStep, AtomicInvariant
<1>4. QED
    BY <1>2, <1>3, PTL DEF SerialSpec

(* No sanity check fails in a session that no other device's commit falls  *)
(* into: whatever was added, edited or removed on either side, and         *)
(* whatever the clocks of the devices show, both have the same number of   *)
(* rows when the client asks (sanity_check_info, server_sanity_check).     *)
THEOREM SanityNeverFails ==
    ASSUME Reimportable = {}
    PROVE  SerialSpec => []SanityAgrees
<1>1. [SerialNext]_vars => [Next]_vars
    BY DEF SerialNext
<1>2. Init => SanityAgrees
    BY DEF Init, Begin, SanityAgrees, NoResp
<1>3. SyncInv /\ SerialInv /\ AP!IInv /\ SanityAgrees /\ [SerialNext]_vars => SanityAgrees'
    BY <1>1, SanityStep
<1>4. QED
    BY <1>2, <1>3, SerialAtomic, PTL DEF SerialSpec

(* When such a session commits on the server, the client holds the same    *)
(* cards, notes, review log and configuration, even when the clocks        *)
(* disagree, provided that two edits never have the same mtime             *)
(* (add_or_update_card_if_newer, merge_notes, merge_revlog).               *)
THEOREM ChunkedRowsAgree ==
    ASSUME Reimportable = {}, AS!StampsDiffer
    PROVE  SerialSpec => ChunkedAgree
<1>1. [SerialNext]_vars => [Next]_vars
    BY DEF SerialNext
<1>2. SyncInv /\ SerialInv /\ AP!IInv /\ [SerialNext]_vars =>
         \A m \in net : Commits(m) /\ Waiting(m) =>
             /\ \A o \in Chunked : SameRow(sess[m.from].work, srv', o)
             /\ sess[m.from].work.conf = srv'.conf
    BY <1>1, CommitAgrees
<1>3. QED
    BY <1>2, SerialAtomic, PTL DEF SerialSpec, ChunkedAgree

(* What AtomicSync promises of devices whose clocks agree holds of real    *)
(* sessions: whatever a client and the server disagree on is marked to be  *)
(* sent; a client that skips the sync because nothing changed has what the *)
(* server has; and a session run now would leave the later edit of each    *)
(* row on both sides.                                                      *)
THEOREM SyncKeepsPromises ==
    ASSUME Reimportable = {}, AS!ClocksAgree
    PROVE  SerialSpec => [](AS!NoMissedUpdate /\ AS!NoChangesMeansInSync /\ AS!LaterEditSurvives)
<1>1. AP!Bounds
    BY SyncBounds DEF AP!Bounds
<1>2. AP!IdsApart
    BY IdsApart DEF AP!IdsApart, Objs, Chunked, Graved, AP!Objs, AP!Chunked, AP!Graved
<1>3. AP!ClocksAgree
    BY DEF AS!ClocksAgree, AP!ClocksAgree
<1>4. AS!Init => AP!Init
    BY SameDefinitions DEF AS!Init, AP!Init
<1>5. SerialSpec => AP!Spec
    BY <1>4, SameStep, SyncImplementsAtomic, PTL DEF AtomicSpec, AS!Spec, AP!Spec
<1>6. AP!Spec => [](AP!NoMissedUpdate /\ AP!NoChangesMeansInSync /\ AP!LaterEditSurvives)
    BY <1>1, <1>2, <1>3, AP!UpdatesAreNotMissed, AP!EqualTimesMeanInSync,
       AP!SessionsKeepLaterEdits, PTL
<1>7. AP!NoMissedUpdate => AS!NoMissedUpdate
    BY SameDefinitions DEF AP!NoMissedUpdate, AS!NoMissedUpdate, AP!Scheduled, AS!Scheduled,
       AP!SameRow, AS!SameRow, AP!WillSend, AS!WillSend, AP!WillReceive, AS!WillReceive
<1>8. AP!NoChangesMeansInSync => AS!NoChangesMeansInSync
    BY SameDefinitions DEF AP!NoChangesMeansInSync, AS!NoChangesMeansInSync,
       AP!SameData, AS!SameData, AP!SameRow, AS!SameRow
<1>9. AP!LaterEditSurvives => AS!LaterEditSurvives
    BY SameDefinitions DEF AP!LaterEditSurvives, AS!LaterEditSurvives, AP!Later, AS!Later
<1>10. QED
    BY <1>5, <1>6, <1>7, <1>8, <1>9, PTL

-----------------------------------------------------------------------------
(* What a client had to send is with the server once the client has heard  *)
(* that its session was committed.                                         *)

Stored(cl, sv, o) == AS!WillSend(cl, o) => KnownTo(sv, cl, o)

Promised ==
    \A c \in Clients : resp[c].type = "finish" =>
        /\ sess[c].work.scm = cli[c].scm
        /\ cli[c].scm = srv.scm => \A o \in Objs : Stored(cli[c], srv, o)

(* A client moves alone, and takes the answer that it has.                 *)
LEMMA ClientStep ==
    ASSUME SyncInv, NEW d \in Clients,
           \/ LocalChange(d) \/ Sync(d) \/ Proceed(d)
           \/ Timeout(d) \/ UserAbort(d) \/ ClientRestart(d)
    PROVE  /\ srv' = srv /\ resp'[d] = NoResp
           /\ \A e \in Clients \ {d} :
                 resp'[e] = resp[e] /\ sess'[e] = sess[e] /\ cli'[e] = cli[e]
<1>1. /\ \A s, m : Send(d, s, m) => \E t : sess' = [sess EXCEPT ![d] = t]
      /\ EndSession(d) => \E t : sess' = [sess EXCEPT ![d] = t]
    BY DEF Send, EndSession
<1>2. \A bad : RollBack(d, bad) => \E t : sess' = [sess EXCEPT ![d] = t]
    BY <1>1 DEF RollBack
<1>3. EndAbort(d) => /\ \E t : sess' = [sess EXCEPT ![d] = t]
                     /\ cli' = cli \/ \E col : cli' = [cli EXCEPT ![d] = col]
    BY <1>1 DEF EndAbort
<1> DEFINE Moves == /\ \E t : sess' = [sess EXCEPT ![d] = t]
                    /\ cli' = cli \/ \E col : cli' = [cli EXCEPT ![d] = col]
                    /\ srv' = srv /\ resp' = [resp EXCEPT ![d] = NoResp]
<1>4. Heard(d) => srv' = srv /\ resp' = [resp EXCEPT ![d] = NoResp]
    BY DEF Heard, srvVars
<1>5. /\ \A s, m : Continue(d, s, m) => Moves
      /\ \A s : SendDeletions(d, s) => Moves
      /\ \A s : SendChunk(d, s) => Moves
      /\ \A s : CheckSanity(d, s) => Moves
    <2>1. \A s, m : Continue(d, s, m) => Moves
        BY <1>1, <1>4 DEF Continue
    <2> HIDE DEF Moves
    <2>2. \A s : SendDeletions(d, s) => Moves
        BY <2>1 DEF SendDeletions, SendGraves, SendChanges
    <2>3. \A s : SendChunk(d, s) => Moves
        BY <2>1 DEF SendChunk
    <2>4. \A s : CheckSanity(d, s) => Moves
        BY <1>2, <1>4, <2>1 DEF CheckSanity, Moves
    <2>5. QED
        BY <2>1, <2>2, <2>3, <2>4
<1>6. ASSUME Proceed(d) \/ Timeout(d) \/ UserAbort(d) \/ ClientRestart(d)
      PROVE  Moves
    <2>1. CASE \/ NothingToSync(d) \/ PostponeFullSync(d) \/ UploadDone(d)
               \/ SanityFailed(d) \/ SessionError(d) \/ Aborted(d)
        BY <1>1, <1>2, <1>3, <1>4, <2>1
           DEF NothingToSync, PostponeFullSync, UploadDone, SanityFailed, SessionError, Aborted
    <2>2. CASE \/ UploadCollection(d) \/ DownloadCollection(d) \/ DownloadDone(d)
               \/ StartSession(d) \/ SessionFinished(d)
        BY <1>1, <1>4, <2>2
           DEF UploadCollection, DownloadCollection, DownloadDone, StartSession, SessionFinished
    <2>3. CASE \/ SessionStarted(d) \/ GravesApplied(d) \/ ReceiveChanges(d) \/ ReceiveChunk(d)
               \/ ChunkApplied(d) \/ SanityPassed(d)
        <3> HIDE DEF Moves
        <3> QED
            BY <1>5, <2>3 DEF SessionStarted, GravesApplied, ReceiveChanges, ReceiveChunk,
               ChunkApplied, SanityPassed
    <2>4. CASE Timeout(d)
        <3>1. CASE sess[d].await.type = "abort"
            BY <1>3, <2>4, <3>1 DEF Timeout, srvVars
        <3>2. CASE sess[d].await.type \in {"meta", "upload", "download"}
            BY <1>1, <2>4, <3>2 DEF Timeout, srvVars
        <3>3. CASE sess[d].await.type \notin {"abort", "meta", "upload", "download"}
            BY <1>2, <2>4, <3>3 DEF Timeout, srvVars
        <3>4. QED
            BY <3>1, <3>2, <3>3
    <2>5. CASE UserAbort(d) \/ ClientRestart(d)
        BY <1>1, <2>5 DEF UserAbort, ClientRestart, srvVars
    <2>6. QED
        BY <1>6, <2>1, <2>2, <2>3, <2>4, <2>5 DEF Proceed
<1>7. CASE LocalChange(d) \/ Sync(d)
    <2>1. /\ Idle(d) /\ resp' = resp /\ srv' = srv
          /\ sess' = sess \/ \E t : sess' = [sess EXCEPT ![d] = t]
          /\ cli' = cli \/ \E col : cli' = [cli EXCEPT ![d] = col]
        BY <1>1, <1>7 DEF LocalChange, Add, Edit, Remove, SetConfig, ModifySchema, Change, Sync,
                          srvVars
    <2>2. resp[d] = NoResp
        BY <2>1, IdleIs
    <2>3. QED
        BY <2>1, <2>2, OneSession DEF SyncInv, Data, Talk
<1>8. CASE Proceed(d) \/ Timeout(d) \/ UserAbort(d) \/ ClientRestart(d)
    BY <1>6, <1>8, OneSession, OneAnswer DEF SyncInv, Data, Talk
<1>9. QED
    BY <1>7, <1>8


(* The server's collection goes on by a commit, or is replaced.            *)
LEMMA ServerStep ==
    ASSUME SyncInv, [Next]_vars
    PROVE  \/ srv' = srv
           \/ \E m \in net : HandleFinish(m) \/ FinishAndStop(m)
           \/ \E m \in net : m.type = "upload" /\ srv' = m.col
           \/ srv' = BeforeDownload(srv, clk + 1)
<1>1. ASSUME NEW c \in Clients,
             \/ LocalChange(c) \/ Sync(c) \/ Proceed(c)
             \/ Timeout(c) \/ UserAbort(c) \/ ClientRestart(c)
      PROVE  srv' = srv
    BY <1>1, ClientStep
<1>2. ASSUME NEW m \in net, Handle(m) \/ FailOperation(m)
      PROVE  \/ srv' = srv \/ HandleFinish(m) \/ (m.type = "upload" /\ srv' = m.col)
             \/ srv' = BeforeDownload(srv, clk + 1)
    BY <1>2 DEF Handle, HandleMeta, HandleStart, HandleApplyGraves, HandleApplyChanges,
       HandleChunk, HandleApplyChunk, HandleSanity, HandleAbort, HandleUpload,
       HandleDownload, RejectConflict, FailOperation, Operate, srvVars
<1>3. UNCHANGED vars \/ ServerRestart => srv' = srv
    BY DEF vars, srvVars, cliVars, ServerRestart
<1>4. QED
    BY <1>1, <1>2, <1>3 DEF Next

LEMMA FinishAnswered ==
    ASSUME SyncInv, [Next]_vars, NEW c \in Clients, resp'[c].type = "finish"
    PROVE  \/ resp'[c] = resp[c] /\ cli'[c] = cli[c] /\ sess'[c] = sess[c]
           \/ \E m \in net : HandleFinish(m) /\ Waiting(m) /\ m.from = c
<1>1. NoResp.type # "finish"
    BY DEF NoResp
<1>2. ASSUME NEW d \in Clients,
             \/ LocalChange(d) \/ Sync(d) \/ Proceed(d)
             \/ Timeout(d) \/ UserAbort(d) \/ ClientRestart(d)
      PROVE  resp'[c] = resp[c] /\ cli'[c] = cli[c] /\ sess'[c] = sess[c]
    BY <1>1, <1>2, ClientStep
<1>3. ASSUME NEW m \in net, NEW r, Answer(m, r)
      PROVE  resp'[c] = resp[c] \/ (Waiting(m) /\ m.from = c /\ resp'[c] = r)
    BY <1>3, ServedAnswer, ServedWaits DEF Waiting
<1>4. ASSUME NEW m \in net, Handle(m) \/ FailOperation(m), ~HandleFinish(m)
      PROVE  \E r : r.type # "finish" /\ Answer(m, r)
    <2>1. \A type, col, st, r : Operate(m, type, col, st, r) => Answer(m, r)
        BY DEF Operate
    <2>2. QED
        BY <1>4, <2>1 DEF Handle, HandleMeta, HandleStart, HandleApplyGraves,
           HandleApplyChanges, HandleChunk, HandleApplyChunk, HandleSanity, HandleAbort,
           HandleUpload, HandleDownload, RejectConflict, FailOperation
<1>5. ASSUME NEW m \in net, HandleFinish(m)
      PROVE  \E r : Answer(m, r)
    BY <1>5 DEF HandleFinish
<1>6. ASSUME NEW m \in net, Handle(m) \/ FailOperation(m) \/ FinishAndStop(m)
      PROVE  UNCHANGED <<cli, sess>>
    <2>1. Served => UNCHANGED <<cli, sess>>
        BY DEF Served, cliVars
    <2>2. \A type, col, st, r : Operate(m, type, col, st, r) => Served
        BY DEF Operate
    <2>3. QED
        BY <1>6, <2>1, <2>2 DEF Handle, HandleMeta, HandleStart, HandleApplyGraves,
           HandleApplyChanges, HandleChunk, HandleApplyChunk, HandleSanity, HandleFinish,
           HandleAbort, HandleUpload, HandleDownload, RejectConflict, FailOperation,
           FinishAndStop
<1>7. ASSUME NEW m \in net, Handle(m) \/ FailOperation(m)
      PROVE  \/ resp'[c] = resp[c] /\ cli'[c] = cli[c] /\ sess'[c] = sess[c]
             \/ HandleFinish(m) /\ Waiting(m) /\ m.from = c
    <2>0. UNCHANGED <<cli, sess>>
        BY <1>6, <1>7
    <2>1. CASE HandleFinish(m)
        <3>1. PICK r : Answer(m, r)
            BY <1>5, <2>1
        <3>2. resp'[c] = resp[c] \/ (Waiting(m) /\ m.from = c)
            BY <1>3, <3>1
        <3>3. QED
            BY <2>0, <2>1, <3>2
    <2>2. CASE ~HandleFinish(m)
        <3>1. PICK r : r.type # "finish" /\ Answer(m, r)
            BY <1>4, <1>7, <2>2
        <3>2. resp'[c] = resp[c]
            BY <1>3, <3>1
        <3>3. QED
            BY <2>0, <3>2
    <2>3. QED
        BY <2>1, <2>2
<1>8. ASSUME UNCHANGED vars \/ ServerRestart \/ (\E m \in net : FinishAndStop(m))
      PROVE  resp' = resp /\ cli' = cli /\ sess' = sess
    BY <1>8 DEF vars, srvVars, cliVars, ServerRestart, FinishAndStop, Served
<1>9. QED
    BY <1>2, <1>7, <1>8 DEF Next

(* What is deleted on the server is not there.                             *)
GravesBare == \A o \in Objs : srv.grave[o] # NoGrave => ~Present(srv.row[o])

LEMMA ServerGravesBare ==
    AP!IInv => GravesBare
<1> SUFFICES ASSUME AP!IInv, NEW o \in Objs, srv.grave[o] # NoGrave
             PROVE  ~Present(srv.row[o])
    BY DEF GravesBare
<1>1. AP!Good(srv)
    BY DEF AP!IInv, AP!Servers
<1>2. AP!Objs = Objs /\ AP!NoGrave = NoGrave
    BY Linked, SameDefinitions DEF AP!NoGrave, NoGrave
<1>3. QED
    BY <1>1, <1>2 DEF AP!Good, AP!GoodObj, AP!Present, Present

(* A commit makes good what its client had to send, and takes nothing back *)
(* that another had.                                                       *)
LEMMA CommitStores ==
    ASSUME SyncInv, SerialInv, AP!IInv, AS!ClocksAgree, NEW m \in net,
           \A o \in Objs : srv'.grave[o] # NoGrave => ~Present(srv'.row[o]),
           HandleFinish(m) \/ FinishAndStop(m)
    PROVE  /\ srv'.scm = srv.scm
           /\ Waiting(m) => /\ sess[m.from].work.scm = cli[m.from].scm
                            /\ \A o \in Objs : Stored(cli[m.from], srv', o)
           /\ \A cl \in Collection, o \in Objs : Stored(cl, srv, o) => Stored(cl, srv', o)
<1>1. m.type = "finish" /\ InSession(m)
    BY DEF HandleFinish, FinishAndStop
<1>2. m.from \in Clients
    BY ServedWaits
<1>3. PICK r : r = m.base
    OBVIOUS
<1>4. /\ m \in Acceptable /\ r \in Collection /\ srv \in Collection
      /\ user.col = AS!ServerMerged(r, srv) /\ NormalSyncRequired(r, srv.mod, srv.scm)
      /\ Waiting(m) => cli[m.from] = r /\ sess[m.from].work = AS!ClientMerged(r, srv)
    BY <1>1, <1>3, CommitMerges
<1>5. r \in AP!Replicas
    <2>1. [client |-> m.from, col |-> m.base] \in Offered
        BY <1>4 DEF Offered
    <2>2. QED
        BY <1>3, <2>1 DEF AP!Replicas
<1>6. r.scm = srv.scm
    BY <1>4 DEF NormalSyncRequired
<1>7. PICK cm, sm : cm = AS!ClientMerged(r, srv) /\ sm = AS!ServerMerged(r, srv)
    OBVIOUS
<1>8. AP!Bounds
    BY SyncBounds DEF AP!Bounds
<1>9. AP!IdsApart
    BY IdsApart DEF AP!IdsApart, Objs, Chunked, Graved, AP!Objs, AP!Chunked, AP!Graved
<1>10. AP!ClocksAgree
    BY DEF AS!ClocksAgree, AP!ClocksAgree
<1>11. /\ cm.scm = r.scm /\ sm.scm = srv.scm
       /\ \A o \in AP!Objs :
            /\ AP!Advances(srv, sm, o, srv.usn)
            /\ r.grave[o] = AP!PendingUsn => sm.grave[o] # AP!NoGrave
            /\ sm.row[o].ed = IF \/ r.grave[o] = AP!PendingUsn
                                 \/ srv.grave[o] # AP!NoGrave /\ srv.grave[o] >= r.usn
                              THEN 0 ELSE AP!Later(r.row[o], srv.row[o])
    <2>1. AP!ClientMerged(r, srv) = cm /\ AP!ServerMerged(r, srv) = sm
        BY <1>7, SameDefinitions
    <2>2. QED
        BY <1>5, <1>6, <1>8, <1>9, <1>10, <2>1, AP!MergeContext
<1>12. PICK usn, now : srv' = Finish(user.col, usn, now)
    BY DEF HandleFinish, FinishAndStop
<1>13. user.col \in Collection
    BY <1>1, InSessionIs, UnderwayTypes
<1>14. srv'.row = sm.row /\ srv'.grave = sm.grave /\ srv'.scm = sm.scm
    BY <1>4, <1>7, <1>12, <1>13 DEF Finish, Collection
<1>15. /\ AP!Objs = Objs /\ AP!PendingUsn = -1 /\ AP!NoGrave = -2 /\ NoGrave = -2
       /\ srv.usn \in Nat /\ srv.usn > 0
    <2>1. AP!Good(srv)
        BY DEF AP!IInv, AP!Servers
    <2>2. QED
        BY <1>4, <2>1, Linked, SameDefinitions
           DEF AP!PendingUsn, AP!NoGrave, NoGrave, AP!Good, Collection
<1>16. ASSUME NEW o \in Objs
       PROVE  /\ srv.row[o].ed \in Nat /\ sm.row[o].ed \in Nat /\ r.row[o].ed \in Nat
              /\ srv.grave[o] # -2 => sm.grave[o] # -2
              /\ sm.row[o].ed # 0 => srv.row[o].ed <= sm.row[o].ed
              /\ sm.row[o].ed = 0 => srv.row[o].ed = 0 \/ sm.grave[o] # -2
    <2>1. /\ srv.row[o] \in Row /\ sm.row[o] \in Row /\ r.row[o] \in Row
        <3>1. sm \in Collection
            BY <1>4, <1>7, <1>13
        <3>2. \A col \in Collection : col.row[o] \in Row
            BY DEF Collection, Row
        <3>3. QED
            BY <1>4, <3>1, <3>2
    <2>2. srv.row[o].ed \in Nat /\ sm.row[o].ed \in Nat /\ r.row[o].ed \in Nat
        BY <2>1, SyncBounds DEF Row
    <2>3. /\ \/ sm.row[o] = srv.row[o]
             \/ sm.row[o].ed # 0
             \/ sm.grave[o] = srv.usn
          /\ sm.grave[o] = srv.grave[o] \/ sm.grave[o] = srv.usn
          /\ sm.row[o].ed # 0 => srv.row[o].ed <= sm.row[o].ed
        BY <1>10, <1>11, <1>15 DEF AP!Advances, AP!Present
    <2>4. QED
        BY <1>15, <2>2, <2>3
<1>17. ASSUME NEW o \in Objs, sm.grave[o] # -2
       PROVE  IsDeleted(srv', o)
    <2>1. srv'.grave[o] # NoGrave => ~Present(srv'.row[o])
        OBVIOUS
    <2>2. QED
        BY <1>14, <1>15, <1>17, <2>1 DEF IsDeleted
<1>18. \A row : AS!Present(row) <=> row.ed # 0
    BY DEF AS!Present
<1>19. ASSUME NEW o \in Objs, AS!WillSend(r, o)
       PROVE  KnownTo(srv', r, o)
    <2>1. AS!PendingUsn = -1
        BY DEF AS!PendingUsn
    <2>2. CASE r.grave[o] = -1
        BY <1>11, <1>15, <1>17, <2>2 DEF KnownTo
    <2>3. CASE srv.grave[o] # -2
        BY <1>16, <1>17, <2>3 DEF KnownTo
    <2>4. CASE r.grave[o] # -1 /\ srv.grave[o] = -2
        <3>1. r.row[o].ed # 0
            BY <1>18, <1>19, <2>1, <2>4 DEF AS!WillSend
        <3>2. sm.row[o].ed = IF r.row[o].ed < srv.row[o].ed THEN srv.row[o].ed ELSE r.row[o].ed
            BY <1>11, <1>15, <2>4 DEF AP!Later
        <3>3. sm.row[o].ed >= r.row[o].ed
            BY <1>16, <3>2
        <3>4. QED
            BY <1>14, <3>1, <3>3 DEF KnownTo, Present
    <2>5. QED
        BY <2>2, <2>3, <2>4
<1>20. ASSUME NEW cl \in Collection, NEW o \in Objs, KnownTo(srv, cl, o)
       PROVE  KnownTo(srv', cl, o)
    <2>1. cl.row[o].ed \in Nat
        BY SyncBounds DEF Collection, Row
    <2>2. CASE IsDeleted(srv, o)
        BY <1>15, <1>16, <1>17, <2>2 DEF KnownTo, IsDeleted
    <2>3. CASE Present(cl.row[o]) /\ srv.row[o].ed >= cl.row[o].ed
        <3>1. CASE sm.row[o].ed # 0
            <4>1. sm.row[o].ed >= cl.row[o].ed
                BY <1>16, <2>1, <2>3, <3>1
            <4>2. QED
                BY <1>14, <2>3, <4>1 DEF KnownTo
        <3>2. CASE sm.row[o].ed = 0
            <4>1. srv.row[o].ed # 0
                BY <1>16, <2>1, <2>3 DEF Present
            <4>2. QED
                BY <1>16, <1>17, <3>2, <4>1 DEF KnownTo
        <3>3. QED
            BY <3>1, <3>2
    <2>4. QED
        BY <1>20, <2>2, <2>3 DEF KnownTo
<1>21. QED
    BY <1>4, <1>6, <1>7, <1>11, <1>14, <1>19, <1>20 DEF Stored

LEMMA OthersLeaveClients ==
    ASSUME Next,
           ~ \E d \in Clients : \/ LocalChange(d) \/ Sync(d) \/ Proceed(d)
                                \/ Timeout(d) \/ UserAbort(d) \/ ClientRestart(d)
    PROVE  cli' = cli
<1>1. Served => cli' = cli
    BY DEF Served, cliVars
<1>2. \A m, type, col, st, r : Operate(m, type, col, st, r) => Served
    BY DEF Operate
<1>3. ServerRestart \/ \E m \in net : Handle(m) \/ FailOperation(m) \/ FinishAndStop(m)
    BY DEF Next
<1>4. QED
    BY <1>1, <1>2, <1>3 DEF Handle, HandleMeta, HandleStart, HandleApplyGraves,
       HandleApplyChanges, HandleChunk, HandleApplyChunk, HandleSanity, HandleFinish,
       HandleAbort, HandleUpload, HandleDownload, RejectConflict, FailOperation,
       FinishAndStop, ServerRestart

(* The answer to a finish request that is on its way, as AtomicSync has it. *)
LEMMA FinishIsWork ==
    ASSUME SyncInv, NEW c \in Clients, resp[c].type = "finish"
    PROVE  Answered[c] # NoCol /\ Answered[c].scm = sess[c].work.scm
<1>1. Received(c, "finish")
    BY IdleIs, NoSessionWaits DEF Received, NoResp
<1>2. /\ resp[c].mod \in Nat /\ sess[c].work \in Collection /\ sess[c].server_usn + 1 \in Nat
    BY <1>1, ReceivedIs, UnderwayTypes, SessionFields DEF Fits, Awaits, AnswerOK
<1>3. FinishedWork(c) \in Collection
    BY <1>2, MovedTyped DEF FinishedWork
<1>4. FinishedWork(c).scm = sess[c].work.scm
    BY <1>2 DEF FinishedWork, Finish, Collection
<1>5. Answered[c] = FinishedWork(c)
    BY DEF Answered
<1>6. QED
    BY <1>3, <1>4, <1>5, NoColApart

LEMMA PromisedStep ==
    ASSUME SyncInv, SerialInv, AP!IInv, GravesBare', AS!ClocksAgree, Promised, [Next]_vars
    PROVE  Promised'
<1>0. \A o \in Objs : srv'.grave[o] # NoGrave => ~Present(srv'.row[o])
    BY DEF GravesBare
<1> SUFFICES ASSUME NEW c \in Clients, resp'[c].type = "finish"
             PROVE  /\ sess'[c].work.scm = cli'[c].scm
                    /\ cli'[c].scm = srv'.scm => \A o \in Objs : Stored(cli'[c], srv', o)
    BY DEF Promised
<1>1. ASSUME NEW m \in net, HandleFinish(m), Waiting(m), m.from = c
      PROVE  /\ sess'[c].work.scm = cli'[c].scm
             /\ \A o \in Objs : Stored(cli'[c], srv', o)
    <2>1. UNCHANGED <<cli, sess>>
        BY <1>1 DEF HandleFinish, Served, cliVars
    <2>2. /\ sess[c].work.scm = cli[c].scm
          /\ \A o \in Objs : Stored(cli[c], srv', o)
        BY <1>0, <1>1, CommitStores
    <2>3. QED
        BY <2>1, <2>2
<1>2. CASE resp'[c] = resp[c] /\ cli'[c] = cli[c] /\ sess'[c] = sess[c]
    <2>1. /\ sess[c].work.scm = cli[c].scm
          /\ cli[c].scm = srv.scm => \A o \in Objs : Stored(cli[c], srv, o)
          /\ resp[c].type = "finish" /\ cli[c] \in Collection
        BY <1>2, ClientData DEF Promised
    <2>2. CASE srv' = srv
        BY <1>2, <2>1, <2>2
    <2>3. CASE \E m \in net : HandleFinish(m) \/ FinishAndStop(m)
        <3>1. /\ srv'.scm = srv.scm
              /\ \A o \in Objs : Stored(cli[c], srv, o) => Stored(cli[c], srv', o)
            BY <1>0, <2>1, <2>3, CommitStores
        <3>2. QED
            BY <1>2, <2>1, <3>1
    <2>4. CASE \E m \in net : m.type = "upload" /\ srv' = m.col
        <3>1. srv' \in Uploaded
            BY <2>4 DEF Uploaded
        <3>2. AP!NoCol = NoCol
            BY DEF AP!NoCol, NoCol, AP!Absent, AP!NoGrave, Absent, NoGrave
        <3>3. Answered[c].scm # srv'.scm
            BY <2>1, <3>1, <3>2, FinishIsWork DEF AP!IInv, AP!SchemasApart
        <3>4. QED
            BY <1>2, <2>1, <3>3, FinishIsWork
    <2>5. CASE srv' = BeforeDownload(srv, clk + 1)
        <3>1. srv'.row = srv.row /\ srv'.grave = srv.grave /\ srv'.scm = srv.scm
            BY <2>5 DEF BeforeDownload, Collection, SyncInv, Data
        <3>2. QED
            BY <1>2, <2>1, <3>1 DEF Stored, KnownTo, IsDeleted
    <2>6. QED
        BY <2>2, <2>3, <2>4, <2>5, ServerStep
<1>3. QED
    BY <1>1, <1>2, FinishAnswered

(* What the user does leaves marked what was.                              *)
LEMMA ChangesStayMarked ==
    ASSUME AP!IInv, NEW c \in Clients, LocalChange(c), Reimportable = {},
           cli \in [Clients -> Collection],
           NEW o \in Objs, AS!WillSend(cli[c], o)
    PROVE  AS!WillSend(cli'[c], o)
<1>1. AP!Bounds
    BY SyncBounds DEF AP!Bounds
<1>2. AP!Good(cli[c]) /\ edits \in Nat
    <2>1. AP!IdsApart
        BY IdsApart DEF AP!IdsApart, Objs, Chunked, Graved, AP!Objs, AP!Chunked, AP!Graved
    <2>2. QED
        BY <1>1, <2>1, AP!ChangeContext
<1>3. AP!Objs = Objs /\ AS!PendingUsn = -1 /\ NoGrave = -2 /\ PendingUsn = -1
    BY Linked, SameDefinitions DEF PendingUsn, NoGrave
<1>4. cli[c] \in Collection /\ cli[c].row \in [Objs -> Row] /\ cli[c].grave \in [Objs -> Int]
    BY Fields
<1>5. ASSUME NEW p \in Objs
      PROVE  /\ cli[c].grave[p] # -2 => ~Present(cli[c].row[p])
             /\ Present(cli[c].row[p]) \/ cli[c].grave[p] # -2 => born[p] # 0
    BY <1>2, <1>3 DEF AP!Good, AP!GoodObj, AP!Present, Present, AP!NoGrave
<1>6. \A row : AS!Present(row) <=> Present(row)
    BY DEF AS!Present, Present
<1>7. ASSUME NEW p \in Objs, Add(c, p) \/ Edit(c, p)
      PROVE  AS!WillSend(cli'[c], o)
    <2>1. cli'[c] = WriteRow(cli[c], p, edits + 1, clk + 1)
        BY <1>7 DEF Add, Edit, Change
    <2>2. /\ cli'[c].grave = cli[c].grave
          /\ cli'[c].row = [cli[c].row EXCEPT ![p] = [ed |-> edits + 1, usn |-> PendingUsn]]
        BY <1>4, <2>1 DEF WriteRow, Collection
    <2>3. CASE o = p
        <3>1. cli'[c].row[o] = [ed |-> edits + 1, usn |-> -1]
            BY <1>3, <1>4, <2>2, <2>3
        <3>2. QED
            BY <1>2, <1>3, <1>6, <3>1 DEF AS!WillSend, Present
    <2>4. CASE o # p
        BY <1>4, <2>2, <2>4 DEF AS!WillSend
    <2>5. QED
        BY <2>3, <2>4
<1>8. ASSUME NEW p \in Objs, Remove(c, p)
      PROVE  AS!WillSend(cli'[c], o)
    <2>1. cli'[c] = RemoveRow(cli[c], p, clk + 1) /\ Present(cli[c].row[p])
        BY <1>8 DEF Remove, Change
    <2>2. /\ cli'[c].grave = [cli[c].grave EXCEPT ![p] = AddGrave(@, PendingUsn)]
          /\ cli'[c].row = [cli[c].row EXCEPT ![p] = Absent]
        BY <1>4, <2>1 DEF RemoveRow, Collection
    <2>3. CASE o = p
        <3>1. cli'[c].grave[o] = -1
            BY <1>3, <1>4, <1>5, <2>1, <2>2, <2>3 DEF AddGrave
        <3>2. QED
            BY <1>3, <3>1 DEF AS!WillSend
    <2>4. CASE o # p
        BY <1>4, <2>2, <2>4 DEF AS!WillSend
    <2>5. QED
        BY <2>3, <2>4
<1>9. ASSUME SetConfig(c) \/ ModifySchema(c)
      PROVE  AS!WillSend(cli'[c], o)
    <2>1. \/ cli'[c] = WriteConfig(cli[c], edits + 1, clk + 1)
          \/ cli'[c] = [SetSchemaModified(cli[c], clk + 1) EXCEPT !.mod = clk + 1]
        BY <1>9 DEF SetConfig, ModifySchema, Change
    <2>2. cli'[c].row = cli[c].row /\ cli'[c].grave = cli[c].grave
        BY <1>4, <2>1 DEF WriteConfig, SetSchemaModified, Collection
    <2>3. QED
        BY <2>2 DEF AS!WillSend
<1>10. QED
    BY <1>7, <1>8, <1>9 DEF LocalChange

LEMMA StepStores ==
    ASSUME SyncInv, SerialInv, AP!IInv, Promised, Reimportable = {}, [Next]_vars,
           NEW c \in Clients, NEW o \in Objs,
           AS!WillSend(cli[c], o), ~AS!WillSend(cli'[c], o),
           cli'[c].scm = cli[c].scm, cli[c].scm = srv.scm, resp[c].type # "download"
    PROVE  KnownTo(srv, cli[c], o)
<1>0. cli \in [Clients -> Collection] /\ cli[c] \in Collection /\ clk \in Nat
    BY DEF SyncInv, Data
<1>1. cli'[c] # cli[c]
    OBVIOUS
<1>2. Next
    BY <1>1 DEF vars, cliVars
<1>3. \/ LocalChange(c) \/ Sync(c) \/ Proceed(c)
      \/ Timeout(c) \/ UserAbort(c) \/ ClientRestart(c)
    <2>1. PICK d \in Clients :
              \/ LocalChange(d) \/ Sync(d) \/ Proceed(d)
              \/ Timeout(d) \/ UserAbort(d) \/ ClientRestart(d)
        BY <1>1, <1>2, OthersLeaveClients
    <2>2. c = d
        BY <1>1, <2>1, ClientStep
    <2>3. QED
        BY <2>1, <2>2
<1>4. ASSUME LocalChange(c)
      PROVE  FALSE
    BY <1>0, <1>4, ChangesStayMarked
<1>5. ASSUME UploadCollection(c)
      PROVE  FALSE
    <2>1. cli'[c] = BeforeUpload(cli[c], clk + 1)
        BY <1>0, <1>5 DEF UploadCollection
    <2>2. cli'[c].scm = clk + 1
        BY <1>0, <2>1 DEF BeforeUpload, Collection
    <2>3. AP!Bounds
        BY SyncBounds DEF AP!Bounds
    <2>4. AP!IdsApart
        BY IdsApart DEF AP!IdsApart, Objs, Chunked, Graved, AP!Objs, AP!Chunked, AP!Graved
    <2>5. cli[c].scm <= clk
        BY <2>3, <2>4, AP!ChangeContext DEF AP!Good
    <2>6. cli[c].scm \in Nat
        BY <1>0, Fields
    <2>7. QED
        BY <1>0, <2>2, <2>5, <2>6
<1>6. ASSUME EndAbort(c)
      PROVE  FALSE
    <2>1. cli' = cli \/ cli' = [cli EXCEPT ![c] = SetSchemaModified(@, clk + 1)]
        BY <1>6 DEF EndAbort
    <2>2. cli'[c].row = cli[c].row /\ cli'[c].grave = cli[c].grave
        <3>1. cli'[c] = SetSchemaModified(cli[c], clk + 1)
            BY <1>0, <1>1, <2>1
        <3>2. QED
            BY <1>0, <3>1 DEF SetSchemaModified, Collection
    <2>3. QED
        BY <2>2 DEF AS!WillSend
<1>7. SessionFinished(c)
    <2>1. /\ \A s, m : Continue(c, s, m) => cli' = cli
          /\ \A s : SendDeletions(c, s) => cli' = cli
          /\ \A s : SendChunk(c, s) => cli' = cli
          /\ \A s : CheckSanity(c, s) => cli' = cli
        <3>1. \A s, m : Continue(c, s, m) => cli' = cli
            BY DEF Continue
        <3>2. QED
            BY <3>1 DEF SendDeletions, SendGraves, SendChanges, SendChunk, CheckSanity
    <2>2. ~DownloadDone(c)
        BY DEF DownloadDone, Received
    <2>3. CASE Proceed(c)
        BY <1>1, <1>5, <1>6, <2>1, <2>2, <2>3 DEF Proceed, NothingToSync, PostponeFullSync,
           DownloadCollection, UploadDone, StartSession, SessionStarted, GravesApplied,
           ReceiveChanges, ReceiveChunk, ChunkApplied, SanityPassed, SanityFailed,
           SessionError, Aborted
    <2>4. CASE Timeout(c)
        BY <1>1, <1>6, <2>4 DEF Timeout
    <2>5. QED
        BY <1>1, <1>3, <1>4, <2>3, <2>4 DEF Sync, UserAbort, ClientRestart
<1>8. Stored(cli[c], srv, o)
    BY <1>7 DEF SessionFinished, Received, Promised
<1>9. QED
    BY <1>8 DEF Stored

(* Unless its user replaces the collection by the server's, a client stops *)
(* to report an addition or an edit as pending only when the server has    *)
(* it, a later one or a deletion, and a deletion only when the row is gone *)
(* from the server too - through lost answers, aborts and restarts, in     *)
(* sessions that no other device's commit falls into, when a later edit    *)
(* has a later mtime and no deleted id comes back (StampRows, StampGraves, *)
(* before_upload, the deferred commit of NormalSyncer::finalize).          *)
THEOREM NothingIsForgotten ==
    ASSUME Reimportable = {}, AS!ClocksAgree
    PROVE  SerialSpec => PendingUntilStored
<1>1. [SerialNext]_vars => [Next]_vars
    BY DEF SerialNext
<1>2. Init => Promised
    BY DEF Init, Begin, Promised, NoResp
<1>3. SyncInv /\ SerialInv /\ AP!IInv /\ GravesBare' /\ Promised /\ [SerialNext]_vars => Promised'
    BY <1>1, PromisedStep
<1>4. SyncInv /\ SerialInv /\ AP!IInv /\ Promised /\ [SerialNext]_vars =>
        \A c \in Clients, o \in Objs :
         /\ AS!WillSend(cli[c], o) /\ ~AS!WillSend(cli[c], o)'
         /\ cli[c].scm = cli'[c].scm /\ cli[c].scm = srv.scm
         /\ resp[c].type # "download"
         /\ Idle(c) => cli[c].grave[o] = NoGrave
         => KnownTo(srv, cli[c], o)
    BY <1>1, StepStores
<1>5. QED
    BY <1>2, <1>3, <1>4, SerialAtomic, ServerGravesBare, PTL DEF SerialSpec, PendingUntilStored
=============================================================================
