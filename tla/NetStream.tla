----------------------------- MODULE NetStream -----------------------------
(***************************************************************************)
(* A track that plays from the network and saves what it plays: the        *)
(* filters "net.httpcli" (src/net/net.c) over the client of HttpClient,    *)
(* "net.icy" (src/net/icy.h), which takes the metadata out of the stream,  *)
(* and, for each title, a track of its own with the filter "net.in",       *)
(* which writes the title's data to a file (--out-copy).                   *)
(*                                                                         *)
(* All of it runs on one thread.  The filters of the chain behind net.icy  *)
(* and those behind net.in take their time with the data, and may fail;    *)
(* the user may stop the track at any moment.                              *)
(***************************************************************************)
EXTENDS HttpClient, SequencesExt

CONSTANTS
    TitleAfter,  \* the units of a response that metadata with a new title comes after
    MaxCopies    \* bound: copies made

ASSUME StreamAssumption == TitleAfter \subseteq 1 .. Units /\ MaxCopies \in Nat

VARIABLES
    trk,     \* the track: where its chain is, FMED_FSTOP, whether it has come to the end
    icy,     \* struct icy
    copy,    \* copy[k]: the k-th copy's netin, and its track
    got,     \* what the chain has been given of the current response,
    stream,  \* and of all the responses together, unless there is a gap:
    gap      \* a copy could not be made, or its file not be written

vars == <<clientVars, trk, icy, copy, got, stream, gap>>
chainVars == <<trk, icy, copy, got, stream, gap>>

(* open: the filter is in the chain; data: its input; seen: the last unit whose
   metadata it has read; netin: the copy it writes to, 0 for none. *)
NoIcy == [open |-> FALSE, data |-> <<>>, seen |-> 0, netin |-> 0]

(* st: "new", "next" and "wait" as in IN_*; "out", "last": its chain has a piece,
   or the last one; "orphan": its track could not be started; d, idx: its buffers
   and the one to write; c: netin.c is set; piece: what its chain has, of the
   other buffer; file: what has been written; go: its track's task is queued; begin
   is a history: how much of the stream came before it. *)
NewCopy == [st |-> "new", d |-> [i \in {0, 1} |-> <<>>], idx |-> 0, fin |-> FALSE, c |-> TRUE,
            piece |-> <<>>, from |-> 1, file |-> <<>>, go |-> TRUE, begin |-> 0]

Init ==
    /\ ClientInit
    /\ trk = [at |-> "wait", stop |-> FALSE, whole |-> FALSE]
    /\ icy = NoIcy /\ copy = <<>>
    /\ got = <<>> /\ stream = <<>> /\ gap = FALSE

-----------------------------------------------------------------------------
(* The copy's side: netin_write() and the filter net.in. *)

Woken(n) == [n EXCEPT !.go = @ \/ n.st = "wait"]

(* A write to the buffer that the chain reads from changes what it reads. *)
Added(n, s) ==
    [n EXCEPT !.d[n.idx] = @ \o s,
              !.piece = IF n.st = "out" /\ n.from = n.idx THEN s ELSE @]

Written(n, s) == Woken(Added(n, s))
Ended(n) == Woken([n EXCEPT !.fin = TRUE, !.c = FALSE])

(* Slip of netin_process(): the buffers are not exchanged. *)
OtherSame(idx) == idx
Other(idx) == 1 - idx

Gives(n) ==
    [n EXCEPT !.st = IF n.fin THEN "last" ELSE "out", !.go = FALSE,
              !.piece = n.d[n.idx], !.from = n.idx,
              !.d[n.idx] = <<>>, !.idx = Other(n.idx)]

(* netin_process(), when its chain asks for more. *)
Asked(n) ==
    IF n.d[n.idx] = <<>> /\ ~n.fin THEN [n EXCEPT !.st = "wait", !.go = FALSE] ELSE Gives(n)

(* netin_close() *)
Unlinked(k) == IF icy.netin = k /\ copy[k].c THEN [icy EXCEPT !.netin = 0] ELSE icy

(* Nothing runs on the thread. *)
Idle == ~c.run /\ trk.at \in {"wait", "out", "closed"}

(* The copy's track runs: it was started, or woken. *)
CopyRuns(k) ==
    /\ Idle /\ copy[k].st \in {"new", "wait"} /\ copy[k].go
    /\ copy' = [copy EXCEPT ![k] = IF @.st = "new" THEN Asked(@) ELSE Gives(@)]
    /\ UNCHANGED <<clientVars, trk, icy, got, stream, gap>>

(* Its chain has written the piece, and asks for more, or is closed. *)
CopyWrites(k) ==
    LET n == [copy[k] EXCEPT !.file = @ \o copy[k].piece, !.piece = <<>>]
    IN  /\ Idle /\ copy[k].st \in {"out", "last"}
        /\ copy' = [copy EXCEPT ![k] = IF n.st = "out" THEN Asked(n) ELSE [n EXCEPT !.st = "done"]]
        /\ icy' = IF copy[k].st = "out" THEN icy ELSE Unlinked(k)
        /\ UNCHANGED <<clientVars, trk, got, stream, gap>>

(* Its chain fails, and is closed. *)
CopyFails(k) ==
    /\ Idle /\ copy[k].st \in {"out", "last"}
    /\ copy' = [copy EXCEPT ![k].st = "failed"]
    /\ icy' = Unlinked(k) /\ gap' = TRUE
    /\ UNCHANGED <<clientVars, trk, got, stream>>

CopySteps == \E k \in DOMAIN copy : CopyRuns(k) \/ CopyWrites(k) \/ CopyFails(k)

-----------------------------------------------------------------------------
(* netin_create(): it fails, or the track does not start, which goes unnoticed. *)
Creating == {"fails"} \cup IF Len(copy) < MaxCopies THEN {"starts", "orphan"} ELSE {}

(* The filter icy, with the copies in N, gets a new one. *)
Creates(I, N, how) ==
    /\ gap' = (gap \/ how # "starts")
    /\ LET n == [NewCopy EXCEPT !.begin = Len(stream)]
       IN  copy' = CASE how = "fails" -> N
                     [] how = "starts" -> Append(N, n)
                     [] how = "orphan" -> Append(N, [n EXCEPT !.st = "orphan", !.go = FALSE])
    /\ icy' = [I EXCEPT !.netin = IF how = "fails" THEN 0 ELSE Len(N) + 1]

(* The copies, with the current one told that there is no more. *)
CopyEnded == IF icy.netin = 0 THEN copy ELSE [copy EXCEPT ![icy.netin] = Ended(@)]

(* The chain is closed: httpcli_close(), ffhttpcl_close(), icy_close(). *)
Closed(whole) ==
    /\ trk' = [at |-> "closed", stop |-> FALSE, whole |-> whole]
    /\ c' = NoClient /\ h' = NoUser /\ go' = FALSE
    /\ srv' = IF whole THEN srv ELSE NoResponse
    /\ icy' = NoIcy /\ copy' = CopyEnded
    /\ got' = IF h.reset \/ ~whole THEN <<>> ELSE got
    /\ UNCHANGED <<stream, gap>>

(* The track's task runs the filter that waits. *)
TaskRuns ==
    /\ Idle /\ trk.at = "wait" /\ go
    /\ go' = FALSE /\ trk' = [trk EXCEPT !.at = "http"]
    /\ UNCHANGED <<c, srv, h, icy, copy, got, stream, gap>>

AtHttp(st) == trk.at = "http" /\ ~trk.stop /\ h.st = st

Sent(C, st) ==
    /\ c' = C /\ h' = [h EXCEPT !.st = st]
    /\ trk' = [trk EXCEPT !.at = "wait"]
    /\ UNCHANGED <<srv, go, icy, copy, got, stream, gap>>

(* httpcli_process(): the first call makes the request, ... *)
HttpOpen ==
    /\ AtHttp(0)
    /\ \/ Closed(FALSE)
       \/ Sent([NoClient EXCEPT !.st = "START", !.run = TRUE], 1)

(* ... a call after data lets the client run on, ... *)
HttpNext == AtHttp(2) /\ Sent([c EXCEPT !.run = TRUE], 1)

(* ... the others hand over the data that has come, ... *)
HttpData ==
    /\ AtHttp(1) /\ h.status = "RESP_RECV"
    /\ h' = [h EXCEPT !.st = 2]
    /\ trk' = [trk EXCEPT !.at = "icy"]
    /\ icy' = [icy EXCEPT !.data = h.data, !.open = TRUE]
    /\ UNCHANGED <<c, srv, go, copy, got, stream, gap>>

(* ... or end the chain. *)
HttpEnds ==
    /\ trk.at = "http"
    /\ trk.stop \/ h.st = 3 \/ (h.st = 1 /\ h.status # "RESP_RECV")
    /\ Closed(~trk.stop /\ h.st = 1 /\ h.status = "DONE")

(* icy_reset(): after each new connection. *)
IcyReset ==
    /\ trk.at = "icy" /\ ~trk.stop /\ h.reset
    /\ h' = [h EXCEPT !.reset = FALSE] /\ got' = <<>>
    /\ \E how \in Creating :
          IF icy.netin = 0 THEN Creates([icy EXCEPT !.seen = 0], copy, how)
          ELSE icy' = [icy EXCEPT !.seen = 0] /\ UNCHANGED <<copy, gap>>
    /\ UNCHANGED <<c, srv, go, trk, stream>>

AtIcy == trk.at = "icy" /\ ~trk.stop /\ ~h.reset

(* Metadata lies before the first unit of the data. *)
TitleDue == icy.data # <<>> /\ Head(icy.data) - 1 \in TitleAfter \ {icy.seen}

(* icy_setmeta(): the copy is ended, and the next one begun. *)
IcyTitle ==
    /\ AtIcy /\ TitleDue
    /\ \E how \in Creating : Creates([icy EXCEPT !.seen = Head(icy.data) - 1], CopyEnded, how)
    /\ UNCHANGED <<clientVars, trk, got, stream>>

(* icy_process(): the data up to the next metadata, for the copy and the chain. *)
IcyData ==
    LET last == CHOOSE i \in DOMAIN icy.data :
                   /\ \A j \in 1 .. i - 1 : icy.data[j] \notin TitleAfter
                   /\ i = Len(icy.data) \/ icy.data[i] \in TitleAfter
        s == SubSeq(icy.data, 1, last)
    IN  /\ AtIcy /\ icy.data # <<>> /\ ~TitleDue
        /\ copy' = IF icy.netin = 0 THEN copy ELSE [copy EXCEPT ![icy.netin] = Written(@, s)]
        /\ icy' = [icy EXCEPT !.data = SubSeq(@, last + 1, Len(@))]
        /\ got' = got \o s /\ stream' = IF gap THEN <<>> ELSE stream \o s
        /\ trk' = [trk EXCEPT !.at = "out"]
        /\ UNCHANGED <<clientVars, gap>>

IcyMore ==
    /\ AtIcy /\ icy.data = <<>>
    /\ trk' = [trk EXCEPT !.at = "http"]
    /\ UNCHANGED <<clientVars, icy, copy, got, stream, gap>>

(* The rest of the chain is done with the data, or fails, or is told to stop. *)
OutAsks ==
    /\ Idle /\ trk.at = "out" /\ ~trk.stop
    /\ trk' = [trk EXCEPT !.at = "icy"]
    /\ UNCHANGED <<clientVars, icy, copy, got, stream, gap>>

OutEnds == Idle /\ trk.at = "out" /\ Closed(FALSE)

(* FMED_TRACK_STOP *)
StopTrack ==
    /\ Idle /\ trk.at # "closed" /\ ~trk.stop
    /\ trk' = [trk EXCEPT !.stop = TRUE] /\ go' = TRUE
    /\ UNCHANGED <<c, srv, h, icy, copy, got, stream, gap>>

-----------------------------------------------------------------------------
ClientSteps == (ClientRuns \/ Timeout) /\ UNCHANGED chainVars
Events == Event /\ UNCHANGED chainVars

TrackSteps ==
    \/ TaskRuns \/ HttpOpen \/ HttpNext \/ HttpData \/ HttpEnds
    \/ IcyReset \/ IcyTitle \/ IcyData \/ IcyMore \/ OutAsks \/ OutEnds

Steps == ClientSteps \/ TrackSteps \/ CopySteps

Next == Steps \/ Events \/ StopTrack

(* The thread goes on with what there is to do, and a timer that is set goes off
   at last.  The network owes nothing: an event may never come. *)
Spec == Init /\ [][Next]_vars /\ WF_vars(Steps)

-----------------------------------------------------------------------------
(* The type invariant: what icy.h's struct icy and struct netin may hold. *)
StreamTypeOK ==
    LET Data == Seq(1 .. Units)
    IN  /\ TypeOK
        /\ trk \in [at : {"wait", "http", "icy", "out", "closed"}, stop : BOOLEAN, whole : BOOLEAN]
        /\ icy \in [open : BOOLEAN, data : Data, seen : 0 .. Units, netin : 0 .. MaxCopies]
        /\ copy \in Seq([st : {"new", "wait", "out", "last", "orphan", "done", "failed"},
                         d : [{0, 1} -> Data], idx : {0, 1}, fin : BOOLEAN, c : BOOLEAN,
                         piece : Data, from : {0, 1}, file : Data, go : BOOLEAN, begin : Nat])
        /\ Len(copy) <= MaxCopies
        /\ {got, stream} \subseteq Data /\ gap \in BOOLEAN

(* The chain gets the body of the response without a gap or a repetition, however
   the network cuts it; and when the track comes to the end by itself, it has had
   all that has been received.  Not so with a body of a given length ("length" in
   Bodies, which the run leaves out): there the last piece may be lost, for the client
   goes on from RESP_RECV to DONE before the track has run (ffhttp-client.c:572). *)
StreamIsWhole ==
    /\ got = SubSeq(Wire(srv.body), 1, Len(got))
    /\ trk.whole => Len(got) = IF srv.body = "close" THEN srv.next - 1
                               ELSE IF srv.body = "none" THEN 0 ELSE Units

Held(n) == n.file \o n.piece \o n.d[n.idx]
Begin(k) == IF k \in DOMAIN copy THEN copy[k].begin ELSE Len(stream)

(* The files together, with what is on its way to them, hold what the chain has
   been given, in that order: a copy has what the chain was given between its
   beginning and that of the next one, the first all there was.  A file holds one
   title; and the filter writes to a copy that exists and points back to it, no
   other one does (netin->c, icy->netin are plain pointers to what the two tracks
   free when they end). *)
CopyIsWhole ==
    /\ ~gap => /\ Begin(1) = 0
               /\ \A k \in DOMAIN copy : Held(copy[k]) = SubSeq(stream, Begin(k) + 1, Begin(k + 1))
    /\ \A k \in DOMAIN copy : \A i \in 1 .. Len(copy[k].file) - 1 :
          copy[k].file[i] \in TitleAfter => copy[k].file[i + 1] # copy[k].file[i] + 1
    /\ \A k \in DOMAIN copy :
          icy.netin = k <=> copy[k].c /\ copy[k].st \notin {"done", "failed"}

(* Whatever the network does, or does not do, the track comes to its end, and with
   it the copies: every wait has its timer, the reconnections and the redirects
   are bounded. *)
RequestEnds ==
    <>(trk.at = "closed" /\ \A k \in DOMAIN copy : copy[k].st \in {"done", "failed", "orphan"})

=============================================================================
