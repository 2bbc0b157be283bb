------------------------------- MODULE Queue -------------------------------
(***************************************************************************)
(* The playback queue: the playlists and their entries, and what is played *)
(* next (src/core/queue.c, queue-entry.h, queue-track.h, and the playlist  *)
(* reader src/plist/m3u-read.h that changes a list while a track reads it).*)
(*                                                                         *)
(* Everything here runs on the main thread, one task or one command of the *)
(* user interface at a time.  What interleaves are the tasks: a track that *)
(* ends posts trk_free(); that closes the track's "queue.track" filter,    *)
(* which posts CMD_TRKFIN; and only that task looks for the next entry and *)
(* gives back the reference to the entry.  Commands come in between.       *)
(*                                                                         *)
(* The state is one record, q, because a command changes many of its parts *)
(* in a row; an operator below takes it and returns it changed, and is     *)
(* named after the function it stands for.                                 *)
(***************************************************************************)
EXTENDS Naturals, Sequences, FiniteSets, SequencesExt

CONSTANTS
    Entries,      \* entry objects
    Lists,        \* plist objects
    Null,
    PlaylistFiles,\* entries whose file is itself a playlist
    Opening,      \* Opening[e]: how que_play2() fares: "ok"; "format" when
                  \* trk_create() fails; "meta" when que_setmeta() does
    InitLists,    \* InitLists[l]: the entries the lists are filled with
    RepeatModes,  \* values of qu->repeat in use
    MaxErrors,    \* MAX_N_ERRORS (15)
    Dangers,      \* what the user may also do: "sort" or "delete" a list that
                  \* is in use, use an entry "twice" at the same time
    MaxTracks,    \* bound: tracks and unfinished CMD_TRKFIN tasks at a time
    Budget        \* bound: commands of the user

ASSUME QueueAssumption ==
    /\ Null \notin Entries \cup Lists /\ Entries \cap Lists = {}
    /\ PlaylistFiles \subseteq Entries /\ RepeatModes \subseteq {"none", "all", "track"}
    /\ Opening \in [Entries -> {"ok", "format", "meta"}]
    /\ MaxErrors \in Nat \ {0} /\ MaxTracks \in Nat \ {0} /\ Budget \in Nat

VARIABLES
    q,        \* struct que, its lists and entries, the tracks and the main
              \* thread's tasks; and two histories: q.why, the reason why playback
              \* need not go on ("" when it has to), and q.todo, what
              \* FMED_QUE_XPLAY has promised to start and has not started yet
    left      \* user commands left, of Budget

vars == <<q, left>>

Tracks == 1 .. MaxTracks
NoTrack == [e |-> Null]
FreeEntry == [pl |-> Null]
NoFilter == <<Null>>

NewEntry(l) == [pl |-> l, ref |-> 0, rm |-> FALSE, stop_after |-> FALSE, stopped |-> FALSE, err |-> FALSE]
NewList(rnd) ==
    [st |-> "live", ents |-> <<>>, ndx |-> <<>>, filt |-> NoFilter, cur |-> Null, xcur |-> Null,
     nerr |-> 0, rnd |-> rnd, parallel |-> FALSE, expand_all |-> FALSE]
FreeList == [NewList(TRUE) EXCEPT !.st = "free"]

Live(S, e) == S.ent[e] # FreeEntry
ListOf(S, e) == S.pl[S.ent[e].pl]
Position(s, x) == CHOOSE i \in 1 .. Len(s) : s[i] = x
Without(s, x) == SelectSeq(s, LAMBDA y : y # x)
After(s, x) == SubSeq(s, Position(s, x) + 1, Len(s))

(* pl_next(), pl_prev(), pl_first() *)
PlNext(S, e) == LET r == After(ListOf(S, e).ents, e) IN IF r = <<>> THEN Null ELSE r[1]
PlPrev(S, e) == LET s == ListOf(S, e).ents
                IN  IF s[1] = e THEN Null ELSE s[Position(s, e) - 1]
PlFirst(S, l) == IF S.pl[l].ents = <<>> THEN Null ELSE S.pl[l].ents[1]

(* pl_default(): the list that is playing, or else the one that is shown. *)
PlDefault(S) == IF S.playing # Null THEN S.playing ELSE S.curlist

Load(S) == Cardinality({t \in Tracks : S.trk[t] # NoTrack})
           + Cardinality({i \in 1 .. Len(S.tasks) : S.tasks[i].cmd # "free"})
Room(S) == MaxTracks - Load(S)

-----------------------------------------------------------------------------
(* Entries. *)

(* que_add(): after prev in the list, and after it in the index if it is there. *)
QueAdd(S, l, prev, n) ==
    [S EXCEPT
        !.ent[n] = NewEntry(l),
        !.pl[l].ents = IF prev = Null THEN Append(@, n) ELSE InsertAt(@, Position(@, prev) + 1, n),
        !.pl[l].ndx = IF Contains(@, prev) THEN InsertAt(@, Position(@, prev) + 1, n) ELSE Append(@, n)]

(* Slip of plist_remove_entry(): the filtered list is forgotten. *)
UnindexOnly(S, e) == [S EXCEPT !.pl[S.ent[e].pl].ndx = Without(@, e)]

(* plist_remove_entry(), its part for from_index. *)
Unindex(S, e) ==
    LET l == S.ent[e].pl
    IN  [S EXCEPT !.pl[l].ndx = Without(@, e), !.pl[l].filt = Without(@, e)]

(* Slip of plist_remove_entry(): pl->cur is left as it is. *)
UnlinkKeepsCursor(S, e) ==
    LET l == S.ent[e].pl
        rest == Without(S.pl[l].ents, e)
        U == [S EXCEPT !.pl[l].ents = rest, !.ent[e] = FreeEntry]
    IN  IF rest = <<>> /\ S.pl[l].st = "rm" THEN [U EXCEPT !.pl[l] = FreeList] ELSE U

(* plist_remove_entry(), its part for remove, and ent_free(): a deleted list
   goes with its last entry.  A playlist reader that stands on the entry holds
   no reference to it: it is left with a pointer to freed memory, and what it
   does then is not defined.  Here it adds no more. *)
Unlink(S, e) ==
    LET l == S.ent[e].pl
        rest == Without(S.pl[l].ents, e)
        U == [S EXCEPT
                !.pl[l].cur = IF @ = e THEN Null ELSE @,
                !.pl[l].xcur = IF @ = e THEN Null ELSE @,
                !.pl[l].ents = rest,
                !.ent[e] = FreeEntry,
                !.trk = [t \in Tracks |-> IF @[t] # NoTrack /\ @[t].qu_cur = e
                                          THEN [@[t] EXCEPT !.qu_cur = Null] ELSE @[t]],
                !.todo = @ \ {e}]
    IN  IF rest = <<>> /\ S.pl[l].st = "rm" THEN [U EXCEPT !.pl[l] = FreeList] ELSE U

(* ent_rm(): out of the index at once, out of the list and freed when no track
   plays it any more. *)
EntRm(S, e) ==
    LET U == IF S.ent[e].rm THEN S ELSE Unindex(S, e)
    IN  IF S.ent[e].ref # 0 THEN [U EXCEPT !.ent[e].rm = TRUE] ELSE Unlink(U, e)

(* Slip of ent_unref(): nobody looks whether the entry was removed. *)
EntUnrefOnly(S, e) == [S EXCEPT !.ent[e].ref = @ - 1]

(* ent_unref() *)
EntUnref(S, e) ==
    LET U == [S EXCEPT !.ent[e].ref = @ - 1]
    IN  IF U.ent[e].ref = 0 /\ U.ent[e].rm THEN EntRm(U, e) ELSE U

-----------------------------------------------------------------------------
(* Tracks. *)

(* ent_start_prepare() and FMED_TRACK_START or FMED_TRACK_XSTART. *)
Start(S, e, kind) ==
    LET t == CHOOSE i \in Tracks : S.trk[i] = NoTrack /\ \A j \in 1 .. i - 1 : S.trk[j] # NoTrack
    IN  [S EXCEPT
            !.trk[t] = [e |-> e, kind |-> kind, ended |-> FALSE, stop |-> FALSE, out |-> "ok",
                        qu_cur |-> IF e \in PlaylistFiles THEN e ELSE Null, removed |-> FALSE],
            !.ent[e].ref = @ + 1,
            !.playing = IF kind = "play" THEN S.ent[e].pl ELSE @,
            !.why = IF kind = "expand" THEN @ ELSE "",
            !.todo = IF kind = "convert" THEN @ \ {e} ELSE @]

(* que_play2(): when no track can be created it returns, and when the user's
   meta data is wrong it removes the entry.  The rest is up to its caller. *)
QuePlay2(S, e, kind) ==
    CASE Opening[e] = "ok" -> Start(S, e, kind)
      [] Opening[e] = "meta" -> EntRm(S, e)
      [] OTHER -> S

(* Slip of que_xplay(): xcursor is the entry to start next. *)
QueXPlayAhead(S, e, n) ==
    LET all == <<e>> \o After(ListOf(S, e).ents, e)
    IN  FoldLeft(LAMBDA U, x : QuePlay2([U EXCEPT !.pl[S.ent[e].pl].xcur = PlNext(U, x)], x, "convert"),
                 S, SubSeq(all, 1, IF n < Len(all) THEN n ELSE Len(all)))

(* que_xplay(): e and those that follow, as long as there is a worker free,
   which is found out after each start: n of them. *)
QueXPlay(S, e, n) ==
    LET all == <<e>> \o After(ListOf(S, e).ents, e)
    IN  FoldLeft(LAMBDA U, x : QuePlay2([U EXCEPT !.pl[S.ent[e].pl].xcur = x], x, "convert"),
                 S, SubSeq(all, 1, IF n < Len(all) THEN n ELSE Len(all)))

(* que_play(): in a parallel list whatever follows the last one started. *)
QuePlay(S, e, n) ==
    IF ~ListOf(S, e).parallel
    THEN QuePlay2(S, e, IF S.mixing THEN "mix" ELSE "play")
    ELSE LET x == ListOf(S, e).xcur
         IN  IF x = Null THEN [S EXCEPT !.why = "started"]
             ELSE IF PlNext(S, x) = Null THEN [S EXCEPT !.why = "started"]
             ELSE QueXPlay(S, PlNext(S, x), n)

(* que_getnext(): which list counts, whether its next entry is a random one,
   and the indexes pl_random() chooses from: the two halves in turn. *)
NextList(S, e) == IF e = Null THEN PlDefault(S) ELSE S.ent[e].pl
IsRandom(S, e) == LET l == S.pl[NextList(S, e)] IN l.rnd /\ S.random /\ l.ndx # <<>>
RandomIndexes(S, e) ==
    LET n == Len(S.pl[NextList(S, e)].ndx)
    IN  IF ~IsRandom(S, e) THEN {0}
        ELSE IF n = 1 THEN {1}
        ELSE IF ~S.split THEN 1 .. n \div 2
        ELSE n \div 2 + 1 .. n

(* que_getnext(), without what it changes; Null makes it give FMED_TRACK_LAST. *)
GetNext(S, e, i) ==
    IF IsRandom(S, e) THEN S.pl[NextList(S, e)].ndx[i]
    ELSE IF e = Null THEN PlFirst(S, NextList(S, e))
    ELSE IF S.repeat = "track" THEN e
    ELSE IF PlNext(S, e) = Null /\ S.repeat = "all" THEN PlFirst(S, NextList(S, e))
    ELSE PlNext(S, e)

Flipped(S, e) == [S EXCEPT !.split = IF IsRandom(S, e) /\ Len(S.pl[NextList(S, e)].ndx) # 1 THEN ~@ ELSE @]

(* FMED_QUE_NEXT2 *)
Next2(S, e, i, n) ==
    LET x == GetNext(S, e, i)
        U == [Flipped(S, e) EXCEPT !.pl[NextList(S, e)].cur = x]
    IN  IF x = Null THEN [U EXCEPT !.why = "last"] ELSE QuePlay(U, x, n)

(* FMED_QUE_EXPAND: TRUE when there is a track now. *)
CanExpand(e) == Opening[e] # "format"

(* pl_expand_next(): the first one after e that a track can be created for. *)
PlExpandNext(S, l, rest) ==
    LET able == SelectSeq(rest, CanExpand)
    IN  IF able = <<>> THEN [S EXCEPT !.pl[l].expand_all = FALSE]
        ELSE Start(S, able[1], "expand")

(* FMED_TRACK_STOPALL: the tracks that trk_fin() has been called for already
   will be freed without having seen it. *)
StopAll(S) ==
    [S EXCEPT !.trk = [t \in Tracks |->
        IF @[t] # NoTrack /\ ~@[t].ended THEN [@[t] EXCEPT !.stop = TRUE] ELSE @[t]]]

-----------------------------------------------------------------------------
(* The main thread's tasks. *)

(* A filter that closes a playlist file removes its entry if it has not yet. *)
ReaderClose(S, t) ==
    IF S.trk[t].qu_cur # Null /\ ~S.trk[t].removed THEN EntRm(S, S.trk[t].qu_cur) ELSE S

(* que_trk_close(): how the track ended is left in its entry. *)
QueTrkClose(S, t) ==
    LET k == S.trk[t]
        all == k.kind = "expand" /\ ListOf(S, k.e).expand_all
    IN  [S EXCEPT
            !.ent[k.e].stopped = k.stop \/ (k.kind = "expand" /\ ~all),
            !.ent[k.e].err = (k.out # "ok"),
            !.trk[t] = NoTrack,
            !.tasks = Append(@, [cmd |-> IF all THEN "trkfin_expand" ELSE "trkfin", e |-> k.e, kind |-> k.kind,
                                 gone |-> k.out = "gone", told |-> k.stop \/ k.kind = "expand"])]

(* trk_free(): the filters are closed from the last to the first. *)
TrkFree(S, t) == QueTrkClose(ReaderClose(S, t), t)

(* Playback of the entry's list is over for a reason; an expansion that ends
   has no say in it. *)
Over(S, reason) == [S EXCEPT !.why = reason, !.todo = {}]

(* que_ontrkfin(): there have been too many errors in a row. *)
CountsErrors(S, e) ==
    /\ ~S.mixing /\ ~S.ent[e].stop_after /\ ~S.ent[e].stopped
    /\ S.ent[e].err /\ S.next_if_err
    /\ S.random \/ S.repeat = "all"

TooMany(S, e) == CountsErrors(S, e) /\ ListOf(S, e).nerr + 1 = MaxErrors

(* Slip of que_ontrkfin(): a stopped track is not told from one that failed. *)
AfterTrackOfFailed(S, e, told, i, n) ==
    IF S.mixing THEN Over(S, "last")
    ELSE IF S.ent[e].stop_after THEN [Over(S, "after") EXCEPT !.ent[e].stop_after = FALSE]
    ELSE IF S.ent[e].stopped \/ S.ent[e].err
    THEN IF told THEN Over(S, "stopped") ELSE S
    ELSE Next2(S, e, i, n)

(* que_ontrkfin(): what is started after e.  told is a history: whether it is
   this track that was told to stop. *)
AfterTrack(S, e, told, i, n) ==
    IF S.mixing THEN Over(S, "last")
    ELSE IF S.ent[e].stop_after THEN [Over(S, "after") EXCEPT !.ent[e].stop_after = FALSE]
    ELSE IF S.ent[e].stopped THEN IF told THEN Over(S, "stopped") ELSE S
    ELSE IF S.ent[e].err /\ ~S.next_if_err THEN Over(S, "error")
    ELSE Next2(S, e, i, n)

(* Slip of que_ontrkfin(): no error is counted. *)
ErrorsForgotten(S, e) ==
    [S EXCEPT !.pl[S.ent[e].pl].nerr = 0]

(* que_ontrkfin(): the errors in a row. *)
Errors(S, e) ==
    [S EXCEPT !.pl[S.ent[e].pl].nerr =
        IF ~S.ent[e].err THEN 0 ELSE IF CountsErrors(S, e) THEN @ + 1 ELSE @]

(* que_ontrkfin() *)
OnTrkFin(S, k, i, n) ==
    IF TooMany(S, k.e)
    THEN EntUnref([Over(S, "errors") EXCEPT !.pl[S.ent[k.e].pl].nerr = 0], k.e)
    ELSE LET U == AfterTrack(Errors(S, k.e), k.e, k.told, i, n)
         IN  EntUnref(IF k.gone THEN EntRm(U, k.e) ELSE U, k.e)

(* que_taskfunc(), CMD_TRKFIN_EXPAND *)
OnTrkFinExpand(S, k) ==
    EntUnref(PlExpandNext(S, S.ent[k.e].pl, After(ListOf(S, k.e).ents, k.e)), k.e)

RunTask ==
    /\ q.tasks # <<>>
    /\ LET k == q.tasks[1]
           S == [q EXCEPT !.tasks = Tail(@)]
       IN  CASE k.cmd = "free" -> q' = TrkFree(S, k.t)
             [] k.cmd = "trkfin_expand" -> q' = OnTrkFinExpand(S, k)
             [] k.cmd = "trkfin" ->
                   \E i \in RandomIndexes(S, k.e), n \in 1 .. Room(S) : q' = OnTrkFin(S, k, i, n)
    /\ UNCHANGED left

(* A track ends: trk_fin() posts trk_free().  A track of another worker may
   not have seen yet that it was told to stop. *)
End(t, out, missed) ==
    /\ q.trk[t] # NoTrack /\ ~q.trk[t].ended
    /\ missed => q.trk[t].kind = "convert" /\ q.trk[t].stop
    /\ out = "gone" => q.trk[t].kind # "expand"
    /\ q' = [q EXCEPT !.trk[t].ended = TRUE,
                      !.trk[t].out = out,
                      !.trk[t].stop = @ /\ ~missed,
                      !.tasks = Append(@, [cmd |-> "free", t |-> t])]
    /\ UNCHANGED left

(* m3u_add(): the next entry of a playlist file, after the one before; the
   file's own entry is removed with the first. *)
ReaderAdd(t, n) ==
    /\ q.trk[t] # NoTrack /\ ~q.trk[t].ended /\ q.trk[t].qu_cur # Null
    /\ ~Live(q, n) /\ n \notin PlaylistFiles
    /\ LET k == q.trk[t]
           U == QueAdd(q, q.ent[k.qu_cur].pl, k.qu_cur, n)
       IN  q' = [IF k.removed THEN U ELSE EntRm(U, k.qu_cur)
                 EXCEPT !.trk[t].qu_cur = n, !.trk[t].removed = TRUE]
    /\ UNCHANGED left

-----------------------------------------------------------------------------
(* The user's commands: que_cmdv(), que_cmd2(). *)

Command == left > 0 /\ left' = left - 1

(* No two tracks use one entry, and a list is not read for its meta data and
   played at the same time.  The user is free to do all this ("twice"), and the
   way a track ended may then be taken for another's. *)
Apart(S) ==
    LET running == {t \in Tracks : S.trk[t] # NoTrack}
        uses == {[e |-> S.trk[t].e, kind |-> S.trk[t].kind] : t \in running}
                \cup {[e |-> S.tasks[i].e, kind |-> S.tasks[i].kind] :
                        i \in {j \in 1 .. Len(S.tasks) : S.tasks[j].cmd # "free"}}
    IN  /\ \A a, b \in running : S.trk[a].e = S.trk[b].e => a = b
        /\ \A u, v \in uses : S.ent[u.e].pl = S.ent[v.e].pl =>
                               (u.kind = "expand" <=> v.kind = "expand")
Becomes(S) == ("twice" \in Dangers \/ Apart(S)) /\ q' = S

InUse(S, l) == \E e \in Entries : Live(S, e) /\ S.ent[e].pl = l /\ S.ent[e].ref # 0

(* The entries the user can name: by their index in a list. *)
Shown == {e \in Entries : \E l \in ToSet(q.lists) : Contains(q.pl[l].ndx, e)}

(* FMED_QUE_PLAY, FMED_QUE_PLAY_EXCL *)
Play(e, excl) ==
    /\ Command /\ Room(q) > 0 /\ PlDefault(q) # Null
    /\ LET S == IF excl THEN [StopAll(q) EXCEPT !.todo = {}] ELSE q
           l == IF e # Null THEN S.ent[e].pl ELSE PlDefault(S)
       IN  \E i \in RandomIndexes(S, Null), n \in 1 .. Room(S) :
             LET x == IF e # Null THEN e ELSE IF S.pl[l].cur # Null THEN S.pl[l].cur ELSE GetNext(S, Null, i)
                 U == IF e = Null /\ S.pl[l].cur = Null THEN Flipped(S, Null) ELSE S
                 V == [U EXCEPT !.pl[l].cur = x, !.why = "user"]
             IN  Becomes(IF x = Null THEN [V EXCEPT !.why = "last"]
                         ELSE QuePlay([V EXCEPT !.mixing = FALSE], x, n))

(* FMED_QUE_NEXT2 without an entry: everything is stopped first. *)
NextCmd ==
    /\ Command /\ Room(q) > 0 /\ PlDefault(q) # Null
    /\ LET S == [StopAll(q) EXCEPT !.why = "user", !.todo = {}]
           e == S.pl[PlDefault(S)].cur
       IN  \E i \in RandomIndexes(S, e), n \in 1 .. Room(S) : Becomes(Next2(S, e, i, n))

(* FMED_QUE_PREV2 without an entry. *)
PrevCmd ==
    /\ Command /\ Room(q) > 0 /\ PlDefault(q) # Null
    /\ LET S == [StopAll(q) EXCEPT !.why = "user", !.todo = {}]
           l == PlDefault(S)
           x == IF S.pl[l].cur = Null THEN Null ELSE PlPrev(S, S.pl[l].cur)
           U == [S EXCEPT !.pl[l].cur = x]
       IN  \E n \in 1 .. Room(S) : Becomes(IF x = Null THEN U ELSE QuePlay(U, x, n))

(* FMED_TRACK_STOPALL *)
StopCmd == Command /\ q' = [StopAll(q) EXCEPT !.why = "user", !.todo = {}]

(* FMED_QUE_STOP_AFTER *)
StopAfter ==
    /\ Command /\ PlDefault(q) # Null
    /\ LET e == q.pl[PlDefault(q)].cur
       IN  e # Null /\ q.ent[e].ref # 0 /\ q' = [q EXCEPT !.ent[e].stop_after = TRUE]

(* FMED_QUE_MIX: the list's tracks all at once (the mixer's own track is not a
   track of an entry). *)
Mix ==
    /\ Command /\ q.curlist # Null /\ Room(q) >= Len(q.pl[q.curlist].ents)
    /\ Becomes(FoldLeft(LAMBDA S, e : QuePlay(S, e, 1), [q EXCEPT !.mixing = TRUE, !.why = "user"],
                        q.pl[q.curlist].ents))

(* FMED_QUE_XPLAY *)
XPlay(e) ==
    /\ Command /\ Room(q) > 0
    /\ LET all == <<e>> \o After(ListOf(q, e).ents, e)
           S == [q EXCEPT !.pl[q.ent[e].pl].parallel = TRUE, !.todo = ToSet(all), !.why = "user"]
       IN  \E n \in 1 .. Room(q) : Becomes(QueXPlay(S, e, n))

(* FMED_QUE_EXPAND, FMED_QUE_EXPAND_ALL *)
Expand(e) == Command /\ Room(q) > 0 /\ CanExpand(e) /\ Becomes(Start(q, e, "expand"))
ExpandAll ==
    /\ Command /\ Room(q) > 0 /\ q.curlist # Null /\ q.pl[q.curlist].ents # <<>>
    /\ Becomes(PlExpandNext([q EXCEPT !.pl[q.curlist].expand_all = TRUE], q.curlist, q.pl[q.curlist].ents))

(* A playlist file's entries are being added to the list. *)
ReadInto(l) == \E t \in Tracks : q.trk[t] # NoTrack /\ q.trk[t].qu_cur # Null /\ q.ent[q.trk[t].qu_cur].pl = l

(* FMED_QUE_ADD, FMED_QUE_ADD2, FMED_QUE_ADDAFTER *)
Add(l, n) == Command /\ ~Live(q, n) /\ q' = QueAdd(q, l, Null, n)
AddAfter(e, n) == Command /\ ~Live(q, n) /\ q' = QueAdd(q, q.ent[e].pl, e, n)

(* FMED_QUE_RM.  With a listener the entry is taken out of the index, the
   listener called, and then it is removed: the same in the end. *)
Rm(e) == Command /\ q' = EntRm(q, e)

(* FMED_QUE_CLEAR, and FMED_QUE_RMDEAD when no file is there any more. *)
Clear ==
    /\ Command /\ q.curlist # Null
    /\ q' = FoldLeft(EntRm, q, q.pl[q.curlist].ents)

(* FMED_QUE_NEW *)
New(l, rnd) ==
    /\ Command /\ q.pl[l].st = "free"
    /\ q' = [q EXCEPT !.pl[l] = NewList(rnd), !.lists = Append(@, l)]

(* FMED_QUE_SEL *)
Sel(l) == Command /\ q.curlist # l /\ q' = [q EXCEPT !.curlist = l]

(* FMED_QUE_DEL: a list with an entry in use is freed later. *)
Del(l) ==
    /\ Command
    /\ \/ "delete" \in Dangers
       \/ ~InUse(q, l)
       \/ l \notin {q.curlist, q.playing} /\ ~ReadInto(l)
    /\ LET S == FoldLeft(EntRm, [q EXCEPT !.lists = Without(@, l)], q.pl[l].ents)
       IN  q' = IF S.pl[l].ents # <<>> THEN [S EXCEPT !.pl[l].st = "rm"]
                ELSE [S EXCEPT !.pl[l] = FreeList,
                               !.curlist = IF @ = l THEN Null ELSE @,
                               !.playing = IF @ = l THEN Null ELSE @]

(* FMED_QUE_SORT: the list becomes what the index is, in some other order. *)
Sort(l) ==
    /\ Command
    /\ "sort" \in Dangers \/ Len(q.pl[l].ents) = Len(q.pl[l].ndx)
    /\ \E s \in SetToSeqs(ToSet(q.pl[l].ndx)) :
         q' = [q EXCEPT !.pl[l].ndx = s, !.pl[l].ents = s, !.todo = {}]

(* FMED_QUE_NEW_FILTERED and FMED_QUE_ADD_FILTERED for some of the entries;
   FMED_QUE_DEL_FILTERED *)
Filter ==
    /\ Command /\ q.curlist # Null
    /\ \E keep \in SUBSET ToSet(q.pl[q.curlist].ndx) :
         q' = [q EXCEPT !.pl[q.curlist].filt =
                 SelectSeq(q.pl[q.curlist].ents, LAMBDA e : e \in keep)]
DelFilter == Command /\ q.curlist # Null /\ q' = [q EXCEPT !.pl[q.curlist].filt = NoFilter]

(* FMED_QUE_SETCURID: the entry is looked up in what the user sees. *)
SetCur(l) ==
    /\ Command
    /\ LET seen == IF q.pl[l].filt # NoFilter THEN q.pl[l].filt ELSE q.pl[l].ndx
       IN  \E e \in ToSet(seen) \cup {Null} : q' = [q EXCEPT !.pl[l].cur = e]

(* FMED_QUE_SET_RANDOM, FMED_QUE_FLIP_RANDOM, FMED_QUE_SET_REPEATALL,
   FMED_QUE_SET_NEXTIFERROR *)
Set ==
    /\ Command
    /\ \/ q' = [q EXCEPT !.random = ~@]
       \/ \E r \in RepeatModes : q' = [q EXCEPT !.repeat = r]
       \/ q' = [q EXCEPT !.next_if_err = ~@]

UserOfEntry ==
    \E e \in Shown :
        \/ \E excl \in BOOLEAN : Play(e, excl)
        \/ XPlay(e)
        \/ Expand(e)
        \/ Rm(e)
        \/ \E n \in Entries : AddAfter(e, n)

UserOfList ==
    \E l \in ToSet(q.lists) :
        \/ \E n \in Entries : Add(l, n)
        \/ Sel(l)
        \/ Del(l)
        \/ Sort(l)
        \/ SetCur(l)

User ==
    \/ UserOfEntry
    \/ UserOfList
    \/ \E excl \in BOOLEAN : Play(Null, excl)
    \/ NextCmd \/ PrevCmd \/ StopCmd \/ StopAfter \/ Mix \/ ExpandAll
    \/ Clear \/ Filter \/ DelFilter \/ Set
    \/ \E l \in Lists, rnd \in BOOLEAN : New(l, rnd)

TrackEnds(t) == \E out \in {"ok", "err", "gone"}, missed \in BOOLEAN : End(t, out, missed)

(* que_sig(FMED_OPEN), and the lists that are filled from the command line or
   from the files they were saved to. *)
Init ==
    /\ q = [ent |-> [e \in Entries |->
                IF \E l \in DOMAIN InitLists : Contains(InitLists[l], e)
                THEN NewEntry(CHOOSE l \in DOMAIN InitLists : Contains(InitLists[l], e))
                ELSE FreeEntry],
            pl |-> [l \in Lists |->
                IF l \in DOMAIN InitLists
                THEN [NewList(TRUE) EXCEPT !.ents = InitLists[l], !.ndx = InitLists[l]]
                ELSE FreeList],
            lists |-> SetToSeq(DOMAIN InitLists),
            curlist |-> CHOOSE l \in DOMAIN InitLists : SetToSeq(DOMAIN InitLists)[1] = l,
            playing |-> Null, random |-> FALSE, split |-> FALSE, repeat |-> "none",
            next_if_err |-> TRUE, mixing |-> FALSE,
            trk |-> [t \in Tracks |-> NoTrack], tasks |-> <<>>, why |-> "user", todo |-> {}]
    /\ left = Budget

Next ==
    \/ User
    \/ RunTask
    \/ \E t \in Tracks : TrackEnds(t) \/ \E n \in Entries : ReaderAdd(t, n)

(* The main thread goes on running its tasks (this is WF_vars(RunTask), with its
   ENABLED written out), and every track comes to its end some day: a file has
   an end, and a stopped track is wound up. *)
Fairness ==
    /\ []<>(q.tasks = <<>>) \/ []<><<RunTask>>_vars
    /\ \A t \in Tracks : WF_vars(TrackEnds(t))

Spec == Init /\ [][Next]_vars /\ Fairness

-----------------------------------------------------------------------------
EntryOK(r) ==
    /\ r.pl \in Lists /\ r.ref \in 0 .. MaxTracks
    /\ {r.rm, r.stop_after, r.stopped, r.err} \subseteq BOOLEAN

ListOK(r) ==
    /\ r.st \in {"free", "live", "rm"}
    /\ {r.ents, r.ndx} \subseteq Seq(Entries) /\ (r.filt \in Seq(Entries) \/ r.filt = NoFilter)
    /\ {r.cur, r.xcur} \subseteq Entries \cup {Null}
    /\ r.nerr \in 0 .. MaxErrors - 1
    /\ {r.rnd, r.parallel, r.expand_all} \subseteq BOOLEAN

TrackOK(r) ==
    /\ r.e \in Entries /\ r.kind \in {"play", "mix", "convert", "expand"}
    /\ r.out \in {"ok", "err", "gone"} /\ r.qu_cur \in Entries \cup {Null}
    /\ {r.ended, r.stop, r.removed} \subseteq BOOLEAN

(* The queue's structures are well typed, and the counter of errors never
   passes its limit, which the code tests with ==. *)
TypeOK ==
    /\ \A e \in Entries : q.ent[e] = FreeEntry \/ EntryOK(q.ent[e])
    /\ \A l \in Lists : ListOK(q.pl[l])
    /\ \A t \in Tracks : q.trk[t] = NoTrack \/ TrackOK(q.trk[t])
    /\ q.lists \in Seq(Lists) /\ {q.curlist, q.playing} \subseteq Lists \cup {Null}
    /\ q.repeat \in RepeatModes \cup {"none"}
    /\ {q.random, q.split, q.next_if_err, q.mixing} \subseteq BOOLEAN
    /\ Load(q) <= MaxTracks /\ q.todo \subseteq Entries /\ left \in 0 .. Budget

InList(l) == {e \in Entries : Live(q, e) /\ q.ent[e].pl = l}

(* The list of a plist (in which the next entry is looked for) and its index
   (which the user sees) agree: they have the same entries, each once, but for
   those that were removed while a track uses them; and the filtered list shows
   nothing that was removed. *)
ListsAgree ==
    \A l \in Lists :
        /\ IsInjective(q.pl[l].ents) /\ ToSet(q.pl[l].ents) = InList(l)
        /\ IsInjective(q.pl[l].ndx)
        /\ ToSet(q.pl[l].ndx) = {e \in InList(l) : ~q.ent[e].rm}
        /\ q.pl[l].filt # NoFilter => ToSet(q.pl[l].filt) \subseteq ToSet(q.pl[l].ndx)

Users(e) == Cardinality({t \in Tracks : q.trk[t].e = e})
            + Cardinality({i \in 1 .. Len(q.tasks) : q.tasks[i].cmd # "free" /\ q.tasks[i].e = e})

(* An entry's reference counter is the number of tracks that play it and of
   CMD_TRKFIN tasks on their way, whatever is removed, cleared, deleted and
   played again meanwhile; a removed entry that nobody uses is gone, and so is
   a deleted list. *)
RefsCounted ==
    /\ \A e \in Entries : IF Live(q, e) THEN q.ent[e].ref = Users(e) ELSE Users(e) = 0
    /\ \A e \in Entries : Live(q, e) /\ q.ent[e].rm => q.ent[e].ref # 0
    /\ \A l \in Lists : q.pl[l].st = "rm" => InUse(q, l)

(* No pointer is left to an entry or to a list that has been freed: the cursors
   of a list, the list that is shown and "the currently playing or currently
   shown" one (queue.c:383). *)
NothingDangles ==
    /\ \A l \in Lists : {q.pl[l].cur, q.pl[l].xcur} \subseteq InList(l) \cup {Null}
    /\ \A l \in {q.curlist, q.playing} \ {Null} : q.pl[l].st # "free"

Idle == q.tasks = <<>> /\ \A t \in Tracks : q.trk[t] = NoTrack

(* "Start the next track in list after an error has occurred with the current
   track" (fmedia.conf:97), and after its end: when nothing plays, there was a
   reason to stop: the user's command, the end of the list (FMED_TRACK_LAST is
   given, which ends the program), or errors.  And the entries of a list are
   read for their meta data to the last one. *)
PlaybackGoesOn == Idle => q.why # "" /\ \A l \in Lists : ~q.pl[l].expand_all

(* FMED_QUE_XPLAY: as tracks end and workers become free, in any order, every
   entry from the first one on is started. *)
AllConverted == Idle => q.todo = {}

(* MAX_N_ERRORS: when nothing can be played (a disk or the audio device is
   gone), playback comes to an end even in random or repeat-all mode, instead
   of trying the same entries for ever. *)
ErrorsEnd ==
    \/ <>[]Idle
    \/ []<>(\E t \in Tracks : q.trk[t] # NoTrack /\ q.trk[t].ended /\ q.trk[t].out = "ok")
    \/ []<>(q.repeat = "track")
=============================================================================
