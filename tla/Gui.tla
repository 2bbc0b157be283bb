-------------------------------- MODULE Gui --------------------------------
(***************************************************************************)
(* What the two graphical interfaces have in common: the thread of the     *)
(* windows and the main thread, and the ways from one to the other.        *)
(*   - The user's actions are handled on the thread of the windows.  What  *)
(*     they want of the queue and of the tracks is posted to the main      *)
(*     thread as a task, one for each action.                              *)
(*   - The main thread changes the lists, and shows it by messages to the  *)
(*     thread of the windows.  It sends most of them: it waits until the   *)
(*     message has been handled, and the user may act before that.         *)
(* GuiGtk (src/gui-gtk) and GuiWin (src/gui-winapi) add the handlers.      *)
(*                                                                         *)
(* The state is one record, g.  An operator takes it, here S, returns it   *)
(* changed and is named after the function it stands for.  A function of   *)
(* the main thread that sends is cut at each message: the rest of it is    *)
(* put in front of S.todo.  What the queue does by itself is in module     *)
(* Queue; here it is as much of it as is shown.                            *)
(***************************************************************************)
EXTENDS Integers, Sequences, FiniteSets, SequencesExt

CONSTANTS
    Scenes,       \* what the runs start with, and what the user does in them
    Contents,     \* Contents[u]: the files in the playlist file u
    MaxEntries,   \* bound: entries that are ever created
    MaxTracks,    \* bound: tracks at a time
    MaxTabs       \* bound: tabs

ASSUME GuiAssumption ==
    MaxEntries \in Nat /\ MaxTracks \in Nat \ {0} /\ MaxTabs \in Nat \ {0}

VARIABLES
    g,        \* the lists, the tracks, the threads and the controls
    left      \* actions left to the user, of those the scene allows

vars == <<g, left>>

Null == 0
NoTrack == [kind |-> "none"]
Unset == -1                             \* a variable that nobody has assigned
Blank == -1                             \* a row of which dispinfo knows nothing
FileRow(d, i) == -1 - 10 * d - i         \* row i of directory d in the explorer
Missing == <<Null>>                     \* no file
Off == <<>>                             \* no filter
Tracks == 1 .. MaxTracks

(* The urls of the file of favourites and of the n-th saved list; the files that are
   lists of files, and which those are. *)
FileAt(S, n) == IF n <= Len(S.disk) THEN S.disk[n] ELSE Missing
FavUrl == 100
Auto(n) == 100 + n
IsPlist(u) == u >= FavUrl \/ u \in DOMAIN Contents
ContentOf(S, u) ==
    IF u = FavUrl THEN S.w.favfile ELSE IF u > FavUrl THEN FileAt(S, u - FavUrl) ELSE Contents[u]

Op(f, n) == [f |-> f, n |-> n]             \* something to do
For(f, op) == [f |-> f, op |-> op]        \* and what comes of it
Then(S, ops) == [S EXCEPT !.todo = ops \o @]
After(s, x) == LET i == CHOOSE j \in 1 .. Len(s) : s[j] = x IN SubSeq(s, i + 1, Len(s))
Without(s, x) == SelectSeq(s, LAMBDA y : y # x)
Ascending(X) == SetToSortSeq(X, <)

-----------------------------------------------------------------------------
(* The lists (queue.c).  Indexes of lists, entries and rows are counted from 0,
   as in the code; -1 is the list shown, qu->curlist. *)

UserList(S, l) == IF l = -1 THEN S.cur ELSE l + 1
HasList(S, l) == UserList(S, l) \in 1 .. Len(S.lists)

(* A list that is filtered shows the entries of its filter. *)
Shown(k) == IF k.filt = Off THEN k.ndx ELSE k.filt[1]
Index(S, l) == IF HasList(S, l) THEN S.lists[UserList(S, l)].ndx ELSE <<>>
Ents(S, l) == IF HasList(S, l) THEN Shown(S.lists[UserList(S, l)]) ELSE <<>>
QueCount(S) == Len(Ents(S, -1))

(* FMED_QUE_ITEM, FMED_QUE_ID, FMED_QUE_ISCURLIST *)
QueItem(S, l, i) == IF i \in 0 .. Len(Ents(S, l)) - 1 THEN Ents(S, l)[i + 1] ELSE Null
ListOf(S, e) == {l \in 1 .. Len(S.lists) : Contains(S.lists[l].ents, e)}
QueId(S, e) ==
    IF e = Null \/ ListOf(S, e) = {} THEN -1
    ELSE LET s == Shown(S.lists[CHOOSE l \in ListOf(S, e) : TRUE])
         IN  IF Contains(s, e) THEN (CHOOSE i \in 1 .. Len(s) : s[i] = e) - 1 ELSE -1
IsCurList(S, e) == S.cur \in ListOf(S, e)

(* que_add(): after prev, or at the end; e is a new entry. *)
QueAdd(S, l, prev, url) ==
    LET at(s) == IF Contains(s, prev) THEN Len(s) - Len(After(s, prev)) + 1 ELSE Len(s) + 1
    IN  [S EXCEPT !.next = @ + 1,
                  !.url = Append(@, url),
                  !.lists[UserList(S, l)].ndx = InsertAt(@, at(@), S.next),
                  !.lists[UserList(S, l)].ents = InsertAt(@, at(@), S.next)]

(* ent_rm(), ent_unref(): an entry that is out of the index is freed, and leaves
   its list, when no track uses it. *)
Used(S, e) == \E t \in Tracks : S.trk[t].kind # "none" /\ S.trk[t].e = e
Kept(S, k) == SelectSeq(k.ents, LAMBDA e : Contains(k.ndx, e) \/ Used(S, e))
Freed(S, e) == ListOf(S, e) = {} /\ ~Used(S, e)
Settle(S) ==
    LET U == [S EXCEPT !.lists = [l \in DOMAIN @ |-> [@[l] EXCEPT !.ents = Kept(S, S.lists[l])]]]
    IN  [U EXCEPT !.pl_cur = IF Freed(U, @) THEN Null ELSE @]

(* FMED_QUE_RM *)
QueRm(S, e) ==
    LET out(k) == [k EXCEPT !.ndx = Without(@, e),
                            !.filt = IF @ = Off THEN Off ELSE <<Without(@[1], e)>>]
    IN  Settle([S EXCEPT !.lists = [l \in DOMAIN @ |-> out(@[l])]])

(* FMED_QUE_NEW.  own is a history: the tab that the list is made for. *)
QueNew(S, own) == [S EXCEPT !.lists = Append(@, [own |-> own, ents |-> <<>>, ndx |-> <<>>, filt |-> Off])]

(* FMED_QUE_SEL *)
QueSel(S, l) == IF l \in 0 .. Len(S.lists) - 1 THEN [S EXCEPT !.cur = l + 1] ELSE S

(* FMED_QUE_DEL: the pointers to the list shown and to the others stay. *)
QueDel(S, l) ==
    IF ~HasList(S, l) THEN S
    ELSE LET k == UserList(S, l)
         IN  Settle([S EXCEPT !.lists = RemoveAt(@, k),
                              !.cur = IF @ = k THEN 0 ELSE IF @ > k THEN @ - 1 ELSE @])

(* FMED_QUE_CLEAR *)
QueClear(S) ==
    IF S.cur = 0 THEN S
    ELSE Settle([S EXCEPT !.lists[S.cur].ndx = <<>>,
                          !.lists[S.cur].filt = IF @ = Off THEN Off ELSE <<<<>>>>])

-----------------------------------------------------------------------------
(* Tracks.  The bridge between a track and the interface is its filter, gtrk_*;
   S.curtrk is the track whose filter has been opened last. *)

FreeTracks(S) == {t \in Tracks : S.trk[t].kind = "none"}

(* trk_create() and FMED_TRACK_START *)
TrkStart(S, e, kind) ==
    IF FreeTracks(S) = {} THEN S
    ELSE LET t == CHOOSE i \in FreeTracks(S) : \A j \in FreeTracks(S) : i <= j
         IN  [S EXCEPT !.trk[t] = [kind |-> kind, e |-> e, st |-> "new", stop |-> FALSE,
                                   paused |-> FALSE, seek |-> FALSE]]

(* FMED_TRACK_STOPALL; a recording goes on *)
StopKinds(S, kinds) ==
    [S EXCEPT !.trk = [t \in Tracks |->
        IF @[t].kind \in kinds THEN [@[t] EXCEPT !.stop = TRUE] ELSE @[t]]]
StopAll(S) == StopKinds(S, {"play", "convert", "expand"})

(* FMED_TRACK_STOPALL_EXIT, and trk_free() of the last track: core->sig() ends the
   main loop. *)
Leave(S) == IF S.exit /\ FreeTracks(S) = Tracks THEN [S EXCEPT !.main = "exit"] ELSE S
StopAllExit(S) ==
    Leave([StopKinds(S, {"play", "convert", "expand", "record"}) EXCEPT !.exit = TRUE])

(* que_play() *)
QuePlay(S, e) == TrkStart([S EXCEPT !.pl_cur = e], e, "play")

(* FMED_QUE_PLAY: without an entry, the one that was played last, or the first. *)
QuePlayCmd(S, e) ==
    IF e # Null THEN QuePlay(S, e)
    ELSE IF S.pl_cur # Null THEN QuePlay(S, S.pl_cur)
    ELSE IF Index(S, -1) = <<>> THEN S
    ELSE QuePlay(S, Index(S, -1)[1])

(* FMED_QUE_PLAY_EXCL *)
QuePlayExcl(S, e) == QuePlayCmd(StopAll(S), e)

(* FMED_QUE_NEXT2: the next of the list that was played, or the first shown. *)
QueNext2(S) ==
    LET rest == IF S.pl_cur = Null \/ ListOf(S, S.pl_cur) = {} THEN Index(S, -1)
                ELSE After(S.lists[CHOOSE l \in ListOf(S, S.pl_cur) : TRUE].ents, S.pl_cur)
    IN  IF rest = <<>> THEN [StopAll(S) EXCEPT !.pl_cur = Null]
        ELSE QuePlay(StopAll(S), rest[1])

(* que_ontrkfin(): the next entry, unless the track has been stopped. *)
QueOnTrkFin(S, t) ==
    LET k == S.trk[t]
        U == [S EXCEPT !.trk[t] = NoTrack]
        l == ListOf(S, k.e)
        rest == IF l = {} THEN <<>> ELSE After(S.lists[CHOOSE x \in l : TRUE].ents, k.e)
    IN  Settle(IF k.kind = "expand" \/ k.stop \/ rest = <<>> THEN U
               ELSE IF k.kind = "play" THEN QuePlay(U, rest[1]) ELSE TrkStart(U, rest[1], "convert"))

(* FMED_QUE_EXPAND: a track for a playlist file, which changes the list.  Its entries
   replace its own: m3u_add() after the first, que_trk_close() and trk_free(). *)
QueExpand(S, e) == IF IsPlist(S.url[e]) THEN TrkStart(S, e, "expand") ELSE S
M3uRest(S, r) ==
    IF ListOf(S, r.prev) = {} THEN S
    ELSE LET l == (CHOOSE l \in ListOf(S, r.prev) : TRUE) - 1
         IN  FoldLeft(LAMBDA V, u : QueAdd(V, l, V.next - 1, u), S, r.urls)
Expanded(S, t) == Leave(Settle([S EXCEPT !.trk[t] = NoTrack]))

-----------------------------------------------------------------------------
(* The threads. *)

(* corecmd_add(), gui_corecmd_add(): a task, its number and what else it is given.
   For the commands about rows v is a history: the entries that the user has pointed
   at. *)
Post(S, cmd, n, v) == [S EXCEPT !.tasks = Append(@, [cmd |-> cmd, n |-> n, v |-> v])]

(* Nothing is under way: no task, no message, no file that is being expanded. *)
Quiet(S) ==
    /\ S.tasks = <<>> /\ S.todo = <<>> /\ S.msgs = <<>> /\ ~S.wait /\ S.dirty = {}
    /\ \A t \in Tracks : S.trk[t].kind # "expand"

(* The main thread is between two tasks. *)
Idle(S) == S.todo = <<>> /\ ~S.wait /\ S.main = "run"

(* A track goes on between two tasks. *)
Live(t) == Idle(g) /\ g.trk[t].kind \in {"play", "convert"}

TabOf(S) == S.act                        \* 0: the explorer
NewTab(S) == [S EXCEPT !.tabs = Append(@, S.ntabs + 1), !.ntabs = @ + 1]

Row(e, mark) == [e |-> e, mark |-> mark, sel |-> FALSE]
Selected(S) == {i \in 1 .. Len(S.rows) : S.rows[i].sel}

(* Something is done to entry e, and the user has meant others. *)
Act(S, e) == IF S.meant = <<>> \/ Contains(S.meant, e) THEN S ELSE [S EXCEPT !.wrong = TRUE]

(* The files that hold the lists: que_export(), m3uw_process(), pl_list_next().  The
   first entry is written also when it has been removed and is still linked.  A list
   without entries gets a file only if there is one that it can replace. *)
Urls(S, s) == [i \in 1 .. Len(s) |-> S.url[s[i]]]
Export(S, l, old) ==
    LET k == S.lists[l]
        kept == SelectSeq(k.ents, LAMBDA e : e = k.ents[1] \/ Contains(k.ndx, e))
    IN  IF kept = <<>> /\ old = Missing THEN Missing ELSE Urls(S, kept)

(* The file of settings, line by line: below 10 they are settings, 0 is a line without
   text and the others are not the program's.  What is written anew is 10 more. *)
Settings == <<1, 2, 3>>
SettingsKept(S) ==
    /\ \A k \in Range(Settings) : Cardinality({i \in DOMAIN S.w.conf : S.w.conf[i] = k + 10}) = 1
    /\ SelectSeq(S.w.conf, LAMBDA x : x > 20) = SelectSeq(S.scene.conf, LAMBDA x : x > 20)

(* The lists that are saved: not the conversions, and the favourites have a file of
   their own. *)
Saved(S) == SelectSeq([l \in 1 .. Len(S.lists) |-> l], LAMBDA l : l \notin {S.w.conv + 1, S.w.fav + 1})

(* Slip of lists_save(): it ends at a list without entries. *)
UpToEmpty(S) ==
    LET s == Saved(S)
        full == {i \in 1 .. Len(s) : \A j \in 1 .. i : S.lists[s[j]].ents # <<>>}
    IN  [S EXCEPT !.disk = [i \in 1 .. Cardinality(full) |-> Export(S, s[i], FileAt(S, i))]]

(* lists_save(), gui_savelists(): a file for each; the one after the last is removed. *)
ListsSave(S) ==
    LET s == Saved(S)
        n == Len(s)
    IN  [S EXCEPT !.disk = [i \in 1 .. n |-> Export(S, s[i], FileAt(S, i))]
                           \o IF Len(@) > n THEN <<Missing>> \o SubSeq(@, n + 2, Len(@)) ELSE <<>>]

(* The directory that the explorer shows; the first row is the one above. *)
Files(S) == S.scene.dirs[S.path].rows

-----------------------------------------------------------------------------
(* The user, on the thread of the windows.  hurried is a history, that the user did
   something before the effects of all that had been done before were shown; to close
   the windows does not count as that. *)

User(name, S) ==
    /\ left > 0 /\ g.quit = "no" /\ name \in g.scene.acts
    /\ g.scene.patient => Quiet(g)
    /\ left' = left - 1
    /\ g' = [S EXCEPT !.hurried = @ \/ ~Quiet(g)]

MarkRows(S, X) == [S EXCEPT !.rows = [i \in DOMAIN @ |-> [@[i] EXCEPT !.sel = i \in X]]]
RowsOf(S, X) == LET s == Ascending(X) IN [i \in 1 .. Len(s) |-> S.rows[s[i]].e]

(* The commands about the selected rows. *)
OnRows(name, cmd) ==
    \E X \in SUBSET (1 .. Len(g.rows)) \ {{}} : User(name, Post(MarkRows(g, X), cmd, Null, RowsOf(g, X)))

-----------------------------------------------------------------------------
(* The windows are shown, with the lists of a session before; or they are to be loaded
   from their files. *)
Windows(sc) ==
    [conv |-> -1, fav |-> -1, favfile |-> sc.favfile, names |-> <<>>, url |-> Null,
     filter |-> FALSE, text |-> [len |-> 0, hit |-> {}], rec |-> Null, conf |-> sc.conf, ghost |-> FALSE]
Entries(s, n) == [i \in 1 .. Len(s) |-> n + i]
Start(sc) ==
    LET n(l) == FoldLeft(LAMBDA x, s : x + Len(s), 0, SubSeq(sc.lists, 1, l - 1))
        list(l) == Entries(sc.lists[l], n(l))
        all == FlattenSeq(sc.lists)
    IN  [scene |-> sc,
         lists |-> [l \in 1 .. Len(sc.lists) |-> [own |-> l, ents |-> list(l), ndx |-> list(l), filt |-> Off]],
         cur |-> 1, next |-> Len(all) + 1, url |-> all, disk |-> sc.disk, w |-> Windows(sc),
         trk |-> [t \in Tracks |-> NoTrack], curtrk |-> Null, active |-> Null, pl_cur |-> Null,
         tasks |-> IF sc.load THEN <<[cmd |-> "LOADLISTS", n |-> Null, v |-> <<>>]>> ELSE <<>>,
         todo |-> <<>>, idx |-> Unset, sel |-> <<>>, meant |-> <<>>, wait |-> FALSE, msgs |-> <<>>,
         tabs |-> [l \in 1 .. Len(sc.lists) |-> l], ntabs |-> Len(sc.lists), act |-> 1,
         rows |-> [i \in 1 .. Len(list(1)) |-> Row(list(1)[i], FALSE)], dirty |-> {},
         path |-> 1, focused |-> 0, quit |-> "no", exit |-> FALSE, main |-> "run",
         hurried |-> FALSE, stray |-> FALSE, wrong |-> FALSE, dangling |-> FALSE]
Init == \E sc \in Scenes : left = sc.most /\ g = Start(sc)

TypeOK ==
    /\ left \in 0 .. g.scene.most
    /\ g.cur \in 0 .. Len(g.lists) /\ g.act \in 0 .. Len(g.tabs)
    /\ \A l \in 1 .. Len(g.lists) : \A i \in 1 .. Len(g.lists[l].ents) : g.lists[l].ents[i] \in 1 .. MaxEntries
    /\ g.trk \in [Tracks -> {NoTrack} \cup
                    [kind : {"play", "convert", "expand", "record"}, e : 0 .. MaxEntries,
                     st : {"new", "open", "shown", "closed"}, stop : BOOLEAN, paused : BOOLEAN,
                     seek : BOOLEAN]]
    /\ g.curtrk \in Tracks \cup {Null} /\ g.active \in 0 .. MaxEntries
    /\ g.quit \in {"no", "asked", "leaving", "ended"} /\ g.main \in {"run", "exit"}
    /\ g.wait \in BOOLEAN /\ g.hurried \in BOOLEAN /\ g.stray \in BOOLEAN
    /\ g.wrong \in BOOLEAN /\ g.dangling \in BOOLEAN

(* Nothing is under way, and never has the user been ahead of what is shown. *)
Settled(S) == Quiet(S) /\ ~S.hurried /\ ~S.stray /\ S.quit = "no"

(* Each tab has the list that was made for it, by its place only: the lists are
   made, deleted and selected on the main thread, the tabs on the other one. *)
TabsAgree == Settled(g) => [l \in DOMAIN g.lists |-> g.lists[l].own] = g.tabs

(* What is played, removed, deleted from the disk, copied or converted is what the
   user has pointed at, although the command only names rows, and is run later, perhaps
   while the windows are being closed. *)
MeantIsDone == ~g.hurried /\ ~g.stray => ~g.wrong

(* The program leaves only after all that is in the lists is in their files, with at
   most one entry more, that has been removed, and all that is in the favourites is in
   theirs, whatever was under way when the windows were closed; a playlist file that was
   about to be read may stand for what is in it.  Excused is a list that was about to be
   read from its own file: that file then names itself.  And the settings have been
   written once each, with nothing lost of what else the file of settings holds. *)
Listed(s) == FlattenSeq([i \in DOMAIN s |-> IF s[i] \in DOMAIN Contents THEN Contents[s[i]] ELSE <<s[i]>>])
InFile(s, file, own) ==
    \/ Listed(file) = Listed(s)
    \/ file # <<>> /\ Listed(Tail(file)) = Listed(s)
    \/ Contains(file, own)
SavedIsWhole ==
    g.main = "exit" =>
        /\ \A i \in DOMAIN Saved(g) : InFile(Urls(g, Index(g, Saved(g)[i] - 1)), FileAt(g, i), Auto(i))
        /\ g.w.fav # -1 => InFile(Urls(g, Index(g, g.w.fav)), g.w.favfile, FavUrl)
        /\ g.w.conf = <<>> \/ SettingsKept(g)

(* What the user sees, when nothing is under way: the rows are the entries of the
   list of the tab, in its order, with the mark at the one that is played; in the
   explorer, the files of the directory. *)
MayMark(S) ==
    {S.active} \cup IF S.scene.sys = "win" /\ S.curtrk # Null THEN {S.trk[S.curtrk].e} ELSE {}
RowsAgree ==
    Settled(g) =>
        LET shown == [i \in DOMAIN g.rows |-> g.rows[i].e]
        IN  IF g.act = 0 THEN shown # <<>> => shown = [i \in DOMAIN Files(g) |-> FileRow(g.path, i)]
            ELSE /\ g.cur = g.act
                 /\ shown = Ents(g, -1)
                 /\ g.w.ghost \/ \A i \in DOMAIN g.rows :
                        LET r == g.rows[i]
                        IN  (r.e = g.active => r.mark) /\ (r.mark => r.e \in MayMark(g))

(* So the user sees what there is, and what the user means is what is done. *)
ViewIsTrue == RowsAgree /\ MeantIsDone

(* Once the windows are closed the program ends, unless the main thread has just then
   posted the one message for which ffui_thd_post() waits, and nobody handles it. *)
Stuck == g.quit = "ended" /\ g.wait /\ g.msgs # <<>> /\ g.msgs[1].m.f = "list_setdata"
ExitCompletes == (g.quit = "asked") ~> ((g.main = "exit" /\ g.quit = "ended") \/ Stuck)
=============================================================================
