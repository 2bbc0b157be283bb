------------------------------- MODULE GuiWin -------------------------------
(***************************************************************************)
(* The graphical interface on Windows: src/gui-winapi, and the controls of *)
(* src/util/gui-winapi.                                                    *)
(*   - The view is virtual: it holds the number of rows and which of them  *)
(*     are to be drawn again; list_setdata() is asked for a row while it   *)
(*     is drawn.  Here S.rows is what has been drawn, S.dirty what will be.*)
(*   - The main thread calls the controls itself: each call is a message   *)
(*     that Windows delivers at once, so a command is one step, unless a   *)
(*     track and a drawing come between.  A command reads the selection,   *)
(*     the tab and the names when it runs.                                 *)
(* g.w holds the variables of ggui that have no counterpart on GTK.        *)
(***************************************************************************)
EXTENDS Gui

Gone == -2                               \* gg->rec_trk, of a track that is no more
RecUrl == 9                              \* the file that is recorded

-----------------------------------------------------------------------------
(* The controls (util/gui-winapi/view.h); rows are counted from 0. *)

(* ffui_view_setcount(): the rows that stay are not drawn again. *)
SetCount(S, n) ==
    LET old == Len(S.rows)
    IN  [S EXCEPT !.rows = [i \in 1 .. n |-> IF i <= old THEN @[i] ELSE Row(Blank, FALSE)],
                  !.dirty = (@ \cup (old + 1 .. n)) \cap (1 .. n)]

(* ffui_view_redraw(), ffui_ctl_invalidate(), ffui_view_clear(), ffui_view_unselall() *)
ViewRedraw(S, first, last) == [S EXCEPT !.dirty = @ \cup ((first + 1 .. last + 1) \cap DOMAIN S.rows)]
Invalidate(S) == ViewRedraw(S, 0, Len(S.rows))
ViewClear(S) == SetCount(S, 0)
Unselect(S) == MarkRows(S, {})

(* list_update() *)
ListUpdate(S, idx, delta) ==
    LET U == SetCount(S, QueCount(S))
    IN  IF idx # 0 /\ delta = 0 THEN ViewRedraw(U, idx, idx)
        ELSE IF delta # 0 THEN ViewRedraw(U, idx, idx + 100)
        ELSE Invalidate(U)

(* list_setdata(): the entry of a row, and whether it is the one played. *)
ListSetDataWin(S, i) ==
    LET e == QueItem(S, -1, i - 1)
    IN  IF e = Null THEN Row(Blank, FALSE) ELSE Row(e, S.curtrk # Null /\ S.trk[S.curtrk].e = e)
Draw(S) ==
    [S EXCEPT !.rows = [i \in DOMAIN @ |->
                  IF i \in S.dirty THEN [ListSetDataWin(S, i) EXCEPT !.sel = S.rows[i].sel] ELSE @[i]],
              !.dirty = {}]

-----------------------------------------------------------------------------
(* Tabs and lists (gui-main.c). *)

(* gui_newtab(), which selects the tab or not, and FMED_QUE_NEW *)
NewList(S, select) ==
    LET U == NewTab(S) IN QueNew([U EXCEPT !.act = IF select THEN Len(U.tabs) ELSE @], U.ntabs)

(* gui_que_new() *)
GuiQueNew(S) ==
    IF Len(S.tabs) = MaxTabs THEN S
    ELSE LET U == NewList(S, TRUE) IN QueSel(ViewClear(U), U.act - 1)

(* gui_showque(), gui_que_sel() *)
GuiShowQue(S, l) == LET U == QueSel(S, l) IN Invalidate(SetCount(U, QueCount(U)))
GuiQueSel(S) == GuiShowQue(S, S.act - 1)

(* fav_save(): the file is written by a track that starts later. *)
FavSave(S) == [S EXCEPT !.w.favfile = Export(S, S.w.fav + 1, @)]

(* gui_que_del().  The entries of the favourites are freed before the track that
   writes them has read them: whole says whether they are written nevertheless. *)
GuiQueDel(S, whole) ==
    LET sel == S.act - 1
        n == IF sel = 0 THEN 1 ELSE sel - 1
        less(l) == IF l = sel THEN -1 ELSE IF l > sel THEN l - 1 ELSE l
        T == IF sel # S.w.fav THEN S
             ELSE [IF whole THEN FavSave(S) ELSE [S EXCEPT !.w.favfile = Missing] EXCEPT !.dangling = TRUE]
        U == [T EXCEPT !.w.conv = less(@), !.w.fav = less(@)]
        V == IF Len(S.tabs) > 1 THEN GuiShowQue([U EXCEPT !.act = n + 1], n) ELSE GuiQueNew(U)
    IN  QueDel([V EXCEPT !.tabs = RemoveAt(@, sel + 1), !.act = IF @ > sel + 1 THEN @ - 1 ELSE @], sel)

-----------------------------------------------------------------------------
(* What is added to a list (gui.c). *)

(* gui_media_added() *)
GuiMediaAdded(S, e) == IF IsCurList(S, e) THEN ListUpdate(S, QueId(S, e), 1) ELSE S

(* gui_media_add2(): flags of it are "checktype", to expand what is a list of files,
   and "noupdate". *)
GuiMediaAdd2(S, u, l, flags) ==
    IF ~HasList(S, l) \/ S.next > MaxEntries THEN S
    ELSE LET U == QueAdd(S, l, Null, u)
             V == IF "noupdate" \in flags THEN U ELSE GuiMediaAdded(U, S.next)
         IN  IF "checktype" \in flags THEN QueExpand(V, S.next) ELSE V

(* gui_media_open(): of the names that the dialog or what was dropped has left. *)
GuiMediaOpen(S, open) ==
    LET add(V, u) == GuiMediaAdd2(V, u, -1, {"checktype", "noupdate"})
        T == IF open THEN ViewClear(QueClear(S)) ELSE S
        U == ListUpdate(FoldLeft(add, T, S.w.names), 0, 0)
    IN  [IF open THEN QueNext2(U) ELSE U EXCEPT !.w.names = <<>>]

(* gui_loadlists() *)
GuiLoadLists(S) ==
    LET has == {n \in 1 .. Len(S.disk) : \A i \in 1 .. n : S.disk[i] # Missing}
        load(V, n) == GuiMediaAdd2(IF n = 1 THEN V ELSE GuiQueNew(V), Auto(n), -1, {"checktype"})
    IN  FoldLeft(load, S, Ascending(has))

(* FMED_QUE_RM, and gui_que_onchange() with FMED_QUE_ONRM *)
RmShown(S, e) == IF IsCurList(S, e) THEN ListUpdate(QueRm(S, e), QueId(S, e), -1) ELSE QueRm(S, e)

(* gui_filter(): of the list shown, although that a filter is set is one variable. *)
GuiFilter(S) ==
    LET k == S.lists[S.cur]
        hits == SelectSeq(k.ents, LAMBDA e : Contains(k.ndx, e) /\ S.url[e] \in S.w.text.hit)
    IN  IF ~S.w.filter /\ S.w.text.len < 2 THEN S
        ELSE IF S.w.text.len = 0
        THEN ListUpdate([S EXCEPT !.w.filter = FALSE, !.lists[S.cur].filt = Off], 0, 0)
        ELSE ListUpdate([S EXCEPT !.w.filter = TRUE, !.lists[S.cur].filt = <<hits>>], 0, 0)

(* FMED_QUE_SORT: the index is ordered, and the entries are linked in its order. *)
QueSort(S, order) == [S EXCEPT !.lists[S.cur].ndx = order, !.lists[S.cur].ents = order]
Orders(S) == SetToSeqs(ToSet(S.lists[S.cur].ndx))

-----------------------------------------------------------------------------
(* The commands about the selected rows. *)

(* The entries of the selected rows of list l; Null is used as if it were one. *)
SelEnts(S, l) == LET s == Ascending(Selected(S)) IN [i \in DOMAIN s |-> QueItem(S, l, s[i] - 1)]
Broken(S) == [S EXCEPT !.dangling = TRUE]

(* gui_media_remove() *)
GuiMediaRemove(S) ==
    LET s == Ascending(Selected(S))
        rm(V, n) == LET e == QueItem(V, -1, s[n] - n) IN IF e = Null THEN V ELSE QueRm(Act(V, e), e)
    IN  ListUpdate(Unselect(FoldLeft(rm, S, [n \in DOMAIN s |-> n])),
                   IF s = <<>> THEN -1 ELSE s[1] - 1, -Len(s))

(* gui_media_fileop() for A_FILE_DELFILE, gui_files_del(): the files are moved away, all
   or none; or renamed one by one, except those with a number in failed.  What has been
   renamed leaves the list also if another has failed, and that is not shown: stray is a
   history. *)
GuiFilesDel(S, failed) ==
    LET v == SelEnts(S, -1)
        gone == Ascending({i \in DOMAIN v : i \notin failed})
        U == FoldLeft(LAMBDA V, i : QueRm(Act(V, v[i]), v[i]), S, gone)
    IN  IF v = <<>> THEN S
        ELSE IF Contains(v, Null) THEN Broken(S)
        ELSE IF Len(gone) < Len(v) THEN [U EXCEPT !.stray = @ \/ gone # <<>>]
        ELSE ListUpdate(Unselect(U), Min(Selected(S)) - 1, -Len(v))

(* A copy of each selected entry of the tab's list at the end of list l. *)
Copies(S, l) ==
    LET add(V, e) == IF V.next > MaxEntries THEN V ELSE Act(QueAdd(V, l, Null, V.url[e]), e)
        v == SelEnts(S, S.act - 1)
    IN  IF Contains(v, Null) THEN Broken(S) ELSE FoldLeft(add, S, v)

(* gui_tonxtlist() *)
GuiToNxtList(S) ==
    LET U == IF S.act = Len(S.tabs) THEN NewList(S, FALSE) ELSE S
    IN  IF Selected(S) = {} \/ Len(U.tabs) > MaxTabs THEN S ELSE Copies(U, S.act)

(* fav_prep(): the favourites are loaded when they are wanted first. *)
FavPrep(S, select) ==
    IF S.w.fav # -1 \/ Len(S.tabs) = MaxTabs THEN S
    ELSE LET l == Len(S.tabs)
         IN  GuiMediaAdd2(NewList([S EXCEPT !.w.fav = l], select), FavUrl, l, {"checktype"})

(* fav_show(): a tab that is there already is not selected.  fav_add(): what is added to
   the favourites is not shown.  stray is the history of both. *)
FavShow(S) ==
    LET U == FavPrep(S, TRUE)
    IN  IF U.w.fav = -1 THEN S
        ELSE GuiShowQue([U EXCEPT !.stray = @ \/ U.act # U.w.fav + 1], U.w.fav)
FavAdd(S) ==
    LET U == FavPrep(S, FALSE)
    IN  IF Selected(S) = {} \/ U.w.fav = -1 THEN S
        ELSE [Copies(U, U.w.fav) EXCEPT !.stray = @ \/ S.cur = U.w.fav + 1]

(* gui_convert(): the tab of the conversions is made once; the selection is still that
   of the tab before. *)
GuiConvert(S) ==
    LET l == IF S.w.conv = -1 THEN Len(S.tabs) ELSE S.w.conv
        T == IF S.w.conv = -1 THEN NewList([S EXCEPT !.w.conv = l], FALSE) ELSE S
        U == Copies(T, l)
        V == GuiShowQue([U EXCEPT !.act = l + 1], l)
    IN  IF Selected(S) = {} \/ Len(T.tabs) > MaxTabs THEN S
        ELSE IF V.next = S.next THEN V ELSE TrkStart(V, S.next, "convert")

-----------------------------------------------------------------------------
(* Playback and recording. *)

(* PLAY: FMED_QUE_PLAY_EXCL of the focused row *)
PlayFocused(S) ==
    IF S.focused \notin 0 .. Len(S.rows) - 1 THEN S
    ELSE LET e == QueItem(S, -1, S.focused) IN Act(QuePlayExcl(S, e), e)

(* A_PLAY_PAUSE; A_PLAY_STOP, which asks for the other if the track is paused *)
PlayPauseWin(S) ==
    IF S.curtrk = Null THEN QuePlayCmd(S, Null) ELSE [S EXCEPT !.trk[S.curtrk].paused = ~@]
PlayStop(S) ==
    IF S.curtrk # Null /\ S.trk[S.curtrk].paused THEN Post(StopAll(S), "A_PLAY_PAUSE", Null, <<>>)
    ELSE StopAll(S)

(* gtrk_seek(): of the track that is played by now *)
GtrkSeek(S) == IF S.curtrk = Null THEN S ELSE [S EXCEPT !.trk[S.curtrk].seek = TRUE]

(* gui_rec(): the recording is stopped and its file added, or a recording is started.
   Its settings may be wrong ("sets"), or its track is freed at once ("start"), and
   gg->rec_trk is not told. *)
GuiRec(S, cmd, how) ==
    LET P == IF cmd = "PLAYREC" THEN QuePlayCmd(StopAll(S), Null) ELSE S
        rec(U) == IF how = "start" THEN [U EXCEPT !.w.rec = Gone]
                  ELSE IF FreeTracks(U) = {} THEN U
                  ELSE [TrkStart(U, Null, "record") EXCEPT !.w.rec = Min(FreeTracks(U))]
    IN  IF S.w.rec = Gone THEN Broken(S)
        ELSE IF S.w.rec # Null
        THEN [GuiMediaAdd2(S, RecUrl, -1, {"checktype"}) EXCEPT !.trk[S.w.rec].stop = TRUE]
        ELSE IF how = "sets" THEN S ELSE rec(P)

(* QUIT, on the main thread *)
QuitCmd(S) ==
    LET U == ListsSave(S) IN StopAllExit(IF S.w.fav = -1 THEN U ELSE FavSave(U))

(* usrconf_write(), wrec_conf_writeval(), wconvert_conf_writeval(): the lines of the file
   of settings one by one, and then the settings that it has not had. *)
UsrconfWrite(S) ==
    LET line(x) == IF x \in ToSet(Settings) THEN <<x + 10>> ELSE IF x = 0 THEN <<>> ELSE <<x>>
        new == SelectSeq(Settings, LAMBDA k : ~Contains(S.w.conf, k))
    IN  [S EXCEPT !.w.conf = FlattenSeq([i \in DOMAIN @ |-> line(@[i])]) \o [i \in DOMAIN new |-> new[i] + 10]]

-----------------------------------------------------------------------------
(* The threads and the tracks. *)

(* gui_corecmd(), and what a command can meet: c. *)
Commands == {"A_LIST_CLOSE", "A_FILE_DELFILE", "REC", "PLAYREC", "A_LIST_SORTRANDOM"}
Meets(S, k) ==
    CASE k.cmd = "A_LIST_CLOSE" -> IF S.act - 1 = S.w.fav THEN BOOLEAN ELSE {TRUE}
      [] k.cmd = "A_FILE_DELFILE" -> SUBSET (1 .. Cardinality(Selected(S)))
      [] k.cmd \in {"REC", "PLAYREC"} -> {"ok", "sets", "start"}
      [] k.cmd = "A_LIST_SORTRANDOM" -> Orders(S)
      [] k.cmd \notin Commands -> {TRUE}
GuiCoreCmd(S, k, c) ==
    CASE k.cmd = "PLAY" -> PlayFocused(S)
      [] k.cmd = "A_PLAY_PAUSE" -> PlayPauseWin(S)
      [] k.cmd = "A_PLAY_STOP" -> PlayStop(S)
      [] k.cmd = "A_PLAY_NEXT" -> QueNext2(S)
      [] k.cmd = "A_PLAY_SEEK" -> GtrkSeek(S)
      [] k.cmd = "A_LIST_CLEAR" -> ViewClear(QueClear(S))
      [] k.cmd = "A_LIST_NEW" -> GuiQueNew(S)
      [] k.cmd = "A_LIST_CLOSE" -> GuiQueDel(S, c)
      [] k.cmd = "A_LIST_SEL" -> GuiQueSel(S)
      [] k.cmd = "A_LIST_REMOVE" -> GuiMediaRemove(S)
      [] k.cmd = "A_LIST_RMDEAD" ->
            FoldLeft(LAMBDA V, e : IF V.url[e] \in V.scene.dead THEN RmShown(V, e) ELSE V, S, S.lists[S.cur].ents)
      [] k.cmd = "A_LIST_SORTRANDOM" -> ListUpdate(QueSort(S, c), 0, 0)
      [] k.cmd = "A_FILE_DELFILE" -> GuiFilesDel(S, c)
      [] k.cmd = "TO_NXTLIST" -> GuiToNxtList(S)
      [] k.cmd = "FAV_SHOW" -> FavShow(S)
      [] k.cmd = "FAV_ADD" -> FavAdd(S)
      [] k.cmd = "CONVERT" -> GuiConvert(S)
      [] k.cmd \in {"OPEN", "ADD"} -> GuiMediaOpen(S, k.cmd = "OPEN")
      [] k.cmd = "URL_ADD" -> GuiMediaAdd2(S, S.w.url, -1, {})
      [] k.cmd = "FILTER_APPLY" -> GuiFilter(S)
      [] k.cmd \in {"REC", "PLAYREC"} -> GuiRec(S, k.cmd, c)
      [] k.cmd = "LOADLISTS" -> GuiLoadLists(S)
      [] k.cmd = "QUIT" -> QuitCmd(S)
      [] k.cmd = "trkfin" -> Leave(QueOnTrkFin(S, k.n))
WinTask ==
    /\ Idle(g) /\ g.tasks # <<>>
    /\ LET k == g.tasks[1]
       IN  \E c \in Meets(g, k) : g' = GuiCoreCmd([g EXCEPT !.tasks = Tail(@), !.meant = k.v], k, c)
    /\ UNCHANGED left

(* gui_setmeta(): the row of an entry, if its list is shown. *)
GuiSetMeta(S, e) ==
    LET i == QueId(S, e) IN IF QueItem(S, -1, i) = e /\ e # Null THEN ViewRedraw(S, i, i) ELSE S

(* gtrk_open().  The row of the track that was current is not drawn again: ghost is a
   history, that a mark may be left where nothing is played. *)
WinOpen(t) ==
    /\ Live(t) /\ g.trk[t].st = "new" /\ ~g.trk[t].stop
    /\ g' = IF g.trk[t].kind = "convert" THEN [g EXCEPT !.trk[t].st = "open"]
            ELSE [g EXCEPT !.trk[t].st = "open", !.curtrk = t, !.w.ghost = @ \/ g.curtrk # Null]
    /\ UNCHANGED left

(* gtrk_process() with the first data: gui_newtrack(); wmain_convert_progress() *)
WinShow(t) ==
    /\ Live(t) /\ g.trk[t].st = "open" /\ ~g.trk[t].stop
    /\ LET e == g.trk[t].e
           S == [g EXCEPT !.trk[t].st = "shown", !.trk[t].seek = FALSE]
       IN  g' = IF g.trk[t].kind = "play" THEN GuiSetMeta([S EXCEPT !.active = e], e)
                ELSE IF QueId(S, e) = -1 THEN S    \* FF_ASSERT(0); return
                ELSE ViewRedraw(S, QueId(S, e), QueId(S, e))
    /\ UNCHANGED left

(* gtrk_process() later: a seek, the meta data of a stream, the progress of a conversion *)
WinUpdate(t) ==
    /\ Live(t) /\ g.trk[t].st = "shown"
    /\ g' = IF g.trk[t].seek THEN [g EXCEPT !.trk[t].seek = FALSE]
            ELSE IF g.trk[t].kind = "play" THEN GuiSetMeta(g, g.trk[t].e)
            ELSE LET i == QueId(g, g.trk[t].e) IN IF i = -1 THEN g ELSE ViewRedraw(g, i, i)
    /\ UNCHANGED left

(* gtrk_close(): the row is drawn again, and then it is no more the one that is played;
   it may have been drawn in between. *)
WinClose(t) ==
    /\ Live(t) /\ g.trk[t].st # "closed"
    /\ LET S == Post([g EXCEPT !.trk[t].st = "closed"], "trkfin", t, <<>>)
       IN  g' = IF g.trk[t].st = "new" THEN S ELSE Then(GuiSetMeta(S, g.trk[t].e), <<Op("gtrk_closed", t)>>)
    /\ UNCHANGED left
GtrkClosed(S, t) ==
    LET i == QueId(S, S.trk[t].e)
        U == [S EXCEPT !.w.ghost = @ \/ (QueItem(S, -1, i) = S.trk[t].e /\ i + 1 \notin S.dirty)]
    IN  IF S.curtrk = t THEN [U EXCEPT !.curtrk = Null, !.active = Null] ELSE S

(* rec_open(), rec_close() *)
RecOpen(t) ==
    /\ Idle(g) /\ g.trk[t].kind = "record" /\ g.trk[t].st = "new"
    /\ g' = [g EXCEPT !.trk[t].st = "open"]
    /\ UNCHANGED left
RecClose(t) ==
    /\ Idle(g) /\ g.trk[t].kind = "record" /\ g.trk[t].st = "open"
    /\ g' = Leave([g EXCEPT !.trk[t] = NoTrack, !.w.rec = Null])
    /\ UNCHANGED left

(* m3u_process(), m3u_close(), que_trk_close(): the first entry of a list of files comes
   after the list itself, which is then removed, with gui_que_onchange(); of the others
   only the number is told.  stray is a history, that there were rows below.  As on GTK
   a stop does not end the track (TrkExpand). *)
WinExpand(t) ==
    LET e == g.trk[t].e
        c == ContentOf(g, g.url[e])
        S == [g EXCEPT !.trk[t].st = "open"]
        first == QueAdd(S, (CHOOSE l \in ListOf(S, e) : TRUE) - 1, e, c[1])
        below == IsCurList(S, e) /\ Tail(c) # <<>> /\ Last(Index(S, -1)) # e
        done == <<Op("m3u_done", t), Op("expanded", t)>>
    IN  /\ Idle(g) /\ g.trk[t].kind = "expand" /\ g.trk[t].st = "new"
        /\ g' = IF c = Missing THEN Then(S, <<Op("expanded", t)>>)
                ELSE IF c = <<>> \/ ListOf(S, e) = {}
                THEN Then(S, <<Op("m3u_done", t), Op("m3u_rm", e), Op("expanded", t)>>)
                ELSE [Then(RmShown(first, e), <<[f |-> "m3u_rest", prev |-> S.next, urls |-> Tail(c)]>> \o done)
                         EXCEPT !.stray = @ \/ below]
        /\ UNCHANGED left
WinDo(S, op) ==
    CASE op.f = "gtrk_closed" -> GtrkClosed(S, op.n)
      [] op.f = "m3u_rest" -> M3uRest(S, op)
      [] op.f = "m3u_done" -> SetCount(S, QueCount(S))
      [] op.f = "m3u_rm" -> RmShown(S, op.n)
      [] op.f = "expanded" ->
            LET e == S.trk[op.n].e
            IN  Expanded(IF IsCurList(S, e) THEN ListUpdate(S, QueId(S, e), 0) ELSE S, op.n)
WinStep ==
    /\ g.todo # <<>> /\ g.main = "run"
    /\ g' = WinDo([g EXCEPT !.todo = Tail(@)], g.todo[1])
    /\ UNCHANGED left

(* WM_PAINT on the thread of the windows *)
Paint == g.dirty # {} /\ g.quit # "ended" /\ g' = Draw(g) /\ UNCHANGED left

(* gui_stop(): the window is closed after the main loop, and its thread ends. *)
GuiStop == g.main = "exit" /\ g.quit = "asked" /\ g' = [g EXCEPT !.quit = "ended"] /\ UNCHANGED left

-----------------------------------------------------------------------------
(* The user: wmain_action(), which posts most of the commands as they are. *)

Simple == {"A_PLAY_PAUSE", "A_PLAY_STOP", "A_PLAY_NEXT", "A_LIST_CLEAR", "A_LIST_NEW", "A_LIST_CLOSE",
           "A_LIST_SORTRANDOM", "A_LIST_RMDEAD", "FAV_SHOW", "REC", "PLAYREC"}
AboutRows == {"A_LIST_REMOVE", "A_FILE_DELFILE", "TO_NXTLIST", "FAV_ADD", "CONVERT"}
Command(S, cmd) == Post(S, cmd, Null, <<>>)
WmainAction == \E cmd \in Simple \cap g.scene.acts : User(cmd, Command(g, cmd))
WmainRows == \E cmd \in AboutRows \cap g.scene.acts : OnRows(cmd, cmd)

(* The tab is active at once, its list is shown later. *)
TabChanged == \E k \in DOMAIN g.tabs \ {g.act} : User("A_LIST_SEL", Command([g EXCEPT !.act = k], "A_LIST_SEL"))
DoubleClick ==
    \E i \in 0 .. Len(g.rows) - 1 : User("PLAY", Post([g EXCEPT !.focused = i], "PLAY", Null, <<g.rows[i + 1].e>>))

(* gui_media_opendlg(), gui_on_dropfiles(): the names are left to the main thread. *)
OpenDlg ==
    \E cmd \in {"OPEN", "ADD"} \cap g.scene.acts, u \in g.scene.urls :
        User(cmd, Command([g EXCEPT !.w.names = Append(@, u)], cmd))

(* The windows with an entry field: the text is read by the main thread. *)
UrlEntered == \E u \in g.scene.urls : User("URL_ADD", Command([g EXCEPT !.w.url = u], "URL_ADD"))
FilterEntered == \E x \in g.scene.texts : User("FILTER_APPLY", Command([g EXCEPT !.w.text = x], "FILTER_APPLY"))

(* gui_seek() *)
SeekKey == User("A_PLAY_SEEK", IF g.curtrk = Null THEN g ELSE Command(g, "A_PLAY_SEEK"))

(* A_LIST_SORT, on the thread of the windows *)
ColumnClick == \E order \in Orders(g) : User("A_LIST_SORT", Invalidate(QueSort(g, order)))

(* QUIT: the settings are written here, while the main thread goes on. *)
WinQuit ==
    /\ g.quit = "no" /\ (g.scene.patient => Quiet(g))
    /\ g' = [UsrconfWrite(Command(g, "QUIT")) EXCEPT !.quit = "asked"]
    /\ UNCHANGED left

-----------------------------------------------------------------------------
WinNext ==
  /\ g.scene.sys = "win"
  /\ \/ WinTask \/ WinStep \/ Paint \/ GuiStop
     \/ \E t \in Tracks : WinOpen(t) \/ WinShow(t) \/ WinUpdate(t) \/ WinClose(t) \/ WinExpand(t)
                         \/ RecOpen(t) \/ RecClose(t)
     \/ WmainAction \/ WmainRows \/ TabChanged \/ DoubleClick \/ OpenDlg \/ UrlEntered
     \/ FilterEntered \/ SeekKey \/ ColumnClick \/ WinQuit

(* Both threads go on, as on GTK; a recording that is not yet open is opened. *)
WinEnding(t) == g.trk[t] # NoTrack /\ g.trk[t].stop
WinMainGoesOn ==
    \/ WinStep \/ WinTask
    \/ \E t \in Tracks : WinExpand(t) \/ RecOpen(t) \/ (WinEnding(t) /\ (WinClose(t) \/ RecClose(t)))
WinMainCanGoOn ==
    /\ g.main = "run"
    /\ \/ g.todo # <<>> \/ g.tasks # <<>>
       \/ \E t \in Tracks : IF g.trk[t].kind \in {"expand", "record"} /\ g.trk[t].st = "new" THEN TRUE
                            ELSE WinEnding(t) /\ g.trk[t].st # "closed"
WinGuiGoesOn == Paint \/ GuiStop
WinGuiCanGoOn == (g.dirty # {} /\ g.quit # "ended") \/ (g.main = "exit" /\ g.quit = "asked")
=============================================================================
