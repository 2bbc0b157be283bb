------------------------------- MODULE GuiGtk -------------------------------
(***************************************************************************)
(* The graphical interface on GTK: src/gui-gtk, and the messages between   *)
(* threads of src/util/gui-gtk/ffgui-gtk.c.                                *)
(*   - The view holds a copy of what it shows: a row is filled by          *)
(*     list_dispinfo() when it is inserted or drawn again.  Tabs and rows  *)
(*     belong to the thread of the windows, the lists to the main thread,  *)
(*     and the two agree by index only.                                    *)
(*   - A message that waits is ffui_send(), or ffui_thd_post() with        *)
(*     FFUI_POST_WAIT.  The first is left out once the loop is told to     *)
(*     quit; the second is not.                                            *)
(* Windows that show one entry (meta-info.h, rename.h) and the settings in *)
(* windows of their own do not take part: see the README.                  *)
(***************************************************************************)
EXTENDS Gui

-----------------------------------------------------------------------------
(* Messages (ffgui-gtk.c). *)

Msg(m, waits) == [m |-> m, waits |-> waits]

(* Slip of post_locked(): nobody looks at quit. *)
FfuiSendAlways(S, m) == [S EXCEPT !.msgs = Append(@, Msg(m, TRUE)), !.wait = TRUE, !.idx = Unset]

(* ffui_send(), post_locked() *)
FfuiSend(S, m) ==
    IF S.quit # "no" THEN [S EXCEPT !.idx = Unset, !.sel = <<>>]
    ELSE [S EXCEPT !.msgs = Append(@, Msg(m, TRUE)), !.wait = TRUE, !.idx = Unset]

(* ffui_post() *)
FfuiPost(S, m) == IF S.quit # "no" THEN S ELSE [S EXCEPT !.msgs = Append(@, Msg(m, FALSE))]

(* ffui_thd_post(), without FFUI_POST_WAIT and with it *)
ThdPost(S, m) == [S EXCEPT !.msgs = Append(@, Msg(m, FALSE))]
ThdPostWait(S, m) == [S EXCEPT !.msgs = Append(@, Msg(m, TRUE)), !.wait = TRUE]

(* ffui_send_tab_active(): what follows is told whether it is the explorer. *)
AskTab(S, ops) == Then(FfuiSend(S, Op("tab_active", Null)), ops)
OnExplorer(S, junk) == IF S.idx = Unset THEN junk = 0 ELSE S.idx = 0
TabIndex(S, junk) == IF S.idx = Unset THEN junk ELSE S.idx

(* list_dispinfo(), exp_list_dispinfo(): i is counted from 0. *)
Disp(S, i) ==
    IF S.act = 0 THEN Row(IF i < Len(Files(S)) THEN FileRow(S.path, i + 1) ELSE Blank, FALSE)
    ELSE LET e == QueItem(S, -1, i)
         IN  IF e = Null THEN Row(Blank, FALSE) ELSE Row(e, e = S.active)

(* ffui_view_setdata(): delta rows are inserted at first; one is taken out; with
   0 the row is drawn again, and if it is the one after the last, it is added:
   stray is a history, that this has happened. *)
ViewSetData(S, first, delta) ==
    LET n == Len(S.rows)
        new(k) == [i \in 1 .. k |-> Disp(S, first + i - 1)]
    IN  IF first < 0 \/ first > n THEN S
        ELSE IF delta > 0
        THEN [S EXCEPT !.rows = SubSeq(@, 1, first) \o new(delta) \o SubSeq(@, first + 1, n)]
        ELSE IF delta < 0 THEN IF first = n THEN S ELSE [S EXCEPT !.rows = RemoveAt(@, first + 1)]
        ELSE IF n = 0 THEN S
        ELSE IF first = n THEN [S EXCEPT !.rows = @ \o new(1), !.stray = TRUE]
        ELSE [S EXCEPT !.rows[first + 1] = [Disp(S, first) EXCEPT !.sel = S.rows[first + 1].sel]]

(* list_setdata_scroll() *)
ListSetDataScroll(S, n) == ViewSetData([S EXCEPT !.rows = <<>>], 0, n)

(* _ffui_send_handler(), _ffui_thd_func() *)
Handle(S, m) ==
    CASE m.f = "tab_active" -> [S EXCEPT !.idx = S.act]
      [] m.f = "tab_count" -> [S EXCEPT !.idx = Len(S.tabs) + 1]
      [] m.f = "tab_ins" -> NewTab(S)
      [] m.f = "tab_set" -> IF m.n \in 0 .. Len(S.tabs) THEN [S EXCEPT !.act = m.n] ELSE S
      [] m.f = "getsel" -> [S EXCEPT !.sel = Ascending(Selected(S))]
      [] m.f = "clear" -> [S EXCEPT !.rows = <<>>]
      [] m.f = "setdata" -> ViewSetData(S, m.i, m.delta)
      [] m.f = "list_setdata" -> ListSetDataScroll(S, m.n)
      [] m.f = "exp_setdata" -> ViewSetData(S, 0, Len(Files(S)))
      [] m.f = "quit" -> [S EXCEPT !.quit = "leaving"]

-----------------------------------------------------------------------------
(* gui-main.c, on the main thread. *)

SetData(i, delta) == [f |-> "setdata", i |-> i, delta |-> delta]

(* wmain_ent_added(), wmain_ent_removed(), wmain_list_set(), wmain_list_clear() *)
WmainEntAdded(S, i) == AskTab(S, <<For("send_list", SetData(i, 1))>>)
WmainEntRemoved(S, i) == AskTab(S, <<For("send_list", SetData(i, -1))>>)
WmainListSet(S, n) == AskTab(S, <<For("wait_list", Op("list_setdata", n))>>)
WmainListClear(S) == AskTab(S, <<For("post_list", Op("clear", Null))>>)

(* gui_list_sel() *)
GuiListSel(S, l) == WmainListSet(QueSel(S, l), QueCount(QueSel(S, l)))

(* Row i is drawn again, whatever list the view shows. *)
Redraw(S, i) == IF i = -1 THEN S ELSE FfuiSend(S, SetData(i, 0))

(* The entry shown as played is used after it has been freed: dangling is a history.
   The track may have left w->active_qent behind, see gtrk_close(). *)
Use(S, e) == IF e # Null /\ Freed(S, e) THEN [S EXCEPT !.dangling = TRUE] ELSE S

(* wmain_newtrack(): of a conversion, and of what is played. *)
WmainNewTrack(S, t) ==
    LET e == S.trk[t].e
    IN  IF S.trk[t].kind = "convert" THEN Redraw(S, QueId(S, e))
        ELSE LET U == [Use(S, S.active) EXCEPT !.active = e]
             IN  Redraw(Then(U, <<Op("redraw", e)>>), QueId(S, S.active))

(* wmain_fintrack() *)
WmainFinTrack(S) == Redraw([Use(S, S.active) EXCEPT !.active = Null], QueId(S, S.active))

(* gtrk_open(), gtrk_process() with the first data, and at each second, and
   gtrk_close() *)
GtrkOpen(S, t) ==
    [S EXCEPT !.trk[t].st = "open", !.curtrk = IF S.trk[t].kind = "play" THEN t ELSE @]
GtrkShow(S, t) == WmainNewTrack([S EXCEPT !.trk[t].st = "shown"], t)
GtrkUpdate(S, t) ==
    IF S.trk[t].kind = "play" THEN S
    ELSE IF QueId(S, S.trk[t].e) = -1 THEN S   \* FF_ASSERT(0); return
    ELSE FfuiPost(S, SetData(QueId(S, S.trk[t].e), 0))
GtrkClose(S, t) ==
    LET U == Post([S EXCEPT !.trk[t].st = "closed"], "trkfin", t, <<>>)
    IN  IF S.trk[t].kind = "play" /\ S.curtrk = t
        THEN WmainFinTrack([U EXCEPT !.curtrk = Null]) ELSE U

-----------------------------------------------------------------------------
(* gui.c: the user's commands on the main thread. *)

(* list_add(): l is -1 for the list shown. *)
ListAdd(S, u, l) ==
    IF ~HasList(S, l) \/ S.next > MaxEntries THEN S
    ELSE LET U == Then(QueAdd(S, l, Null, u), <<Op("expand", S.next)>>)
         IN  IF l = -1 THEN WmainEntAdded(U, QueId(U, S.next)) ELSE U

(* urls_add_play() *)
UrlsAddPlay(S, v, play) ==
    LET n == QueCount(S)
        add == [i \in 1 .. Len(v) |-> Op("list_add", v[i])]
    IN  Then([S EXCEPT !.meant = IF v = <<>> THEN <<>> ELSE <<S.next + play>>], add \o IF play < 0 THEN <<>> ELSE <<Op("focus", n + play), Op("play", Null)>>)

(* FMED_QUE_PLAY_EXCL of the focused item *)
APlay(S) ==
    LET e == QueItem(S, -1, S.focused) IN Act(QuePlayExcl(S, e), e)

(* A_PLAYPAUSE: t is curtrk as it was at the time of the event. *)
PlayPause(S, t) ==
    IF t # S.curtrk THEN S
    ELSE IF t = Null THEN QuePlayCmd(S, Null)
    ELSE [S EXCEPT !.trk[t].paused = ~@]

(* Slip of list_rmitems(): the indexes are not moved. *)
RmItemsUnmoved(S, n) ==
    IF S.sel = <<>> THEN S
    ELSE LET i == S.sel[1] - 1
             e == QueItem(S, -1, i)
             U == [S EXCEPT !.sel = Tail(@)]
         IN  WmainEntRemoved(Then(IF e = Null THEN U ELSE Act(QueRm(U, e), e),
                                  <<Op("rm_items", n + 1)>>), i)

(* list_rmitems(), file_del(): the next of the selected items; n are gone. *)
RmItems(S, n) ==
    IF S.sel = <<>> THEN S
    ELSE LET i == S.sel[1] - 1 - n
             e == QueItem(S, -1, i)
             U == [S EXCEPT !.sel = Tail(@)]
         IN  WmainEntRemoved(Then(IF e = Null THEN U ELSE Act(QueRm(U, e), e),
                                  <<Op("rm_items", n + 1)>>), i)

(* wmain_list_getsel_send() and what is done with it. *)
GetSel(S, op) == AskTab(S, <<Op("getsel", Null), op>>)

(* file_del(): the files go first, with the names at the selected indexes. *)
FileDel(S) ==
    LET e(i) == QueItem(S, -1, S.sel[i] - 1)
        U == FoldLeft(Act, S, [i \in 1 .. Len(S.sel) |-> e(i)])
    IN  Then(U, <<Op("rm_items", 0)>>)

(* list_to_next(): up to the selection, and from there; l is the list. *)
ListToNext(S, l) ==
    IF l < 0 THEN S
    ELSE LET rest == <<Op("to_next", l)>>
         IN  IF l + 1 = Len(S.lists)
             THEN IF Len(S.tabs) = MaxTabs THEN S
                  ELSE FfuiSend(Then(S, <<Op("que_new", S.ntabs + 1), For("ask_sel", rest[1])>>), Op("tab_ins", Null))
             ELSE GetSel(S, rest[1])
QEntDup(S, l, i) ==
    LET e == QueItem(S, l, i)
    IN  IF e = Null THEN Act(S, e)
        ELSE IF ~HasList(S, l + 1) \/ S.next > MaxEntries THEN S
        ELSE Act(QueAdd(S, l + 1, Null, S.url[e]), e)
DupAll(S, l) == FoldLeft(LAMBDA V, i : QEntDup(V, l, i - 1), S, S.sel)

(* convert__tcore(): the tab and the list, the entries, and the first of them. *)
ConvertTcore(S, l) ==
    IF l < 0 \/ Len(S.tabs) = MaxTabs THEN S
    ELSE FfuiSend(Then(S, <<Op("conv_count", l)>>), Op("tab_ins", Null))
ConvertAdd(S, l, itab) ==
    LET n == S.next
        add(V, i) == LET e == QueItem(S, l, i - 1)
                     IN  IF e = Null THEN Act(V, e)
                         ELSE IF ~HasList(V, itab) \/ V.next > MaxEntries THEN V
                         ELSE Act(QueAdd(V, itab, Null, V.url[e]), e)
        U == FoldLeft(add, S, Ascending(Selected(S)))
    IN  FfuiSend(Then(U, <<Op("list_sel", itab)>> \o IF U.next = n THEN <<>> ELSE <<Op("xplay", n)>>),
                 Op("tab_set", itab + 1))

(* lists_load(): from file n on, until one is missing; the others than the first
   get a list and a tab. *)
ListsLoad(S, n) ==
    IF FileAt(S, n) = Missing THEN S
    ELSE LET rest == <<Op("load_add", n), Op("load", n + 1)>>
         IN  IF n = 1 THEN Then(S, rest)
             ELSE FfuiSend(Then(QueNew(S, S.ntabs + 1), rest), Op("tab_ins", Null))

(* corecmd_run() *)
CoreCmdRun(S, k) ==
    CASE k.cmd = "A_PLAY" -> APlay(S)
      [] k.cmd = "A_PLAYPAUSE" -> PlayPause(S, k.n)
      [] k.cmd = "A_STOP" -> StopAll(S)
      [] k.cmd = "A_NEXT" -> QueNext2(S)
      [] k.cmd = "A_LIST_NEW" -> QueSel(QueNew(S, k.v[1]), k.n)
      [] k.cmd = "A_LIST_DEL" -> QueDel(S, k.n)
      [] k.cmd = "A_LIST_SEL" -> GuiListSel(S, k.n)
      [] k.cmd = "A_LIST_REMOVE" -> GetSel(S, Op("rm_items", 0))
      [] k.cmd = "A_FILE_DELFILE" -> GetSel(S, Op("file_del", Null))
      [] k.cmd = "A_LIST_CLEAR" -> WmainListClear(QueClear(S))
      [] k.cmd = "A_LIST_TO_NEXT" -> AskTab(S, <<Op("to_next_tab", Null)>>)
      [] k.cmd = "A_CONVERT" -> AskTab(S, <<Op("conv_tab", Null)>>)
      [] k.cmd = "A_URL_ADD" -> ListAdd(S, k.n, -1)
      [] k.cmd = "A_URLS_ADD_PLAY" -> UrlsAddPlay(S, k.v, k.n)
      [] k.cmd = "LOADLISTS" -> ListsLoad(S, 1)
      [] k.cmd = "A_ONCLOSE" -> StopAllExit(ListsSave(S))
      [] k.cmd = "trkfin" -> Leave(QueOnTrkFin(S, k.n))

(* The entries of a playlist file replace its own: m3u_add(), m3u_process().  The
   view is told of them at the end, whatever list they belong to. *)
M3uAdd(S, t) ==
    LET e == S.trk[t].e
        c == ContentOf(S, S.url[e])
    IN  IF c = Missing THEN Then(S, <<Op("redraw", e), Op("expanded", t)>>)
        ELSE IF c = <<>> \/ ListOf(S, e) = {}
        THEN Then(S, <<Op("m3u_done", t), Op("m3u_rm", e), Op("expanded", t)>>)
        ELSE LET U == QueAdd(S, (CHOOSE l \in ListOf(S, e) : TRUE) - 1, e, c[1])
                 W == Then(QueRm(U, e), <<[f |-> "m3u_rest", prev |-> S.next, urls |-> Tail(c)],
                                          Op("m3u_done", t), Op("expanded", t)>>)
             IN  IF IsCurList(U, e) THEN WmainEntRemoved(W, QueId(U, e)) ELSE W
M3uRm(S, e) ==
    IF IsCurList(S, e) THEN WmainEntRemoved(QueRm(S, e), QueId(S, e)) ELSE QueRm(S, e)

(* The next piece of what the main thread is doing; junk is the value of a variable
   that nobody has assigned. *)
Do(S, op, junk) ==
    LET unless(T) == IF OnExplorer(S, junk) THEN S ELSE T
    IN  CASE op.f = "send_list" -> unless(FfuiSend(S, op.op))
          [] op.f = "wait_list" -> unless(ThdPostWait(S, op.op))
          [] op.f = "post_list" -> unless(FfuiPost(S, op.op))
          [] op.f = "getsel" -> IF OnExplorer(S, junk) THEN [S EXCEPT !.sel = <<>>] ELSE FfuiSend(S, op)
          [] op.f = "ask_sel" -> GetSel(S, op.op)
          [] op.f = "redraw" -> Redraw(S, QueId(S, op.n))
          [] op.f = "expand" -> QueExpand(S, op.n)
          [] op.f = "m3u_rest" -> M3uRest(S, op)
          [] op.f = "m3u_rm" -> M3uRm(S, op.n)
          [] op.f = "m3u_done" -> WmainListSet(S, QueCount(S))
          [] op.f = "expanded" -> Expanded(S, op.n)
          [] op.f = "list_add" -> ListAdd(S, op.n, -1)
          [] op.f = "focus" -> [S EXCEPT !.focused = op.n]
          [] op.f = "play" -> APlay(S)
          [] op.f = "rm_items" -> RmItems(S, op.n)
          [] op.f = "file_del" -> FileDel(S)
          [] op.f = "to_next_tab" -> ListToNext(S, TabIndex(S, junk) - 1)
          [] op.f = "que_new" -> QueNew(S, op.n)
          [] op.f = "to_next" -> DupAll(S, op.n)
          [] op.f = "conv_tab" -> ConvertTcore(S, TabIndex(S, junk) - 1)
          [] op.f = "conv_count" -> FfuiSend(Then(S, <<Op("conv_new", op.n)>>), Op("tab_count", Null))
          [] op.f = "conv_new" ->
                LET itab == TabIndex(S, junk) - 2
                IN  AskTab(QueNew(S, S.ntabs), <<[f |-> "conv_add", l |-> op.n, itab |-> itab]>>)
          [] op.f = "conv_add" ->
                IF OnExplorer(S, junk) THEN ConvertAdd([S EXCEPT !.rows = <<>>], op.l, op.itab)
                ELSE ConvertAdd(S, op.l, op.itab)
          [] op.f = "list_sel" -> GuiListSel(S, op.n)
          [] op.f = "xplay" -> TrkStart(S, op.n, "convert")
          [] op.f = "load_add" -> ListAdd(S, Auto(op.n), IF op.n = 1 THEN -1 ELSE op.n - 1)
          [] op.f = "load" -> ListsLoad(S, op.n)

-----------------------------------------------------------------------------
(* The threads and the tracks. *)

MainStep ==
    /\ g.todo # <<>> /\ ~g.wait /\ g.main = "run"
    /\ \E junk \in 0 .. 1 : g' = Do([g EXCEPT !.todo = Tail(@)], g.todo[1], junk)
    /\ UNCHANGED left

MainTask ==
    /\ Idle(g) /\ g.tasks # <<>>
    /\ g' = CoreCmdRun([g EXCEPT !.tasks = Tail(@), !.meant = g.tasks[1].v], g.tasks[1])
    /\ UNCHANGED left

(* The loop of the windows: ffui_run().  What is left when it has been told to quit
   may be handled or not. *)
GuiMsg ==
    /\ g.msgs # <<>> /\ g.quit # "ended"
    /\ LET m == g.msgs[1]
       IN  g' = [Handle([g EXCEPT !.msgs = Tail(@)], m.m) EXCEPT !.wait = @ /\ ~m.waits]
    /\ UNCHANGED left

(* gui_worker() after ffui_run() *)
GuiEnd ==
    /\ g.quit = "leaving"
    /\ g' = Post([g EXCEPT !.quit = "ended"], "A_ONCLOSE", Null, <<>>)
    /\ UNCHANGED left

TrkOpen(t) == Live(t) /\ g.trk[t].st = "new" /\ ~g.trk[t].stop /\ g' = GtrkOpen(g, t) /\ UNCHANGED left
TrkShow(t) == Live(t) /\ g.trk[t].st = "open" /\ ~g.trk[t].stop /\ g' = GtrkShow(g, t) /\ UNCHANGED left
TrkUpdate(t) ==
    /\ Live(t) /\ g.trk[t].kind = "convert" /\ g.trk[t].st = "shown" /\ g.msgs = <<>>
    /\ g' = GtrkUpdate(g, t)
    /\ g' # g                                \* bound: one update at a time
    /\ UNCHANGED left
(* The track ends, fails or has been stopped; one that did not get as far as its
   filter has nothing to show. *)
TrkClose(t) ==
    /\ Live(t) /\ g.trk[t].st # "closed"
    /\ g' = IF g.trk[t].st = "new" THEN Post([g EXCEPT !.trk[t].st = "closed"], "trkfin", t, <<>>)
            ELSE GtrkClose(g, t)
    /\ UNCHANGED left
(* A stop does not end this one: trk_onstop() finishes only a track that is not active,
   trk_process() closes the filters of those that play, and file and m3u readers go on. *)
TrkExpand(t) ==
    /\ Idle(g) /\ g.trk[t].kind = "expand" /\ g.trk[t].st = "new"
    /\ g' = M3uAdd([g EXCEPT !.trk[t].st = "open"], t)
    /\ UNCHANGED left

-----------------------------------------------------------------------------
(* The user: wmain_action(), on the thread of the windows. *)

ListTab(S, k) == k - 1                      \* the list of a tab: less the explorer's
(* A_LIST_ADDFILE, A_LIST_ADDURL, A_ONDROPFILE *)
ListAddFile == \E u \in g.scene.urls : User("add", Post(g, "A_URL_ADD", u, <<>>))

(* The commands about the selected rows. *)
ListRemove == OnRows("remove", "A_LIST_REMOVE")
FileDelFile == OnRows("delfile", "A_FILE_DELFILE")
ToNext == TabOf(g) # 0 /\ OnRows("to_next", "A_LIST_TO_NEXT")
Convert == OnRows("convert", "A_CONVERT")
ListClear == User("clear", Post(g, "A_LIST_CLEAR", Null, <<>>))

(* A_LIST_SEL; exp_list_show() *)
ListSel ==
    \E k \in (0 .. Len(g.tabs)) \ {g.act} :
        LET S == [g EXCEPT !.rows = <<>>, !.act = k]
        IN  User("tab", IF k = 0 THEN ThdPost(S, Op("exp_setdata", Null))
                        ELSE Post(S, "A_LIST_SEL", ListTab(S, k), <<>>))

(* list_new() *)
MoreTabs(S) ==
    LET T == NewTab(S)
    IN  Post([T EXCEPT !.act = Len(T.tabs), !.rows = <<>>], "A_LIST_NEW",
             ListTab(T, Len(T.tabs)), <<T.ntabs>>)
ListNew == Len(g.tabs) < MaxTabs /\ User("new", MoreTabs(g))

(* Slip of list_del(): the list of the tab that is shown next is deleted. *)
TabDelNext(S, i) == Post([S EXCEPT !.tabs = RemoveAt(@, i), !.act = IF @ > i THEN @ - 1 ELSE @],
                         "A_LIST_DEL", ListTab(S, S.act), <<>>)

(* list_del() *)
TabDel(S, i) == Post([S EXCEPT !.tabs = RemoveAt(@, i), !.act = IF @ > i THEN @ - 1 ELSE @],
                     "A_LIST_DEL", ListTab(S, i), <<>>)
ListDel ==
    LET i == g.act
        n == IF i = 1 THEN i + 1 ELSE i - 1
    IN  /\ i # 0
        /\ User("del", TabDel(IF Len(g.tabs) = 1 THEN MoreTabs(g)
                              ELSE Post([g EXCEPT !.act = n, !.rows = <<>>], "A_LIST_SEL", ListTab(g, n), <<>>), i))

(* A_PLAY of row i, counted from 0; exp_list_action() *)
AddPlay(S, v, play) == Post(S, "A_URLS_ADD_PLAY", play, v)
ExpListAction(S, f) ==
    IF f.dir THEN ThdPost([S EXCEPT !.path = f.at, !.rows = <<>>], Op("exp_setdata", Null))
    ELSE AddPlay(S, <<f.at>>, 0)
Play ==
    \E i \in 0 .. Len(g.rows) - 1 :
        LET S == [g EXCEPT !.focused = i]
        IN  User("play", IF g.act # 0 THEN Post(S, "A_PLAY", Null, <<g.rows[i + 1].e>>)
                         ELSE IF i >= Len(Files(g)) THEN S
                         ELSE ExpListAction(S, Files(g)[i + 1]))

(* exp_action(), _exp_addall(): the files of a directory and of those in it. *)
ExpAction ==
    \E X \in SUBSET (1 .. Len(g.rows)) \ {{}}, play \in {-1, 0} :
        LET add(v, i) == IF i > Len(Files(g)) THEN v
                         ELSE LET f == Files(g)[i]
                              IN  v \o IF i = 1 THEN <<>>
                                       ELSE IF f.dir THEN g.scene.dirs[f.at].all ELSE <<f.at>>
            v == FoldLeft(add, <<>>, Ascending(X))
        IN  g.act = 0 /\ User("exp", AddPlay(MarkRows(g, X), SortSeq(v, <), play))

PlayPauseKey == User("pause", Post(g, "A_PLAYPAUSE", g.curtrk, <<>>))
Stop == User("stop", Post(g, "A_STOP", Null, <<>>))
Next2 == User("next", Post(g, "A_NEXT", Null, <<>>))

(* A_ONCLOSE; ffui_post() with FFUI_QUITLOOP *)
Close ==
    /\ g.quit = "no" /\ (g.scene.patient => Quiet(g))
    /\ g' = [g EXCEPT !.msgs = Append(@, Msg(Op("quit", Null), FALSE)), !.quit = "asked"]
    /\ UNCHANGED left

-----------------------------------------------------------------------------
GtkNext ==
  /\ g.scene.sys = "gtk"
  /\ \/ MainStep \/ MainTask \/ GuiMsg \/ GuiEnd
     \/ \E t \in Tracks : TrkOpen(t) \/ TrkShow(t) \/ TrkUpdate(t) \/ TrkClose(t) \/ TrkExpand(t)
     \/ ListAddFile \/ ListRemove \/ FileDelFile \/ ToNext \/ Convert \/ ListClear
     \/ ListSel \/ ListNew \/ ListDel \/ Play \/ ExpAction \/ PlayPauseKey \/ Stop \/ Next2 \/ Close

(* Both threads go on: the main thread with its tasks, with the tracks that have been
   stopped and with the files that are read.  The weak fairness of each is written with
   the state predicate that says when it can go on, which is cheaper than ENABLED. *)
Ending(t) == g.trk[t] # NoTrack /\ g.trk[t].stop
MainGoesOn == MainStep \/ MainTask \/ \E t \in Tracks : TrkExpand(t) \/ (Ending(t) /\ TrkClose(t))
MainCanGoOn ==
    /\ g.main = "run" /\ ~g.wait
    /\ \/ g.todo # <<>> \/ g.tasks # <<>>
       \/ \E t \in Tracks : IF g.trk[t].kind = "expand" THEN g.trk[t].st = "new"
                            ELSE Ending(t) /\ g.trk[t].st # "closed"
GuiGoesOn == GuiMsg \/ GuiEnd
GuiCanGoOn == g.quit = "leaving" \/ (g.msgs # <<>> /\ g.quit # "ended")
=============================================================================
