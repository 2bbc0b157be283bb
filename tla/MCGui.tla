-------------------------------- MODULE MCGui --------------------------------
EXTENDS GuiGtk, GuiWin

MCContents == [u \in {50} |-> <<5, 6>>]
Patient(s, n) == s @@ [patient |-> TRUE, most |-> n]
Hurried(s, n) == s @@ [patient |-> FALSE, most |-> n]

(* GTK *)
Up == [dir |-> TRUE, at |-> 1]
File(u) == [dir |-> FALSE, at |-> u]
Dirs == <<[rows |-> <<Up, [dir |-> TRUE, at |-> 2], File(3)>>, all |-> <<3, 4>>],
          [rows |-> <<Up, File(4)>>, all |-> <<4>>]>>
Scene(acts, urls, lists, disk) ==
    [sys |-> "gtk", acts |-> acts, urls |-> urls, lists |-> lists, dirs |-> Dirs,
     disk |-> disk, load |-> disk # <<>>, favfile |-> Missing, conf |-> <<>>]
Edit == Scene({"add", "remove", "delfile", "clear", "to_next"}, {7, 50}, <<<<1, 2, 3>>, <<4>>>>, <<>>)
Tabs == Scene({"add", "tab", "new", "del"}, {7}, <<<<1, 2>>, <<3>>>>, <<>>)
Playing == Scene({"play", "pause", "stop", "next", "remove"}, {}, <<<<1, 2>>, <<3>>>>, <<>>)
Lists == Scene({"play", "tab", "clear"}, {}, <<<<1, 2>>, <<3>>>>, <<>>)
Explorer == Scene({"tab", "exp", "play", "remove"}, {}, <<<<1>>>>, <<>>)
Converting == Scene({"convert", "tab", "remove"}, {}, <<<<1, 2>>>>, <<>>)
Loading == Scene({"add"}, {7}, <<<<>>>>, <<<<1, 2>>, <<3>>>>)
Editing == {Edit, Tabs, Lists, Explorer, Loading}
Using == {Playing, Converting}

(* Windows *)
Texts == {[len |-> n, hit |-> IF n = 0 THEN {} ELSE {2, 3}] : n \in 0 .. 2}
WinScene(acts, urls, lists, disk) ==
    [sys |-> "win", acts |-> acts, urls |-> urls, lists |-> lists, disk |-> disk, load |-> disk # <<>>,
     favfile |-> <<6>>, conf |-> <<21, 2, 0, 22>>, texts |-> Texts, dead |-> {2}]
WinEdit == WinScene({"ADD", "OPEN", "A_LIST_REMOVE", "A_FILE_DELFILE", "A_LIST_RMDEAD", "TO_NXTLIST"},
                    {7, 50}, <<<<1, 2, 3>>, <<4>>>>, <<>>)
WinTabs == WinScene({"URL_ADD", "A_LIST_NEW", "A_LIST_CLOSE", "A_LIST_SEL", "FAV_SHOW", "FAV_ADD", "CONVERT"},
                    {7}, <<<<1, 2>>>>, <<>>)
WinPlaying == WinScene({"PLAY", "A_PLAY_PAUSE", "A_PLAY_STOP", "A_PLAY_NEXT", "A_PLAY_SEEK", "A_LIST_REMOVE",
                        "A_LIST_CLEAR"}, {}, <<<<1, 2>>, <<3>>>>, <<>>)
WinFilter == WinScene({"FILTER_APPLY", "A_LIST_SORT", "A_LIST_SORTRANDOM", "A_LIST_REMOVE", "A_LIST_SEL"},
                      {7}, <<<<1, 2, 3>>, <<2>>>>, <<>>)
WinRec == WinScene({"REC", "PLAYREC", "A_PLAY_STOP"}, {}, <<<<1>>>>, <<>>)
WinLoading == WinScene({"ADD"}, {7}, <<<<>>>>, <<<<1, 2>>, <<3>>>>)
Win == {WinEdit, WinTabs, WinPlaying, WinFilter, WinRec, WinLoading}

MCScenes == {Patient(s, 3) : s \in Editing} \cup {Patient(s, 2) : s \in Using \cup Win}
            \cup {Hurried(s, 1) : s \in Editing \cup Using \cup Win}

Next == GtkNext \/ WinNext
Fairness ==
    /\ []<>~(IF g.scene.sys = "gtk" THEN MainCanGoOn ELSE WinMainCanGoOn)
        \/ []<><<IF g.scene.sys = "gtk" THEN MainGoesOn ELSE WinMainGoesOn>>_vars
    /\ []<>~(IF g.scene.sys = "gtk" THEN GuiCanGoOn ELSE WinGuiCanGoOn)
        \/ []<><<IF g.scene.sys = "gtk" THEN GuiGoesOn ELSE WinGuiGoesOn>>_vars
Spec == Init /\ [][Next]_vars /\ Fairness
=============================================================================
