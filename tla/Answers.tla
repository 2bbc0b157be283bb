------------------------------ MODULE Answers ------------------------------
(***************************************************************************)
(* What a filter of a track answers when trk_process() calls it: the return *)
(* code (enum FMED_R), how much it gives out, what it leaves of its input,  *)
(* what it keeps in buffers of its own, and the filters it adds to the      *)
(* chain.  The modules AudioFilters, Formats and Codecs have an operator    *)
(* for each filter, the set of its possible answers.  Audio data is counted *)
(* in units; headers, tags and other blocks that no unit comes out of are   *)
(* empty output, and what the samples, frames and packets contain is left   *)
(* out.                                                                     *)
(*                                                                         *)
(* A filter's operator gets the filter, f: its input f.in (d->datalen),     *)
(* f.newdata (FMED_FFWD), what it has buffered, f.held, and its own state,  *)
(* f.step; and what it reads from the track, t: t.first (FMED_FLAST),       *)
(* t.stop (FMED_FSTOP), t.left (units that the source can still give) and   *)
(* the options of the track t.c (see TrackOpen).                            *)
(***************************************************************************)
EXTENDS Naturals, Sequences

Has(f) == f.in + f.held
Set(c, flag) == flag \in c.flags

(* The answer that changes nothing: the input is left where it is. *)
Says(f, code) ==
    [code |-> code, out |-> 0, in |-> f.in, held |-> f.held, step |-> f.step,
     lost |-> 0, add |-> [place |-> "last", kinds |-> <<>>], opened |-> "yes"]

(* open() returns FMED_FILT_SKIP, or NULL. *)
Skipped(f) == [Says(f, "DONE") EXCEPT !.out = f.in, !.in = 0, !.opened = "skip"]
NotOpened(f) == [Says(f, "FIN") EXCEPT !.opened = "null"]

(* The input goes out as it is. *)
Passes(f, code) == [Says(f, code) EXCEPT !.out = f.in, !.in = 0]
(* The input goes into the filter's own buffer. *)
Takes(f, code) == [Says(f, code) EXCEPT !.in = 0, !.held = f.in + f.held]
(* The same, and n units come out. *)
Gives(f, code, n) == [Takes(f, code) EXCEPT !.out = n, !.held = f.in + f.held - n]
(* One unit comes out, of the rest the library takes as much as it likes now. *)
GivesOne(f, code) ==
    {[Says(f, code) EXCEPT !.out = 1, !.in = rest, !.held = Has(f) - 1 - rest]
        : rest \in {r \in 0 .. f.in : r < Has(f)}}
(* What the filter has and does not give out is given up. *)
Cuts(f, code, n) ==
    [Says(f, code) EXCEPT !.out = n, !.in = 0, !.held = 0, !.lost = f.in + f.held - n]
Drops(f, code) == Cuts(f, code, 0)

Then(a, step) == [a EXCEPT !.step = step]

(* FMED_TRACK_FILT_ADD, _ADDPREV, _ADDLAST: filters put directly after this one
   (so the last one added comes first), directly before it, or at the end. *)
Adding(a, place, kinds) ==
    [a EXCEPT !.add = [place |-> place, kinds |-> kinds]]

(* Only what the reader learns from the headers is wanted: input_info. *)
Info(c) == Set(c, "info") \/ c.type \in {"METAINFO", "EXPAND"}
(* stream_copy has an effect: the reader gives packets instead of adding a decoder. *)
Copies(c) ==
    /\ Set(c, "copy")
    /\ c.in \in {"mp3", "mp4", "aac", "mkv"} \/ (c.in = "ogg" /\ c.codec # "flac.decode")

OnLast(t, codeLast, code) == IF t.first THEN codeLast ELSE code

-----------------------------------------------------------------------------
(* A filter that turns packets into other packets and keeps what does not make
   up a whole one: it asks for more, gives out a unit at a time, and when its
   input has ended (FMED_FLAST) what is left, and then `end'. *)
Buffered(f, t, end) ==
    IF Has(f) = 0
    THEN {IF t.first THEN Says(f, end) ELSE Says(f, "MORE")}
    ELSE {Gives(f, "DATA", 1)} \cup (IF t.first THEN {} ELSE {Takes(f, "MORE")})

(* The last of the output comes with the end. *)
GivesRest(f, t, code) == IF t.first THEN {Gives(f, code, Has(f))} ELSE {}

(* The input is broken, a file cannot be read or written, a device has failed,
   there is no memory: chosen for the whole track (the option "faulty"). *)
Fails(f, t) ==
    IF Set(t.c, "faulty")
    THEN {Says(f, "ERR")} \cup (IF f.ctx THEN {} ELSE {NotOpened(f)})
    ELSE {}
(* The input is broken, and the filter goes on with the next. *)
Warns(f, t, code) ==
    IF Set(t.c, "faulty") THEN {[Says(f, code) EXCEPT !.in = 0, !.lost = f.in]} ELSE {}
=============================================================================
