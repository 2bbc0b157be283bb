-------------------------- MODULE NetStreamProofs --------------------------
(***************************************************************************)
(* Safety of a stream from the network, for responses of any length, cut   *)
(* in any way, with titles anywhere, any number of addresses, of           *)
(* reconnections, of redirects and of copies.                              *)
(***************************************************************************)
EXTENDS NetStream, SequenceTheorems, WellFoundedInduction, TLAPS

(* s is what comes after the first n units. *)
Counts(s, n) == \A i \in 1 .. Len(s) : s[i] = n + i

InBody == {"RESPBODY", "RECVBODY"}
Gone == {"ERR", "NOOP"}

(* The client that runs waits for nothing; the one that waits has its socket open and
   a timer, unless the timer has given up. *)
ClientOK ==
    /\ c.tmr => c.op # "none"
    /\ c.op # "none" => c.open /\ (c.tmr \/ c.st \in Gone)
    /\ c.st \in {"CONN", "REQ", "SEND", "RESP", "PARSE"} \cup InBody => c.open
    /\ c.run => ~c.tmr /\ (c.op = "none" \/ c.st \in Gone)
    /\ c.reconnects > MaxReconnect => c.st \in Gone /\ ~c.tmr
    /\ c.tmr => c.st \in {"CONN", "SEND", "RESP", "RECVBODY"}
    /\ c.out = <<>>

-----------------------------------------------------------------------------
States == {"none", "START", "ADDR", "NEXTADDR", "CONN", "REQ", "SEND", "RESP", "PARSE",
           "RESPBODY", "RECVBODY", "DONE", "ERR", "ERR2", "NOOP"}
Statuses == {"none", "DNS_WAIT", "IP_WAIT", "REQ_WAIT", "RESP_WAIT", "RESP", "RESP_RECV",
             "DONE", "ERR", "ENOADDR"}
Raw == Seq(1 .. LastChunk)
CType == [st : States, run : BOOLEAN, open : BOOLEAN, ready : BOOLEAN, tmr : BOOLEAN,
          op : {"none", "connect", "send", "recv"}, addr : 0 .. Addrs + 1, hdrs : 0 .. HdrBuf,
          reconnects : 0 .. MaxReconnect + 1, nredirect : 0 .. MaxRedirect, buf : Raw, out : Raw]
SType == [body : Bodies \cup {"none"}, next : 1 .. LastChunk + 1]
HType == [st : 0 .. 3, data : Raw, reset : BOOLEAN, status : Statuses]

LEMMA Assumed ==
  /\ Units \in Nat /\ Units > 0 /\ Addrs \in Nat /\ Addrs > 0 /\ HdrBuf \in Nat /\ HdrBuf > 0
  /\ MaxReconnect \in Nat /\ MaxRedirect \in Nat /\ MaxCopies \in Nat
  /\ LastChunk = Units + 1 /\ LastChunk \in Nat
  /\ Bodies \subseteq {"close", "chunked", "length"} /\ TitleAfter \subseteq 1 .. Units
  BY ClientAssumption, StreamAssumption DEF LastChunk

(* What a server sends counts the units, and the last chunk is one more. *)
LEMMA WireIs ==
  ASSUME NEW body
  PROVE  /\ Wire(body) \in Raw /\ Len(Wire(body)) \in Nat
         /\ Len(Wire(body)) = IF body = "chunked" THEN Units + 1 ELSE Units
         /\ Counts(Wire(body), 0)
  <1> DEFINE a == [i \in 1 .. Units |-> i]
  <1>0. Units \in Nat /\ LastChunk = Units + 1
    BY Assumed
  <1>1. a \in Raw /\ Len(a) = Units /\ \A i \in 1 .. Units : a[i] = i
    BY <1>0 DEF Raw
  <1>2. CASE body = "chunked"
    <2>1. <<LastChunk>> \in Raw /\ Len(<<LastChunk>>) = 1 /\ <<LastChunk>>[1] = LastChunk
      BY <1>0 DEF Raw
    <2> DEFINE b == <<LastChunk>>
    <2>2. Wire(body) = a \o b
      BY <1>2 DEF Wire
    <2> HIDE DEF a, b
    <2>3. a \o b \in Raw /\ Len(a \o b) = Units + 1
          /\ \A i \in 1 .. Units + 1 : (a \o b)[i] = IF i <= Units THEN a[i] ELSE b[i - Units]
      BY <1>0, <1>1, <2>1, ConcatProperties DEF Raw, b
    <2>4. \A i \in 1 .. Units + 1 : (a \o b)[i] = i
      BY <1>0, <1>1, <2>1, <2>3 DEF b
    <2>5. Wire(body) \in Raw /\ Len(Wire(body)) = Units + 1 /\ \A i \in 1 .. Units + 1 : Wire(body)[i] = i
      BY <2>2, <2>3, <2>4
    <2>6. Counts(Wire(body), 0)
      BY <1>0, <2>5 DEF Counts
    <2> QED BY <1>0, <1>2, <2>5, <2>6
  <1>3. CASE body # "chunked"
    <2> DEFINE b == <<>>
    <2>1. Wire(body) = a \o b
      BY <1>3 DEF Wire
    <2> HIDE DEF a
    <2>2. a \o b = a
      BY <1>1, ConcatEmptySeq DEF Raw
    <2> QED BY <1>0, <1>1, <1>3, <2>1, <2>2 DEF Counts
  <1> QED BY <1>2, <1>3

(* A part of a numbered sequence is numbered. *)
LEMMA PartCounts ==
  ASSUME NEW S, NEW s \in Seq(S), NEW n \in Nat, Counts(s, n),
         NEW i \in Nat \ {0}, NEW j \in Nat, i <= j + 1, j <= Len(s)
  PROVE  /\ SubSeq(s, i, j) \in Seq(S) /\ Len(SubSeq(s, i, j)) = j - i + 1
         /\ Counts(SubSeq(s, i, j), n + i - 1)
  <1>1. Len(s) \in Nat /\ \A k \in 1 .. Len(s) : s[k] \in S
    BY ElementOfSeq, LenProperties
  <1>2. /\ SubSeq(s, i, j) \in Seq(S)
        /\ Len(SubSeq(s, i, j)) = IF i <= j THEN j - i + 1 ELSE 0
        /\ \A k \in 1 .. j - i + 1 : SubSeq(s, i, j)[k] = s[i + k - 1]
    BY <1>1, SubSeqProperties
  <1> QED BY <1>1, <1>2 DEF Counts

(* The empty sequence counts from anywhere. *)
LEMMA EmptyCounts ==
  ASSUME NEW n PROVE Counts(<<>>, n)
  BY DEF Counts

(* A part of the response. *)
LEMMA WirePart ==
  ASSUME NEW body, NEW i \in Nat \ {0}, NEW j \in Nat, i <= j + 1, j <= Len(Wire(body))
  PROVE  /\ SubSeq(Wire(body), i, j) \in Raw /\ Len(SubSeq(Wire(body), i, j)) = j - i + 1
         /\ Counts(SubSeq(Wire(body), i, j), i - 1)
  <1>1. Wire(body) \in Raw /\ Counts(Wire(body), 0)
    BY WireIs
  <1>2. /\ SubSeq(Wire(body), i, j) \in Raw /\ Len(SubSeq(Wire(body), i, j)) = j - i + 1
        /\ Counts(SubSeq(Wire(body), i, j), 0 + i - 1)
    BY <1>1, PartCounts DEF Raw
  <1> QED BY <1>2
-----------------------------------------------------------------------------
(* The types of the client's side, and ClientOK. *)
Typed == c \in CType /\ srv \in SType /\ h \in HType /\ go \in BOOLEAN
ClientInv == Typed /\ ClientOK

(* The types of what the client's operators make of it. *)
LEMMA Changed ==
  ASSUME NEW C \in CType
  PROVE  /\ \A st \in States : [C EXCEPT !.st = st] \in CType
         /\ \A b \in BOOLEAN : [C EXCEPT !.open = b] \in CType /\ [C EXCEPT !.run = b] \in CType
                               /\ [C EXCEPT !.ready = b] \in CType /\ [C EXCEPT !.tmr = b] \in CType
         /\ \A op \in {"none", "connect", "send", "recv"} : [C EXCEPT !.op = op] \in CType
         /\ \A n \in 0 .. Addrs + 1 : [C EXCEPT !.addr = n] \in CType
         /\ \A n \in 0 .. HdrBuf : [C EXCEPT !.hdrs = n] \in CType
         /\ \A n \in 0 .. MaxReconnect + 1 : [C EXCEPT !.reconnects = n] \in CType
         /\ \A n \in 0 .. MaxRedirect : [C EXCEPT !.nredirect = n] \in CType
         /\ \A s \in Raw : [C EXCEPT !.buf = s] \in CType /\ [C EXCEPT !.out = s] \in CType
  BY DEF CType

(* Disconnected() and IoErr() *)
LEMMA AfterDisconnected ==
  ASSUME NEW C \in CType
  PROVE  LET D == Disconnected(C) IN
         /\ D \in CType /\ D.run = C.run /\ D.tmr = C.tmr /\ D.out = C.out /\ D.st = C.st
         /\ D.reconnects = C.reconnects /\ D.nredirect = C.nredirect /\ D.op = "none" /\ ~D.open
  <1> DEFINE A == [C EXCEPT !.open = FALSE]
             B == [A EXCEPT !.op = "none"]
             E == [B EXCEPT !.hdrs = 0]
             F == [E EXCEPT !.buf = <<>>]
  <1>0. 0 \in 0 .. HdrBuf /\ <<>> \in Raw
    BY Assumed DEF Raw
  <1>1. A \in CType /\ B \in CType /\ E \in CType /\ F \in CType
    <2>1. A \in CType
      BY Changed
    <2> HIDE DEF A
    <2>2. B \in CType
      BY <2>1, Changed
    <2> HIDE DEF B
    <2>3. E \in CType
      BY <1>0, <2>2, Changed
    <2> HIDE DEF E
    <2>4. F \in CType
      BY <1>0, <2>3, Changed
    <2> QED BY <2>1, <2>2, <2>3, <2>4
  <1>2. Disconnected(C) = F
    BY DEF Disconnected, CType
  <1>3. /\ F.run = C.run /\ F.tmr = C.tmr /\ F.out = C.out /\ F.st = C.st
        /\ F.reconnects = C.reconnects /\ F.nredirect = C.nredirect /\ F.op = "none" /\ ~F.open
    BY DEF CType
  <1> QED BY <1>1, <1>2, <1>3

LEMMA AfterIoErr ==
  ASSUME NEW C \in CType, C.reconnects <= MaxReconnect
  PROVE  LET D == IoErr(C) IN
         /\ D \in CType /\ D.run = C.run /\ D.tmr = C.tmr /\ D.out = C.out
         /\ D.reconnects = C.reconnects + 1
         /\ \/ D.st = "ERR" /\ C.reconnects = MaxReconnect /\ D.op = C.op /\ D.open = C.open
            \/ D.st = "ADDR" /\ C.reconnects < MaxReconnect /\ D.op = "none" /\ ~D.open
  <1>0. MaxReconnect \in Nat /\ C.reconnects \in 0 .. MaxReconnect
        /\ C.reconnects + 1 \in 0 .. MaxReconnect + 1
    BY Assumed DEF CType
  <1> DEFINE D == IF C.reconnects = MaxReconnect THEN C ELSE Disconnected(C)
             st == IF C.reconnects = MaxReconnect THEN "ERR" ELSE "ADDR"
             A == [D EXCEPT !.st = st]
             B == [A EXCEPT !.reconnects = C.reconnects + 1]
  <1>1. /\ D \in CType /\ D.run = C.run /\ D.tmr = C.tmr /\ D.out = C.out /\ D.reconnects = C.reconnects
        /\ IF C.reconnects = MaxReconnect THEN D.op = C.op /\ D.open = C.open
           ELSE D.op = "none" /\ ~D.open
    BY AfterDisconnected
  <1>2. st \in States
    BY DEF States
  <1>3. IoErr(C) = B
    <2>1. CASE C.reconnects = MaxReconnect
      BY <2>1 DEF IoErr, CType
    <2>2. CASE C.reconnects # MaxReconnect
      <3> DEFINE F == Disconnected(C)
      <3>1. F \in CType /\ F.reconnects = C.reconnects
        BY AfterDisconnected
      <3>2. IoErr(C) = [F EXCEPT !.st = "ADDR", !.reconnects = @ + 1]
        BY <2>2 DEF IoErr
      <3>3. B = [[F EXCEPT !.st = "ADDR"] EXCEPT !.reconnects = C.reconnects + 1]
        BY <2>2
      <3> HIDE DEF F, B
      <3> QED BY <3>1, <3>2, <3>3 DEF CType
    <2> QED BY <2>1, <2>2
  <1> HIDE DEF D
  <1>4. A \in CType
    BY <1>1, <1>2, Changed
  <1>5. B \in CType
    <2> HIDE DEF A
    <2> QED BY <1>0, <1>4, Changed
  <1>6. /\ B.run = D.run /\ B.tmr = D.tmr /\ B.out = D.out /\ B.reconnects = C.reconnects + 1
        /\ B.st = st /\ B.op = D.op /\ B.open = D.open
    <2> HIDE DEF st
    <2> QED BY <1>1 DEF CType
  <1> HIDE DEF B
  <1> QED BY <1>0, <1>1, <1>3, <1>5, <1>6

(* Becomes(), Calls() and CallsAndGoesOn() *)
LEMMA AfterBecomes ==
  ASSUME NEW C \in CType, Typed, Becomes(C)
  PROVE  /\ c' \in CType /\ h' = h /\ go' = go
         /\ c'.st = C.st /\ c'.run = C.run /\ c'.open = C.open /\ c'.tmr = C.tmr /\ c'.op = C.op
         /\ c'.reconnects = C.reconnects /\ c'.buf = C.buf /\ c'.out = C.out /\ ~c'.ready
  BY DEF Becomes, CType

LEMMA AfterHeard ==
  ASSUME NEW C \in CType, NEW status \in Statuses, h \in HType
  PROVE  LET H == Heard(status, C) IN
         /\ H \in HType /\ H.status = status /\ H.st = h.st /\ H.reset = h.reset
         /\ H.data = IF status = "RESP_RECV" THEN C.out ELSE h.data
  BY DEF Heard, HType, CType

LEMMA AfterCalls ==
  ASSUME NEW C \in CType, NEW status \in Statuses, Typed, Calls(C, status)
  PROVE  /\ c' \in CType /\ h' = Heard(status, C) /\ go' = (go \/ ~SendsOn(status))
         /\ c'.st = C.st /\ c'.run = SendsOn(status) /\ c'.open = C.open /\ c'.tmr = C.tmr /\ c'.op = C.op
         /\ c'.reconnects = C.reconnects /\ c'.buf = C.buf /\ c'.out = <<>>
  <1>1. SendsOn(status) \in BOOLEAN /\ <<>> \in Raw
    BY DEF SendsOn, Raw
  <1> QED BY <1>1 DEF Calls, CType

LEMMA AfterCallsOn ==
  ASSUME NEW C \in CType, NEW status \in Statuses, Typed, CallsAndGoesOn(C, status)
  PROVE  /\ c' \in CType /\ h' = Heard(status, C) /\ go' = (go \/ ~SendsOn(status))
         /\ c'.st = C.st /\ c'.run = C.run /\ c'.open = C.open /\ c'.tmr = C.tmr /\ c'.op = C.op
         /\ c'.reconnects = C.reconnects /\ c'.buf = C.buf /\ c'.out = <<>>
  <1>1. <<>> \in Raw
    BY DEF Raw
  <1> QED BY <1>1 DEF CallsAndGoesOn, CType

(* To() *)
LEMMA AfterTo ==
  ASSUME NEW st \in States, c \in CType
  PROVE  /\ To(st) \in CType /\ To(st).st = st /\ To(st).run = c.run /\ To(st).open = c.open
         /\ To(st).tmr = c.tmr /\ To(st).op = c.op /\ To(st).reconnects = c.reconnects
         /\ To(st).buf = c.buf /\ To(st).out = c.out /\ To(st).hdrs = c.hdrs /\ To(st).addr = c.addr
         /\ To(st).nredirect = c.nredirect
  <1>1. To(st) = [c EXCEPT !.st = st]
    BY DEF To
  <1>2. To(st) \in CType
    BY <1>1, Changed
  <1> QED BY <1>1, <1>2 DEF CType

(* A client that still runs and has something to send or to receive may reconnect. *)
LEMMA RunningOK ==
  ASSUME ClientInv, c.run
  PROVE  /\ ~c.tmr /\ (c.st \notin Gone => c.op = "none" /\ c.reconnects <= MaxReconnect)
         /\ c.st \in States /\ c.out = <<>> /\ c \in CType
         /\ c.reconnects \in Nat /\ MaxReconnect \in Nat
  <1>1. MaxReconnect \in Nat /\ c.reconnects \in 0 .. MaxReconnect + 1
    BY Assumed DEF ClientInv, Typed, CType
  <1> QED BY <1>1 DEF ClientInv, ClientOK, Typed, CType

(* A step that lets the client run on without calling its user. *)
LEMMA BecomesOK ==
  ASSUME ClientInv, NEW C \in CType, Becomes(C), srv' \in SType,
         C.tmr = FALSE, C.op = "none" \/ (C.op = c.op /\ C.open = c.open /\ C.st \in Gone), C.out = <<>>,
         C.st \in {"CONN", "REQ", "SEND", "RESP", "PARSE"} \cup InBody => C.open,
         C.reconnects > MaxReconnect => C.st \in Gone
  PROVE  ClientInv'
  <1>1. Typed'
    BY AfterBecomes DEF ClientInv, Typed
  <1>2. ClientOK'
    BY AfterBecomes DEF ClientInv, ClientOK
  <1> QED BY <1>1, <1>2 DEF ClientInv

(* A step that calls the user. *)
LEMMA CallsOK ==
  ASSUME ClientInv, NEW C \in CType, NEW status \in Statuses,
         Calls(C, status) \/ CallsAndGoesOn(C, status), srv' \in SType,
         C.tmr = FALSE, C.op = "none" \/ (C.op = c.op /\ C.open = c.open /\ C.st \in Gone),
         C.st \in {"CONN", "REQ", "SEND", "RESP", "PARSE"} \cup InBody => C.open,
         C.reconnects > MaxReconnect => C.st \in Gone
  PROVE  ClientInv'
  <1>1. /\ c' \in CType /\ h' = Heard(status, C) /\ go' = (go \/ ~SendsOn(status))
        /\ c'.st = C.st /\ c'.open = C.open /\ c'.tmr = C.tmr /\ c'.op = C.op
        /\ c'.reconnects = C.reconnects /\ c'.out = <<>>
    <2>1. CASE Calls(C, status)
      BY <2>1, AfterCalls DEF ClientInv
    <2>2. CASE CallsAndGoesOn(C, status)
      BY <2>2, AfterCallsOn DEF ClientInv
    <2> QED BY <2>1, <2>2
  <1>2. h' \in HType
    BY <1>1, AfterHeard DEF ClientInv, Typed
  <1>3. go' \in BOOLEAN
    BY <1>1 DEF SendsOn, ClientInv, Typed
  <1>4. Typed'
    BY <1>1, <1>2, <1>3 DEF Typed
  <1>5. ClientOK'
    BY <1>1 DEF ClientInv, ClientOK
  <1> QED BY <1>4, <1>5 DEF ClientInv

(* A step that waits for the socket. *)
LEMMA WaitsOK ==
  ASSUME ClientInv, c.run, NEW op \in {"connect", "send", "recv"}, Waits(op),
         c.st \in {"CONN", "SEND", "RESP", "RECVBODY"}
  PROVE  ClientInv'
  <1>1. /\ c' \in CType /\ c'.st = c.st /\ c'.open = c.open /\ c'.tmr /\ c'.op = op /\ ~c'.run
        /\ c'.reconnects = c.reconnects /\ c'.out = c.out
    BY DEF Waits, ClientInv, Typed, CType
  <1>2. Typed'
    BY <1>1 DEF Waits, ClientInv, Typed
  <1>3. c.st \notin Gone
    BY DEF Gone
  <1>4. c.reconnects <= MaxReconnect /\ c.reconnects \in Nat /\ MaxReconnect \in Nat /\ c.open
    BY <1>3, RunningOK DEF ClientInv, ClientOK, InBody
  <1>5. ~(c'.reconnects > MaxReconnect)
    BY <1>1, <1>4
  <1>6. ClientOK'
    BY <1>1, <1>3, <1>4, <1>5 DEF ClientInv, ClientOK
  <1> QED BY <1>2, <1>6 DEF ClientInv

(* The same for a change of the state only. *)
LEMMA ToBecomesOK ==
  ASSUME ClientInv, c.run, c.st \notin Gone, NEW st \in States, Becomes(To(st)), srv' = srv,
         st \in {"CONN", "REQ", "SEND", "RESP", "PARSE"} \cup InBody => c.open
  PROVE  ClientInv'
  <1> DEFINE C == To(st)
  <1>1. /\ C \in CType /\ C.st = st /\ C.open = c.open /\ C.tmr = c.tmr /\ C.op = c.op
        /\ C.reconnects = c.reconnects /\ C.out = c.out
    BY AfterTo DEF ClientInv, Typed
  <1>2. ~c.tmr /\ c.op = "none" /\ c.reconnects <= MaxReconnect /\ c.out = <<>>
        /\ c.reconnects \in Nat /\ MaxReconnect \in Nat
    BY RunningOK
  <1>3. c.tmr = FALSE /\ srv' \in SType
    BY <1>2 DEF ClientInv, Typed, CType
  <1>4. Becomes(C)
    OBVIOUS
  <1> HIDE DEF C
  <1>5. ~(C.reconnects > MaxReconnect)
    BY <1>1, <1>2
  <1> QED BY <1>1, <1>2, <1>3, <1>4, <1>5, BecomesOK

LEMMA ToCallsOK ==
  ASSUME ClientInv, c.run, c.st # "NOOP", NEW st \in States, NEW status \in Statuses,
         Calls(To(st), status), srv' = srv, c.st = "ERR" => st = "NOOP",
         st \in {"CONN", "REQ", "SEND", "RESP", "PARSE"} \cup InBody => c.open
  PROVE  ClientInv'
  <1> DEFINE C == To(st)
  <1>1. /\ C \in CType /\ C.st = st /\ C.open = c.open /\ C.tmr = c.tmr /\ C.op = c.op
        /\ C.reconnects = c.reconnects /\ C.out = c.out
    BY AfterTo DEF ClientInv, Typed
  <1>2. /\ ~c.tmr /\ c.reconnects \in Nat /\ MaxReconnect \in Nat
        /\ c.st # "ERR" => c.op = "none" /\ c.reconnects <= MaxReconnect
    BY RunningOK DEF Gone
  <1>3. c.tmr = FALSE /\ srv' \in SType
    BY <1>2 DEF ClientInv, Typed, CType
  <1>4. Calls(C, status)
    OBVIOUS
  <1> HIDE DEF C
  <1>5. C.op = "none" \/ (C.op = c.op /\ C.open = c.open /\ C.st \in Gone)
    BY <1>1, <1>2 DEF Gone
  <1>6. C.reconnects > MaxReconnect => C.st \in Gone
    BY <1>1, <1>2 DEF Gone
  <1> QED BY <1>1, <1>2, <1>3, <1>4, <1>5, <1>6, CallsOK

LEMMA StatesAre ==
  /\ States = {"none", "START", "ADDR", "NEXTADDR", "CONN", "REQ", "SEND", "RESP", "PARSE",
                "RESPBODY", "RECVBODY", "DONE", "ERR", "ERR2", "NOOP"}
  /\ Gone = {"ERR", "NOOP"} /\ InBody = {"RESPBODY", "RECVBODY"}
  /\ Statuses = {"none", "DNS_WAIT", "IP_WAIT", "REQ_WAIT", "RESP_WAIT", "RESP", "RESP_RECV",
                  "DONE", "ERR", "ENOADDR"}
  BY DEF States, Gone, InBody, Statuses

LEMMA StartOK ==
  ASSUME ClientInv, Start PROVE ClientInv'
  <1>0. c.run /\ c.st = "START" /\ srv' = srv
    BY DEF Start, At
  <1>1. CASE Becomes(To("ERR"))
    BY <1>0, <1>1, StatesAre, ToBecomesOK
  <1>2. CASE Calls(To("ADDR"), "DNS_WAIT")
    BY <1>0, <1>2, StatesAre, ToCallsOK
  <1> QED BY <1>1, <1>2 DEF Start

LEMMA ResolveOK ==
  ASSUME ClientInv, Resolve PROVE ClientInv'
  <1>0. c.run /\ c.st = "ADDR" /\ srv' = srv
    BY DEF Resolve, At
  <1>1. CASE Becomes(To("ERR"))
    BY <1>0, <1>1, StatesAre, ToBecomesOK
  <1>2. CASE Calls([To("NEXTADDR") EXCEPT !.addr = 1], "IP_WAIT")
    <2> DEFINE D == To("NEXTADDR")
               C == [D EXCEPT !.addr = 1]
    <2>1. D \in CType /\ D.st = "NEXTADDR" /\ D.tmr = c.tmr /\ D.op = c.op /\ D.reconnects = c.reconnects
      BY StatesAre, AfterTo DEF ClientInv, Typed
    <2>2. Calls(C, "IP_WAIT")
      BY <1>2
    <2> HIDE DEF D
    <2>3. C \in CType
      <3>1. 1 \in 0 .. Addrs + 1
        BY Assumed
      <3> QED BY <2>1, <3>1, Changed
    <2>4. C.st = "NEXTADDR" /\ C.tmr = c.tmr /\ C.op = c.op /\ C.reconnects = c.reconnects
      BY <2>1 DEF CType
    <2> HIDE DEF C
    <2>5. c.tmr = FALSE /\ c.op = "none" /\ ~(C.reconnects > MaxReconnect) /\ srv' \in SType
      BY <1>0, <2>4, RunningOK, StatesAre DEF ClientInv, Typed, CType
    <2> QED BY <1>0, <2>2, <2>3, <2>4, <2>5, StatesAre, CallsOK
  <1> QED BY <1>1, <1>2 DEF Resolve

LEMMA NextAddrOK ==
  ASSUME ClientInv, NextAddr PROVE ClientInv'
  <1>0. c.run /\ c.st = "NEXTADDR" /\ srv' = srv
    BY DEF NextAddr, At
  <1>1. /\ c.tmr = FALSE /\ c.op = "none" /\ c.reconnects <= MaxReconnect /\ c.out = <<>>
        /\ c.reconnects \in Nat /\ MaxReconnect \in Nat /\ srv' \in SType /\ c \in CType
    BY <1>0, RunningOK, StatesAre DEF ClientInv, Typed, CType
  <1>2. CASE c.addr > Addrs
    <2>1. Becomes(To("ERR2"))
      BY <1>2 DEF NextAddr
    <2> QED BY <1>0, <2>1, StatesAre, ToBecomesOK
  <1>3. CASE ~(c.addr > Addrs)
    <2> DEFINE C == [c EXCEPT !.addr = @ + 1]
               D == [C EXCEPT !.open = TRUE]
    <2>1. C \in CType /\ D \in CType
      <3>1. c.addr + 1 \in 0 .. Addrs + 1
        BY <1>1, <1>3, Assumed DEF CType
      <3>2. C = [c EXCEPT !.addr = c.addr + 1]
        BY <1>1 DEF CType
      <3>3. C \in CType
        BY <1>1, <3>1, <3>2, Changed
      <3> HIDE DEF C
      <3> QED BY <3>3, Changed
    <2>2. /\ C.st = "NEXTADDR" /\ C.tmr = FALSE /\ C.op = "none" /\ C.reconnects = c.reconnects /\ C.out = <<>>
          /\ D.tmr = FALSE /\ D.op = "none" /\ D.reconnects = c.reconnects /\ D.out = <<>> /\ D.open = TRUE
      BY <1>0, <1>1 DEF CType
    <2>3. \/ Becomes(C)
          \/ \E st \in {"ERR", "CONN"} : Becomes([D EXCEPT !.st = st])
      <3>1. \A st : [C EXCEPT !.open = TRUE, !.st = st] = [D EXCEPT !.st = st]
        BY <2>1 DEF CType
      <3> QED BY <1>3, <3>1 DEF NextAddr
    <2> HIDE DEF C, D
    <2>4. CASE Becomes(C)
      <3>1. ~(C.reconnects > MaxReconnect)
        BY <1>1, <2>2
      <3> QED BY <1>1, <2>1, <2>2, <2>4, <3>1, StatesAre, BecomesOK
    <2>5. ASSUME NEW st \in {"ERR", "CONN"}, Becomes([D EXCEPT !.st = st]) PROVE ClientInv'
      <3> DEFINE E == [D EXCEPT !.st = st]
      <3>1. E \in CType
        BY <2>1, StatesAre, Changed
      <3>2. /\ E.st = st /\ E.tmr = FALSE /\ E.op = "none" /\ E.reconnects = c.reconnects /\ E.out = <<>>
            /\ E.open = TRUE
        BY <2>1, <2>2 DEF CType
      <3>3. Becomes(E)
        BY <2>5
      <3> HIDE DEF E
      <3>4. ~(E.reconnects > MaxReconnect)
        BY <1>1, <3>2
      <3> QED BY <1>1, <3>1, <3>2, <3>3, <3>4, StatesAre, BecomesOK
    <2> QED BY <2>3, <2>4, <2>5
  <1> QED BY <1>2, <1>3

LEMMA ConnectOK ==
  ASSUME ClientInv, Connect PROVE ClientInv'
  <1>0. c.run /\ c.st = "CONN"
    BY DEF Connect, At
  <1>1. /\ c.tmr = FALSE /\ c.op = "none" /\ c.reconnects <= MaxReconnect /\ c.out = <<>> /\ c.open
        /\ c.reconnects \in Nat /\ MaxReconnect \in Nat /\ srv \in SType /\ c \in CType
    BY <1>0, RunningOK, StatesAre DEF ClientInv, ClientOK, Typed, CType
  <1>2. CASE Waits("connect")
    BY <1>0, <1>2, WaitsOK
  <1>3. CASE Becomes([To("NEXTADDR") EXCEPT !.open = FALSE]) /\ srv' = srv
    <2> DEFINE D == To("NEXTADDR")
               C == [D EXCEPT !.open = FALSE]
    <2>1. D \in CType /\ D.st = "NEXTADDR" /\ D.tmr = c.tmr /\ D.op = c.op /\ D.reconnects = c.reconnects
          /\ D.out = c.out
      BY <1>1, StatesAre, AfterTo
    <2>2. Becomes(C)
      BY <1>3
    <2> HIDE DEF D
    <2>3. C \in CType
      BY <2>1, Changed
    <2>4. C.st = "NEXTADDR" /\ C.tmr = FALSE /\ C.op = "none" /\ C.reconnects = c.reconnects /\ C.out = <<>>
      BY <1>1, <2>1 DEF CType
    <2> HIDE DEF C
    <2>5. ~(C.reconnects > MaxReconnect)
      BY <1>1, <2>4
    <2> QED BY <1>1, <1>3, <2>2, <2>3, <2>4, <2>5, StatesAre, BecomesOK
  <1>4. CASE Calls([To("REQ") EXCEPT !.addr = 0], "REQ_WAIT") /\ srv' = srv
    <2> DEFINE D == To("REQ")
               C == [D EXCEPT !.addr = 0]
    <2>1. D \in CType /\ D.st = "REQ" /\ D.tmr = c.tmr /\ D.op = c.op /\ D.reconnects = c.reconnects
          /\ D.open = c.open
      BY <1>1, StatesAre, AfterTo
    <2>2. Calls(C, "REQ_WAIT")
      BY <1>4
    <2> HIDE DEF D
    <2>3. C \in CType
      <3>1. 0 \in 0 .. Addrs + 1
        BY Assumed
      <3> QED BY <2>1, <3>1, Changed
    <2>4. C.st = "REQ" /\ C.tmr = FALSE /\ C.op = "none" /\ C.reconnects = c.reconnects /\ C.open
      BY <1>1, <2>1 DEF CType
    <2> HIDE DEF C
    <2>5. ~(C.reconnects > MaxReconnect)
      BY <1>1, <2>4
    <2> QED BY <1>1, <1>4, <2>2, <2>3, <2>4, <2>5, StatesAre, CallsOK
  <1> QED BY <1>2, <1>3, <1>4 DEF Connect

LEMMA PrepareOK ==
  ASSUME ClientInv, Prepare PROVE ClientInv'
  <1>0. c.run /\ c.st = "REQ" /\ srv' = srv
    BY DEF Prepare, At
  <1>1. c.open
    BY <1>0, StatesAre DEF ClientInv, ClientOK
  <1>2. PICK st \in {"ERR", "SEND"} : Becomes(To(st))
    BY DEF Prepare
  <1> QED BY <1>0, <1>1, <1>2, StatesAre, ToBecomesOK

(* The connection is broken. *)
LEMMA IoErrOK ==
  ASSUME ClientInv, c.run, c.st \notin Gone, Becomes(IoErr(c)), srv' = srv PROVE ClientInv'
  <1> DEFINE C == IoErr(c)
  <1>1. /\ c.tmr = FALSE /\ c.op = "none" /\ c.reconnects <= MaxReconnect /\ c.out = <<>>
        /\ c.reconnects \in Nat /\ MaxReconnect \in Nat /\ srv' \in SType /\ c \in CType
    BY RunningOK DEF ClientInv, Typed, CType
  <1>2. /\ C \in CType /\ C.tmr = c.tmr /\ C.out = c.out /\ C.reconnects = c.reconnects + 1
        /\ \/ C.st = "ERR" /\ C.op = c.op
           \/ C.st = "ADDR" /\ c.reconnects < MaxReconnect /\ C.op = "none"
    BY <1>1, AfterIoErr
  <1>3. Becomes(C)
    OBVIOUS
  <1> HIDE DEF C
  <1>4. C.reconnects > MaxReconnect => C.st = "ERR"
    BY <1>1, <1>2
  <1> QED BY <1>1, <1>2, <1>3, <1>4, StatesAre, BecomesOK

LEMMA SendOK ==
  ASSUME ClientInv, Send PROVE ClientInv'
  <1>0. c.run /\ c.st = "SEND" /\ c.open
    BY StatesAre DEF Send, At, ClientInv, ClientOK
  <1>1. CASE Waits("send")
    BY <1>0, <1>1, WaitsOK
  <1>2. CASE Becomes(IoErr(c)) /\ srv' = srv
    BY <1>0, <1>2, StatesAre, IoErrOK
  <1>3. CASE Calls(To("RESP"), "RESP_WAIT") /\ srv' = srv
    BY <1>0, <1>3, StatesAre, ToCallsOK
  <1> QED BY <1>1, <1>2, <1>3 DEF Send

LEMMA RecvHdrsOK ==
  ASSUME ClientInv, RecvHdrs PROVE ClientInv'
  <1>0. c.run /\ c.st = "RESP" /\ c.open
    BY StatesAre DEF RecvHdrs, At, ClientInv, ClientOK
  <1>1. CASE Becomes(To("ERR")) /\ srv' = srv
    BY <1>0, <1>1, StatesAre, ToBecomesOK
  <1>2. CASE Waits("recv")
    BY <1>0, <1>2, WaitsOK
  <1>3. CASE Becomes(IoErr(c)) /\ srv' = srv
    BY <1>0, <1>3, StatesAre, IoErrOK
  <1>4. CASE c.hdrs # HdrBuf /\ Becomes([To("PARSE") EXCEPT !.hdrs = @ + 1]) /\ srv' = srv
    <2> DEFINE D == To("PARSE")
               C == [D EXCEPT !.hdrs = c.hdrs + 1]
    <2>0. /\ c.tmr = FALSE /\ c.op = "none" /\ c.reconnects <= MaxReconnect /\ c.out = <<>>
          /\ c.reconnects \in Nat /\ MaxReconnect \in Nat /\ srv' \in SType /\ c \in CType
      BY <1>0, <1>4, RunningOK, StatesAre DEF ClientInv, Typed, CType
    <2>1. D \in CType /\ D.st = "PARSE" /\ D.tmr = c.tmr /\ D.op = c.op /\ D.reconnects = c.reconnects
          /\ D.out = c.out /\ D.open = c.open /\ D.hdrs = c.hdrs
      BY <2>0, StatesAre, AfterTo
    <2>2. Becomes(C)
      <3> HIDE DEF D
      <3>1. [D EXCEPT !.hdrs = @ + 1] = C
        BY <2>1 DEF CType
      <3>2. [D EXCEPT !.hdrs = @ + 1] = [To("PARSE") EXCEPT !.hdrs = @ + 1]
        BY DEF D
      <3> QED BY <1>4, <3>1, <3>2
    <2> HIDE DEF D
    <2>3. C \in CType
      <3>1. c.hdrs + 1 \in 0 .. HdrBuf
        BY <1>4, <2>0, Assumed DEF CType
      <3> QED BY <2>1, <3>1, Changed
    <2>4. C.st = "PARSE" /\ C.tmr = FALSE /\ C.op = "none" /\ C.reconnects = c.reconnects /\ C.out = <<>>
          /\ C.open
      BY <1>0, <2>0, <2>1 DEF CType
    <2> HIDE DEF C
    <2>5. ~(C.reconnects > MaxReconnect)
      BY <2>0, <2>4
    <2> QED BY <2>0, <2>2, <2>3, <2>4, <2>5, StatesAre, BecomesOK
  <1> QED BY <1>1, <1>2, <1>3, <1>4 DEF RecvHdrs

LEMMA HeadersOnlyOK ==
  ASSUME ClientInv, HeadersOnly PROVE ClientInv'
  <1>0. c.run /\ c.st = "PARSE" /\ c.open /\ srv' = srv
    BY StatesAre DEF HeadersOnly, At, ClientInv, ClientOK
  <1>1. ASSUME NEW st \in {"RESP", "ERR"}, Becomes(To(st)) PROVE ClientInv'
    BY <1>0, <1>1, StatesAre, ToBecomesOK
  <1>2. CASE c.nredirect # MaxRedirect /\ Becomes([Disconnected(To("ADDR")) EXCEPT !.nredirect = @ + 1])
    <2> DEFINE D == To("ADDR")
               E == Disconnected(D)
               C == [E EXCEPT !.nredirect = c.nredirect + 1]
    <2>0. /\ c.tmr = FALSE /\ c.op = "none" /\ c.reconnects <= MaxReconnect /\ c.out = <<>>
          /\ c.reconnects \in Nat /\ MaxReconnect \in Nat /\ srv' \in SType /\ c \in CType
      BY <1>0, RunningOK, StatesAre DEF ClientInv, Typed, CType
    <2>1. D \in CType /\ D.st = "ADDR" /\ D.tmr = c.tmr /\ D.reconnects = c.reconnects
          /\ D.out = c.out /\ D.nredirect = c.nredirect
      BY <2>0, StatesAre, AfterTo
    <2>2. Becomes([E EXCEPT !.nredirect = @ + 1])
      BY <1>2
    <2> HIDE DEF D
    <2>3. E \in CType /\ E.st = "ADDR" /\ E.tmr = c.tmr /\ E.reconnects = c.reconnects
          /\ E.out = c.out /\ E.op = "none" /\ E.nredirect = c.nredirect
      BY <2>1, AfterDisconnected
    <2> HIDE DEF E
    <2>4. C \in CType
      <3>1. c.nredirect + 1 \in 0 .. MaxRedirect
        BY <1>2, <2>0, Assumed DEF CType
      <3> QED BY <2>3, <3>1, Changed
    <2>5. Becomes(C)
      <3>1. C = [E EXCEPT !.nredirect = @ + 1]
        BY <2>3 DEF CType
      <3> QED BY <2>2, <3>1
    <2>6. C.st = "ADDR" /\ C.tmr = FALSE /\ C.op = "none" /\ C.reconnects = c.reconnects /\ C.out = <<>>
      BY <2>0, <2>3 DEF CType
    <2> HIDE DEF C
    <2>7. ~(C.reconnects > MaxReconnect)
      BY <2>0, <2>6
    <2> QED BY <2>0, <2>4, <2>5, <2>6, <2>7, StatesAre, BecomesOK
  <1> QED BY <1>1, <1>2 DEF HeadersOnly

(* A response: what is known of the client and of its user then. *)
LEMMA AfterResponse ==
  ASSUME ClientInv, Response
  PROVE  \E body \in Bodies \cup {"none"}, n \in 0 .. Units, useful \in BOOLEAN :
            /\ c' \in CType /\ srv' = [body |-> body, next |-> n + 1] /\ h' \in HType
            /\ body = "none" => n = 0
            /\ c'.st = (IF body = "none" THEN "DONE" ELSE "RESPBODY")
            /\ c'.run = useful /\ c'.open = c.open /\ c'.tmr = c.tmr /\ c'.op = c.op /\ c'.out = c.out
            /\ c'.reconnects = c.reconnects /\ c'.buf = SubSeq(Wire(body), 1, n)
            /\ h'.status = "RESP" /\ h'.reset /\ h'.st = (IF useful THEN h.st ELSE 3) /\ h'.data = h.data
            /\ go' = (go \/ ~useful)
  <1>1. PICK body \in Bodies \cup {"none"}, n \in 0 .. Units, useful \in BOOLEAN :
           LET C == [c EXCEPT !.st = IF body = "none" THEN "DONE" ELSE "RESPBODY",
                              !.buf = SubSeq(Wire(body), 1, n), !.hdrs = 0,
                              !.run = useful, !.ready = FALSE]
           IN  /\ body = "none" => n = 0
               /\ c' = C /\ srv' = [body |-> body, next |-> n + 1]
               /\ h' = [h EXCEPT !.status = "RESP", !.reset = TRUE,
                                 !.st = IF useful THEN @ ELSE 3]
               /\ go' = (go \/ ~useful)
    BY DEF Response
  <1> DEFINE st == IF body = "none" THEN "DONE" ELSE "RESPBODY"
             buf == SubSeq(Wire(body), 1, n)
  <1>2. buf \in Raw
    BY WireIs, WirePart, Assumed
  <1>3. st \in States /\ 0 \in 0 .. HdrBuf
    BY StatesAre, Assumed
  <1>4. c \in CType /\ h \in HType
    BY DEF ClientInv, Typed
  <1>5. c' = [c EXCEPT !.st = st, !.buf = buf, !.hdrs = 0, !.run = useful, !.ready = FALSE]
    BY <1>1
  <1>6. srv' = [body |-> body, next |-> n + 1] /\ (body = "none" => n = 0) /\ go' = (go \/ ~useful)
    BY <1>1
  <1>7. h' = [h EXCEPT !.status = "RESP", !.reset = TRUE, !.st = IF useful THEN h.st ELSE 3]
    BY <1>1, <1>4 DEF HType
  <1> HIDE DEF st, buf
  <1>8. /\ c' \in CType /\ c'.st = st /\ c'.buf = buf
        /\ c'.run = useful /\ c'.open = c.open /\ c'.tmr = c.tmr /\ c'.op = c.op /\ c'.out = c.out
        /\ c'.reconnects = c.reconnects
    BY <1>2, <1>3, <1>4, <1>5 DEF CType
  <1>9. /\ h' \in HType /\ h'.status = "RESP" /\ h'.reset /\ h'.st = (IF useful THEN h.st ELSE 3)
        /\ h'.data = h.data
    <2> DEFINE k == IF useful THEN h.st ELSE 3
    <2>1. "RESP" \in Statuses /\ k \in 0 .. 3
      BY <1>4, StatesAre DEF HType
    <2>2. h' = [h EXCEPT !.status = "RESP", !.reset = TRUE, !.st = k]
      BY <1>7
    <2> HIDE DEF k
    <2>3. h' \in HType /\ h'.status = "RESP" /\ h'.reset /\ h'.st = k /\ h'.data = h.data
      BY <1>4, <2>1, <2>2 DEF HType
    <2> QED BY <2>3 DEF k
  <1> QED BY <1>6, <1>8, <1>9 DEF st, buf

LEMMA ResponseOK ==
  ASSUME ClientInv, Response PROVE ClientInv'
  <1>0. c.run /\ c.st = "PARSE" /\ c.open
    BY StatesAre DEF Response, At, ClientInv, ClientOK
  <1>1. /\ ~c.tmr /\ c.op = "none" /\ c.reconnects <= MaxReconnect /\ c.out = <<>>
        /\ c.reconnects \in Nat /\ MaxReconnect \in Nat
    BY <1>0, RunningOK, StatesAre
  <1>2. PICK body \in Bodies \cup {"none"}, n \in 0 .. Units, useful \in BOOLEAN :
            /\ c' \in CType /\ srv' = [body |-> body, next |-> n + 1] /\ h' \in HType
            /\ c'.st = (IF body = "none" THEN "DONE" ELSE "RESPBODY")
            /\ c'.run = useful /\ c'.open = c.open /\ c'.tmr = c.tmr /\ c'.op = c.op /\ c'.out = c.out
            /\ c'.reconnects = c.reconnects
            /\ go' = (go \/ ~useful)
    BY AfterResponse
  <1>3. srv' \in SType
    BY <1>2, Assumed DEF SType
  <1>4. Typed'
    BY <1>2, <1>3 DEF ClientInv, Typed
  <1>5. ~(c'.reconnects > MaxReconnect)
    BY <1>1, <1>2
  <1>6. ClientOK'
    BY <1>0, <1>1, <1>2, <1>5, StatesAre DEF ClientOK
  <1> QED BY <1>4, <1>6 DEF ClientInv

LEMMA RecvBodyOK ==
  ASSUME ClientInv, RecvBody PROVE ClientInv'
  <1>0. c.run /\ c.st = "RECVBODY" /\ c.open
    BY StatesAre DEF RecvBody, At, ClientInv, ClientOK
  <1>1. /\ c.tmr = FALSE /\ c.op = "none" /\ c.reconnects <= MaxReconnect /\ c.out = <<>>
        /\ c.reconnects \in Nat /\ MaxReconnect \in Nat /\ srv \in SType /\ c \in CType
    BY <1>0, RunningOK, StatesAre DEF ClientInv, Typed, CType
  <1>2. CASE Waits("recv")
    BY <1>0, <1>2, WaitsOK
  <1>3. CASE Becomes(IoErr(c)) /\ srv' = srv
    BY <1>0, <1>3, StatesAre, IoErrOK
  <1>4. CASE srv' = srv /\ CallsAndGoesOn([To("DONE") EXCEPT !.out = <<>>], "RESP_RECV")
    <2> DEFINE D == To("DONE")
               C == [D EXCEPT !.out = <<>>]
    <2>1. D \in CType /\ D.st = "DONE" /\ D.tmr = c.tmr /\ D.op = c.op /\ D.reconnects = c.reconnects
      BY <1>1, StatesAre, AfterTo
    <2>2. CallsAndGoesOn(C, "RESP_RECV")
      BY <1>4
    <2> HIDE DEF D
    <2>3. C \in CType
      <3>1. <<>> \in Raw
        BY DEF Raw
      <3> QED BY <2>1, <3>1, Changed
    <2>4. C.st = "DONE" /\ C.tmr = FALSE /\ C.op = "none" /\ C.reconnects = c.reconnects
      BY <1>1, <2>1 DEF CType
    <2> HIDE DEF C
    <2>5. ~(C.reconnects > MaxReconnect)
      BY <1>1, <2>4
    <2> QED BY <1>1, <1>4, <2>2, <2>3, <2>4, <2>5, StatesAre, CallsOK
  <1>5. CASE srv' = srv /\ Becomes(To("ERR"))
    BY <1>0, <1>5, StatesAre, ToBecomesOK
  <1>6. ASSUME NEW last \in srv.next .. Len(Wire(srv.body)),
               Becomes([To("RESPBODY") EXCEPT !.buf = AllOf(srv.next, last)]),
               srv' = [srv EXCEPT !.next = last + 1]
        PROVE  ClientInv'
    <2> DEFINE D == To("RESPBODY")
               s == AllOf(srv.next, last)
               C == [D EXCEPT !.buf = s]
    <2>0. srv.next \in Nat \ {0} /\ last \in Nat /\ last <= Units + 1 /\ last <= Len(Wire(srv.body))
          /\ srv.next <= last + 1
      BY <1>1, WireIs, Assumed DEF SType
    <2>1. D \in CType /\ D.st = "RESPBODY" /\ D.tmr = c.tmr /\ D.op = c.op /\ D.reconnects = c.reconnects
          /\ D.open = c.open /\ D.out = c.out
      BY <1>1, StatesAre, AfterTo
    <2>2. Becomes(C)
      BY <1>6
    <2>3. s \in Raw
      BY <2>0, WirePart DEF AllOf
    <2> HIDE DEF D, s
    <2>4. C \in CType
      BY <2>1, <2>3, Changed
    <2>5. C.st = "RESPBODY" /\ C.tmr = FALSE /\ C.op = "none" /\ C.reconnects = c.reconnects /\ C.open
          /\ C.out = <<>>
      BY <1>0, <1>1, <2>1 DEF CType
    <2> HIDE DEF C
    <2>6. ~(C.reconnects > MaxReconnect)
      BY <1>1, <2>5
    <2>7. srv' \in SType
      <3>1. last + 1 \in 1 .. LastChunk + 1
        BY <2>0, Assumed
      <3> QED BY <1>1, <1>6, <3>1 DEF SType
    <2> QED BY <1>1, <2>2, <2>4, <2>5, <2>6, <2>7, StatesAre, BecomesOK
  <1> QED BY <1>2, <1>3, <1>4, <1>5, <1>6 DEF RecvBody

(* FilterBody() as cases: what it gives, what it leaves. *)
Chunked == srv.body = "chunked" /\ c.buf # <<>>
Filtered == IF ~Chunked THEN c.buf ELSE IF Head(c.buf) = LastChunk THEN <<>> ELSE <<Head(c.buf)>>
Rest == IF Chunked THEN Tail(c.buf) ELSE <<>>
BodyEnds == (Chunked /\ Head(c.buf) = LastChunk) \/ (srv.body = "length" /\ srv.next > Units)

LEMMA FilterCases ==
  ASSUME ClientInv, FilterBody
  PROVE  /\ c.run /\ c.st = "RESPBODY" /\ srv' = srv
         /\ Filtered \in Raw /\ Rest \in Raw
         /\ LET D == [c EXCEPT !.out = Filtered, !.buf = Rest] IN
            /\ D \in CType /\ D.st = c.st /\ D.run = c.run /\ D.open = c.open /\ D.tmr = c.tmr /\ D.op = c.op
            /\ D.reconnects = c.reconnects /\ D.out = Filtered /\ D.buf = Rest
            /\ \/ Becomes(To("ERR"))
               \/ BodyEnds /\ CallsAndGoesOn([D EXCEPT !.st = "DONE"], "RESP_RECV")
               \/ ~BodyEnds /\ Calls([D EXCEPT !.st = IF Rest = <<>> THEN "RECVBODY" ELSE "RESPBODY"],
                                     "RESP_RECV")
  <1>1. c \in CType /\ c.buf \in Raw
    BY DEF ClientInv, Typed, CType
  <1>2. Filtered \in Raw /\ Rest \in Raw
    <2>1. <<>> \in Raw
      BY DEF Raw
    <2>2. c.buf # <<>> => Head(c.buf) \in 1 .. LastChunk /\ Tail(c.buf) \in Raw
      BY <1>1, HeadTailProperties DEF Raw
    <2>3. Head(c.buf) \in 1 .. LastChunk => <<Head(c.buf)>> \in Raw
      BY DEF Raw
    <2> QED BY <1>1, <2>1, <2>2, <2>3 DEF Filtered, Rest, Chunked
  <1> DEFINE D == [c EXCEPT !.out = Filtered, !.buf = Rest]
  <1>3. \/ Becomes(To("ERR"))
        \/ BodyEnds /\ CallsAndGoesOn([D EXCEPT !.st = "DONE"], "RESP_RECV")
        \/ ~BodyEnds /\ Calls([D EXCEPT !.st = IF Rest = <<>> THEN "RECVBODY" ELSE "RESPBODY"],
                              "RESP_RECV")
    BY DEF FilterBody, BodyEnds, Filtered, Rest, Chunked
  <1>4. /\ D \in CType /\ D.st = c.st /\ D.run = c.run /\ D.open = c.open /\ D.tmr = c.tmr /\ D.op = c.op
        /\ D.reconnects = c.reconnects /\ D.out = Filtered /\ D.buf = Rest
    BY <1>1, <1>2 DEF CType
  <1>5. c.run /\ c.st = "RESPBODY" /\ srv' = srv
    BY DEF FilterBody, At
  <1> QED BY <1>2, <1>3, <1>4, <1>5

LEMMA FilterBodyOK ==
  ASSUME ClientInv, FilterBody PROVE ClientInv'
  <1> DEFINE D == [c EXCEPT !.out = Filtered, !.buf = Rest]
  <1>0. c.run /\ c.st = "RESPBODY" /\ c.open /\ srv' = srv
    BY StatesAre, FilterCases DEF ClientInv, ClientOK
  <1>1. /\ c.tmr = FALSE /\ c.op = "none" /\ c.reconnects <= MaxReconnect /\ c.out = <<>>
        /\ c.reconnects \in Nat /\ MaxReconnect \in Nat /\ srv' \in SType /\ c \in CType
    BY <1>0, RunningOK, StatesAre DEF ClientInv, Typed, CType
  <1>2. D \in CType /\ D.st = c.st /\ D.open = c.open /\ D.tmr = c.tmr /\ D.op = c.op /\ D.reconnects = c.reconnects
    BY FilterCases
  <1>3. \/ Becomes(To("ERR"))
        \/ CallsAndGoesOn([D EXCEPT !.st = "DONE"], "RESP_RECV")
        \/ Calls([D EXCEPT !.st = IF Rest = <<>> THEN "RECVBODY" ELSE "RESPBODY"], "RESP_RECV")
    BY FilterCases
  <1> HIDE DEF D
  <1>4. CASE Becomes(To("ERR"))
    BY <1>0, <1>4, StatesAre, ToBecomesOK
  <1>5. ASSUME NEW st \in {"DONE", "RECVBODY", "RESPBODY"},
               Calls([D EXCEPT !.st = st], "RESP_RECV") \/ CallsAndGoesOn([D EXCEPT !.st = st], "RESP_RECV")
        PROVE  ClientInv'
    <2> DEFINE C == [D EXCEPT !.st = st]
    <2>1. C \in CType
      BY <1>2, StatesAre, Changed
    <2>2. C.st = st /\ C.open = c.open /\ C.tmr = c.tmr /\ C.op = c.op /\ C.reconnects = c.reconnects
      BY <1>2 DEF CType
    <2>3. Calls(C, "RESP_RECV") \/ CallsAndGoesOn(C, "RESP_RECV")
      BY <1>5
    <2> HIDE DEF C
    <2>4. ~(C.reconnects > MaxReconnect)
      BY <1>1, <2>2
    <2> QED BY <1>0, <1>1, <2>1, <2>2, <2>3, <2>4, StatesAre, CallsOK
  <1> QED BY <1>3, <1>4, <1>5

LEMMA FinishOK ==
  ASSUME ClientInv, Finish PROVE ClientInv'
  <1>1. ASSUME NEW st \in {"DONE", "ERR", "ERR2"}, NEW status \in {"DONE", "ERR", "ENOADDR"},
               At(st), Calls(To("NOOP"), status), srv' = srv
        PROVE  ClientInv'
    <2>1. c.run /\ c.st = st
      BY <1>1 DEF At
    <2>2. c.st # "NOOP" /\ "NOOP" \in States /\ status \in Statuses
          /\ "NOOP" \notin {"CONN", "REQ", "SEND", "RESP", "PARSE"} \cup InBody
      BY <2>1, StatesAre
    <2> QED BY <1>1, <2>1, <2>2, ToCallsOK
  <1>2. CASE At("NOOP") /\ Becomes([c EXCEPT !.run = FALSE]) /\ srv' = srv
    <2> DEFINE C == [c EXCEPT !.run = FALSE]
    <2>1. c \in CType /\ c.st = "NOOP" /\ ~c.tmr /\ c.out = <<>>
      BY <1>2 DEF At, ClientInv, Typed, ClientOK
    <2>2. C \in CType
      BY <2>1, Changed
    <2>3. C.st = "NOOP" /\ C.op = c.op /\ C.open = c.open /\ C.tmr = FALSE /\ C.out = <<>>
      BY <2>1 DEF CType
    <2>4. Becomes(C) /\ srv' \in SType
      BY <1>2 DEF ClientInv, Typed
    <2> HIDE DEF C
    <2> QED BY <2>1, <2>2, <2>3, <2>4, StatesAre, BecomesOK
  <1> QED BY <1>1, <1>2 DEF Finish

LEMMA ClientRunsOK ==
  ASSUME ClientInv, ClientRuns PROVE ClientInv'
  BY StartOK, ResolveOK, NextAddrOK, ConnectOK, PrepareOK, SendOK, RecvHdrsOK, HeadersOnlyOK,
     ResponseOK, RecvBodyOK, FilterBodyOK, FinishOK DEF ClientRuns

LEMMA EventOK ==
  ASSUME ClientInv, Event
  PROVE  /\ ClientInv' /\ UNCHANGED <<srv, h, go>> /\ ~c.run /\ c.op # "none"
         /\ c'.st = c.st /\ c'.buf = c.buf /\ c'.run /\ ~c'.tmr /\ c'.op = "none"
  <1>1. c \in CType
    BY DEF ClientInv, Typed
  <1>2. /\ c' \in CType /\ c'.op = "none" /\ c'.run /\ ~c'.tmr /\ c'.st = c.st /\ c'.open = c.open
        /\ c'.reconnects = c.reconnects /\ c'.out = c.out /\ c'.buf = c.buf
    BY <1>1 DEF Event, Answered, CType
  <1>3. Typed' /\ UNCHANGED <<srv, h, go>> /\ ~c.run /\ c.op # "none"
    BY <1>2 DEF Event, ClientInv, Typed
  <1>4. ClientOK'
    BY <1>2, StatesAre DEF ClientInv, ClientOK
  <1> QED BY <1>2, <1>3, <1>4 DEF ClientInv

LEMMA TimeoutOK ==
  ASSUME ClientInv, Timeout
  PROVE  /\ ClientInv' /\ UNCHANGED <<srv, h, go>> /\ c.tmr /\ ~c.run
         /\ c'.st \in {"ERR", "ADDR"}
  <1>1. c \in CType /\ c.tmr /\ ~c.run /\ c.op # "none" /\ c.open /\ c.out = <<>>
    BY DEF Timeout, ClientInv, ClientOK, Typed
  <1>2. c.reconnects \in Nat /\ MaxReconnect \in Nat /\ ~(c.reconnects > MaxReconnect)
    BY <1>1, Assumed DEF ClientInv, ClientOK, CType
  <1>3. c.reconnects <= MaxReconnect
    BY <1>2
  <1> DEFINE D == IoErr(c)
  <1>4. /\ D \in CType /\ D.out = c.out /\ D.reconnects = c.reconnects + 1
        /\ \/ D.st = "ERR" /\ c.reconnects = MaxReconnect /\ D.op = c.op /\ D.open = c.open
           \/ D.st = "ADDR" /\ c.reconnects < MaxReconnect /\ D.op = "none" /\ ~D.open
    BY <1>1, <1>3, AfterIoErr
  <1>5. c' = [D EXCEPT !.run = TRUE, !.tmr = FALSE] /\ UNCHANGED <<srv, h, go>>
    BY DEF Timeout
  <1> HIDE DEF D
  <1>6. /\ c' \in CType /\ c'.run /\ ~c'.tmr /\ c'.st = D.st /\ c'.op = D.op /\ c'.open = D.open
        /\ c'.out = D.out /\ c'.reconnects = D.reconnects
    BY <1>4, <1>5 DEF CType
  <1>7. Typed'
    BY <1>5, <1>6 DEF ClientInv, Typed
  <1>8. c'.reconnects > MaxReconnect => c'.st = "ERR"
    BY <1>2, <1>4, <1>6
  <1>9. ClientOK'
    BY <1>1, <1>4, <1>6, <1>8, StatesAre DEF ClientOK
  <1> QED BY <1>1, <1>4, <1>5, <1>6, <1>7, <1>9 DEF ClientInv

-----------------------------------------------------------------------------
(* What a step of the client is to its user, in eight cases. *)
SameUser == h'.st = h.st /\ h'.reset = h.reset

DoesEarly ==
    /\ SameUser /\ h'.data = h.data /\ srv' = srv /\ go' = go
    /\ c.st \notin {"DONE", "NOOP"} /\ c'.st \notin InBody \cup {"none", "DONE", "NOOP"}
    /\ h'.status = h.status \/ h'.status \in {"DNS_WAIT", "IP_WAIT", "REQ_WAIT", "RESP_WAIT"}
DoesWait ==
    /\ c.st = "RECVBODY" /\ c'.st = "RECVBODY" /\ c'.buf = c.buf /\ ~c'.run
    /\ h' = h /\ srv' = srv /\ go' = go
DoesReceive ==
    /\ c.st = "RECVBODY" /\ c'.st = "RESPBODY" /\ c'.run = c.run /\ h' = h /\ go' = go
    /\ \E last \in srv.next .. Len(Wire(srv.body)) :
          c'.buf = SubSeq(Wire(srv.body), srv.next, last) /\ srv' = [srv EXCEPT !.next = last + 1]
DoesEnd ==
    /\ SameUser /\ srv' = srv /\ go' /\ h'.status = "RESP_RECV"
    /\ c'.st = "DONE" /\ c'.run = c.run
    /\ \/ c.st = "RECVBODY" /\ srv.body = "close" /\ h'.data = <<>>
       \/ c.st = "RESPBODY" /\ BodyEnds /\ h'.data = Filtered
DoesGive ==
    /\ SameUser /\ srv' = srv /\ go' /\ h'.status = "RESP_RECV" /\ h'.data = Filtered
    /\ c.st = "RESPBODY" /\ ~BodyEnds /\ ~c'.run /\ c'.buf = Rest /\ ~c'.tmr /\ c'.op = "none"
    /\ c'.st = IF Rest = <<>> THEN "RECVBODY" ELSE "RESPBODY"
DoesFinish ==
    /\ SameUser /\ srv' = srv /\ go' /\ h'.data = h.data /\ c'.st = "NOOP" /\ ~c'.run
    /\ \/ c.st = "DONE" /\ h'.status = "DONE"
       \/ c.st \in {"ERR", "ERR2"} /\ h'.status \in {"ERR", "ENOADDR"}
DoesRest ==
    c.st = "NOOP" /\ c'.st = "NOOP" /\ ~c'.run /\ h' = h /\ srv' = srv /\ go' = go

(* How Becomes() and Calls() fall into the cases. *)
LEMMA EarlyBecomes ==
  ASSUME ClientInv, c.st \notin {"DONE", "NOOP"}, NEW C \in CType, Becomes(C), srv' = srv,
         C.st \notin InBody \cup {"none", "DONE", "NOOP"}
  PROVE  DoesEarly
  BY AfterBecomes DEF ClientInv, DoesEarly, SameUser

LEMMA EarlyTo ==
  ASSUME ClientInv, c.st \notin {"DONE", "NOOP"}, NEW st \in States, Becomes(To(st)), srv' = srv,
         st \notin InBody \cup {"none", "DONE", "NOOP"}
  PROVE  DoesEarly
  <1> DEFINE C == To(st)
  <1>1. C \in CType /\ C.st = st /\ Becomes(C)
    BY AfterTo DEF ClientInv, Typed
  <1> HIDE DEF C
  <1> QED BY <1>1, EarlyBecomes

LEMMA EarlyCalls ==
  ASSUME ClientInv, c.st \notin {"DONE", "NOOP"}, NEW C \in CType,
         NEW status \in {"DNS_WAIT", "IP_WAIT", "REQ_WAIT", "RESP_WAIT"}, Calls(C, status), srv' = srv,
         C.st \notin InBody \cup {"none", "DONE", "NOOP"}
  PROVE  DoesEarly
  <1>1. status \in Statuses /\ status # "RESP_RECV"
    BY StatesAre
  <1>2. c'.st = C.st /\ h' = Heard(status, C) /\ go' = (go \/ ~SendsOn(status))
    BY <1>1, AfterCalls DEF ClientInv
  <1>3. h'.status = status /\ h'.st = h.st /\ h'.reset = h.reset /\ h'.data = h.data
    BY <1>1, <1>2, AfterHeard DEF ClientInv, Typed
  <1>4. go' = go
    BY <1>2 DEF SendsOn, ClientInv, Typed
  <1> QED BY <1>2, <1>3, <1>4 DEF DoesEarly, SameUser

LEMMA EarlyWaits ==
  ASSUME ClientInv, NEW op, Waits(op), c.st \in {"CONN", "SEND", "RESP"}
  PROVE  DoesEarly
  <1>1. c'.st = c.st /\ UNCHANGED <<srv, h, go>>
    BY DEF Waits, ClientInv, Typed, CType
  <1> QED BY <1>1, StatesAre DEF DoesEarly, SameUser

LEMMA EarlyIoErr ==
  ASSUME ClientInv, c.run, c.st \notin {"DONE", "NOOP", "ERR"}, Becomes(IoErr(c)), srv' = srv PROVE DoesEarly
  <1> DEFINE C == IoErr(c)
  <1>1. c \in CType /\ c.reconnects <= MaxReconnect
    BY RunningOK, StatesAre
  <1>2. C \in CType /\ C.st \in {"ERR", "ADDR"}
    BY <1>1, AfterIoErr
  <1>3. Becomes(C)
    OBVIOUS
  <1> HIDE DEF C
  <1> QED BY <1>2, <1>3, StatesAre, EarlyBecomes

LEMMA ClientDoes ==
  ASSUME ClientInv, ClientRuns
  PROVE  c.run /\ (DoesEarly \/ Response \/ DoesWait \/ DoesReceive \/ DoesEnd \/ DoesGive
                   \/ DoesFinish \/ DoesRest)
  <1>0. c \in CType /\ srv \in SType /\ h \in HType /\ go \in BOOLEAN
    BY DEF ClientInv, Typed
  <1>1. ASSUME NEW st \in {"START", "ADDR", "REQ", "PARSE", "RESP", "RESPBODY", "NEXTADDR", "RECVBODY"},
               At(st), NEW to \in {"ERR", "ERR2", "SEND", "RESP"}, Becomes(To(to)), srv' = srv
        PROVE  DoesEarly
    <2>1. c.st \notin {"DONE", "NOOP"} /\ to \in States /\ to \notin InBody \cup {"none", "DONE", "NOOP"}
      BY <1>1, StatesAre DEF At
    <2> QED BY <1>1, <2>1, EarlyTo
  <1>2. ASSUME NEW st \in {"START", "SEND"}, At(st), NEW to \in {"ADDR", "RESP"},
               NEW status \in {"DNS_WAIT", "RESP_WAIT"}, Calls(To(to), status), srv' = srv
        PROVE  DoesEarly
    <2> DEFINE C == To(to)
    <2>1. C \in CType /\ C.st = to /\ Calls(C, status)
      BY <1>0, <1>2, StatesAre, AfterTo
    <2> HIDE DEF C
    <2>2. c.st \notin {"DONE", "NOOP"} /\ C.st \notin InBody \cup {"none", "DONE", "NOOP"}
      BY <1>2, <2>1, StatesAre DEF At
    <2> QED BY <1>2, <2>1, <2>2, EarlyCalls
  <1>3. ASSUME NEW st \in {"SEND", "RESP", "RECVBODY"}, At(st), Becomes(IoErr(c)), srv' = srv
        PROVE  DoesEarly
    <2>1. c.run /\ c.st \notin {"DONE", "NOOP", "ERR"}
      BY <1>3 DEF At
    <2> QED BY <1>3, <2>1, EarlyIoErr
  <1>4. CASE Start
    BY <1>1, <1>2, <1>4 DEF Start, At
  <1>5. CASE Resolve
    <2>0. At("ADDR") /\ srv' = srv
      BY <1>5 DEF Resolve
    <2>1. CASE Becomes(To("ERR"))
      <3>1. c.st \notin {"DONE", "NOOP"} /\ "ERR" \in States
            /\ "ERR" \notin InBody \cup {"none", "DONE", "NOOP"}
        BY <2>0, StatesAre DEF At
      <3>2. DoesEarly
        BY <2>0, <2>1, <3>1, EarlyTo
      <3> QED BY <2>0, <3>2 DEF At
    <2>2. CASE Calls([To("NEXTADDR") EXCEPT !.addr = 1], "IP_WAIT")
      <3> DEFINE D == To("NEXTADDR")
                 C == [D EXCEPT !.addr = 1]
      <3>1. D \in CType /\ D.st = "NEXTADDR" /\ 1 \in 0 .. Addrs + 1
        BY <1>0, StatesAre, AfterTo, Assumed
      <3>2. Calls(C, "IP_WAIT")
        BY <2>2
      <3> HIDE DEF D
      <3>3. C \in CType /\ C.st = "NEXTADDR"
        <4>1. C \in CType
          BY <3>1, Changed
        <4> QED BY <3>1, <4>1 DEF CType
      <3> HIDE DEF C
      <3>4. c.st \notin {"DONE", "NOOP"} /\ srv' = srv /\ c.run
        BY <1>5 DEF Resolve, At
      <3> QED BY <3>2, <3>3, <3>4, StatesAre, EarlyCalls
    <2> QED BY <1>5, <2>1, <2>2 DEF Resolve, At
  <1>6. CASE NextAddr
    <2>0. c.run /\ c.st = "NEXTADDR" /\ srv' = srv /\ At("NEXTADDR")
      BY <1>6 DEF NextAddr, At
    <2>1. CASE Becomes(To("ERR2"))
      BY <1>1, <2>0, <2>1
    <2>2. CASE ~(c.addr > Addrs)
      <3> DEFINE C == [c EXCEPT !.addr = @ + 1]
      <3>1. C \in CType /\ C.st = "NEXTADDR"
        <4>1. c.addr + 1 \in 0 .. Addrs + 1
          BY <1>0, <2>2, Assumed DEF CType
        <4>2. C = [c EXCEPT !.addr = c.addr + 1]
          BY <1>0 DEF CType
        <4> QED BY <1>0, <2>0, <4>1, <4>2, Changed DEF CType
      <3>2. \/ Becomes(C)
            \/ \E st \in {"ERR", "CONN"} : Becomes([C EXCEPT !.open = TRUE, !.st = st])
        BY <1>6, <2>2 DEF NextAddr
      <3> HIDE DEF C
      <3>3. CASE Becomes(C)
        BY <2>0, <3>1, <3>3, StatesAre, EarlyBecomes
      <3>4. ASSUME NEW st \in {"ERR", "CONN"}, Becomes([C EXCEPT !.open = TRUE, !.st = st]) PROVE DoesEarly
        <4> DEFINE D == [C EXCEPT !.open = TRUE]
                   E == [D EXCEPT !.st = st]
        <4>1. D \in CType
          BY <3>1, Changed
        <4>2. [C EXCEPT !.open = TRUE, !.st = st] = E
          BY <3>1 DEF CType
        <4> HIDE DEF D
        <4>3. E \in CType /\ E.st = st
          <5>1. E \in CType
            BY <4>1, StatesAre, Changed
          <5> QED BY <4>1, <5>1 DEF CType
        <4>4. Becomes(E)
          BY <3>4, <4>2
        <4> HIDE DEF E
        <4>5. c.st \notin {"DONE", "NOOP"} /\ E.st \notin InBody \cup {"none", "DONE", "NOOP"}
          BY <2>0, <4>3, StatesAre
        <4> QED BY <2>0, <4>3, <4>4, <4>5, EarlyBecomes
      <3> QED BY <2>0, <3>2, <3>3, <3>4
    <2> QED BY <1>6, <2>0, <2>1, <2>2 DEF NextAddr
  <1>7. CASE Connect
    <2>0. c.run /\ c.st = "CONN"
      BY <1>7 DEF Connect, At
    <2>1. CASE Waits("connect")
      BY <2>0, <2>1, EarlyWaits
    <2>2. CASE Becomes([To("NEXTADDR") EXCEPT !.open = FALSE]) /\ srv' = srv
      <3> DEFINE D == To("NEXTADDR")
                 C == [D EXCEPT !.open = FALSE]
      <3>1. D \in CType /\ D.st = "NEXTADDR"
        BY <1>0, StatesAre, AfterTo
      <3>2. Becomes(C)
        BY <2>2
      <3> HIDE DEF D
      <3>3. C \in CType /\ C.st = "NEXTADDR"
        <4>1. C \in CType
          BY <3>1, Changed
        <4> QED BY <3>1, <4>1 DEF CType
      <3> HIDE DEF C
      <3> QED BY <2>0, <2>2, <3>2, <3>3, StatesAre, EarlyBecomes
    <2>3. CASE Calls([To("REQ") EXCEPT !.addr = 0], "REQ_WAIT") /\ srv' = srv
      <3> DEFINE D == To("REQ")
                 C == [D EXCEPT !.addr = 0]
      <3>1. D \in CType /\ D.st = "REQ" /\ 0 \in 0 .. Addrs + 1
        BY <1>0, StatesAre, AfterTo, Assumed
      <3>2. Calls(C, "REQ_WAIT")
        BY <2>3
      <3> HIDE DEF D
      <3>3. C \in CType /\ C.st = "REQ"
        <4>1. C \in CType
          BY <3>1, Changed
        <4> QED BY <3>1, <4>1 DEF CType
      <3> HIDE DEF C
      <3> QED BY <2>0, <2>3, <3>2, <3>3, StatesAre, EarlyCalls
    <2> QED BY <1>7, <2>0, <2>1, <2>2, <2>3 DEF Connect
  <1>8. CASE Prepare
    BY <1>1, <1>8 DEF Prepare, At
  <1>9. CASE Send
    <2>1. CASE Waits("send")
      BY <1>9, <2>1, EarlyWaits DEF Send, At
    <2>2. CASE Becomes(IoErr(c)) /\ srv' = srv
      BY <1>3, <1>9, <2>2 DEF Send, At
    <2>3. CASE Calls(To("RESP"), "RESP_WAIT") /\ srv' = srv
      BY <1>2, <1>9, <2>3 DEF Send, At
    <2> QED BY <1>9, <2>1, <2>2, <2>3 DEF Send, At
  <1>10. CASE RecvHdrs
    <2>0. c.run /\ c.st = "RESP" /\ At("RESP")
      BY <1>10 DEF RecvHdrs, At
    <2>1. CASE Becomes(To("ERR")) /\ srv' = srv
      BY <1>1, <2>0, <2>1
    <2>2. CASE Waits("recv")
      BY <2>0, <2>2, EarlyWaits
    <2>3. CASE Becomes(IoErr(c)) /\ srv' = srv
      BY <1>3, <2>0, <2>3
    <2>4. CASE c.hdrs # HdrBuf /\ Becomes([To("PARSE") EXCEPT !.hdrs = @ + 1]) /\ srv' = srv
      <3> DEFINE D == To("PARSE")
                 C == [D EXCEPT !.hdrs = @ + 1]
      <3>1. D \in CType /\ D.st = "PARSE" /\ D.hdrs = c.hdrs
        BY <1>0, StatesAre, AfterTo
      <3>2. Becomes(C)
        BY <2>4
      <3>3. c.hdrs + 1 \in 0 .. HdrBuf
        BY <1>0, <2>4, Assumed DEF CType
      <3> HIDE DEF D
      <3>4. C = [D EXCEPT !.hdrs = c.hdrs + 1]
        BY <3>1 DEF CType
      <3>5. C \in CType /\ C.st = "PARSE"
        <4>1. C \in CType
          BY <3>1, <3>3, <3>4, Changed
        <4> QED BY <3>1, <4>1 DEF CType
      <3> HIDE DEF C
      <3> QED BY <2>0, <2>4, <3>2, <3>5, StatesAre, EarlyBecomes
    <2> QED BY <1>10, <2>0, <2>1, <2>2, <2>3, <2>4 DEF RecvHdrs
  <1>11. CASE HeadersOnly
    <2>0. c.run /\ c.st = "PARSE" /\ At("PARSE") /\ srv' = srv
      BY <1>11 DEF HeadersOnly, At
    <2>1. CASE Becomes(To("RESP")) \/ Becomes(To("ERR"))
      BY <1>1, <2>0, <2>1
    <2>2. CASE c.nredirect # MaxRedirect /\ Becomes([Disconnected(To("ADDR")) EXCEPT !.nredirect = @ + 1])
      <3> DEFINE D == To("ADDR")
                 E == Disconnected(D)
                 C == [E EXCEPT !.nredirect = @ + 1]
      <3>1. D \in CType /\ D.st = "ADDR" /\ D.nredirect = c.nredirect
        BY <1>0, StatesAre, AfterTo
      <3>2. Becomes(C)
        BY <2>2
      <3> HIDE DEF D
      <3>3. E \in CType /\ E.st = "ADDR" /\ E.nredirect = c.nredirect
        BY <3>1, AfterDisconnected
      <3> HIDE DEF E
      <3>4. c.nredirect + 1 \in 0 .. MaxRedirect
        BY <1>0, <2>2, Assumed DEF CType
      <3>5. C = [E EXCEPT !.nredirect = c.nredirect + 1]
        BY <3>3 DEF CType
      <3>6. C \in CType /\ C.st = "ADDR"
        <4>1. C \in CType
          BY <3>3, <3>4, <3>5, Changed
        <4> QED BY <3>3, <4>1 DEF CType
      <3> HIDE DEF C
      <3> QED BY <2>0, <3>2, <3>6, StatesAre, EarlyBecomes
    <2> QED BY <1>11, <2>0, <2>1, <2>2 DEF HeadersOnly
  <1>12. CASE Response
    BY <1>12 DEF Response, At
  <1>13. CASE RecvBody
    <2>0. c.run /\ c.st = "RECVBODY" /\ At("RECVBODY")
      BY <1>13 DEF RecvBody, At
    <2>1. CASE Waits("recv")
      BY <1>0, <2>0, <2>1 DEF Waits, DoesWait, CType
    <2>2. CASE Becomes(IoErr(c)) /\ srv' = srv
      BY <1>3, <2>0, <2>2
    <2>3. CASE srv' = srv /\ srv.body = "close" /\ CallsAndGoesOn([To("DONE") EXCEPT !.out = <<>>], "RESP_RECV")
      <3> DEFINE D == To("DONE")
                 C == [D EXCEPT !.out = <<>>]
      <3>1. D \in CType /\ D.st = "DONE" /\ D.run = c.run /\ <<>> \in Raw
        BY <1>0, StatesAre, AfterTo DEF Raw
      <3>2. CallsAndGoesOn(C, "RESP_RECV")
        BY <2>3
      <3> HIDE DEF D
      <3>3. C \in CType /\ C.st = "DONE" /\ C.out = <<>> /\ C.run = c.run
        <4>1. C \in CType
          BY <3>1, Changed
        <4> QED BY <3>1, <4>1 DEF CType
      <3> HIDE DEF C
      <3>4. "RESP_RECV" \in Statuses /\ ~SendsOn("RESP_RECV")
        BY StatesAre DEF SendsOn
      <3>5. c'.st = "DONE" /\ h' = Heard("RESP_RECV", C) /\ go' /\ c'.run = c.run
        BY <3>2, <3>3, <3>4, AfterCallsOn DEF ClientInv
      <3>6. h'.status = "RESP_RECV" /\ h'.st = h.st /\ h'.reset = h.reset /\ h'.data = <<>>
        BY <1>0, <3>3, <3>4, <3>5, AfterHeard
      <3> QED BY <2>0, <2>3, <3>5, <3>6 DEF DoesEnd, SameUser
    <2>4. CASE srv' = srv /\ Becomes(To("ERR"))
      BY <1>1, <2>0, <2>4
    <2>5. ASSUME NEW last \in srv.next .. Len(Wire(srv.body)),
                 Becomes([To("RESPBODY") EXCEPT !.buf = AllOf(srv.next, last)]),
                 srv' = [srv EXCEPT !.next = last + 1]
          PROVE  DoesReceive
      <3> DEFINE D == To("RESPBODY")
                 s == AllOf(srv.next, last)
                 C == [D EXCEPT !.buf = s]
      <3>0. srv.next \in Nat \ {0} /\ last \in Nat /\ last <= Len(Wire(srv.body)) /\ srv.next <= last + 1
        BY <1>0, WireIs, Assumed DEF SType
      <3>1. D \in CType /\ D.st = "RESPBODY" /\ D.run = c.run
        BY <1>0, StatesAre, AfterTo
      <3>2. Becomes(C)
        BY <2>5
      <3>3. s \in Raw /\ s = SubSeq(Wire(srv.body), srv.next, last)
        BY <3>0, WirePart DEF AllOf
      <3> HIDE DEF D, s
      <3>4. C \in CType /\ C.st = "RESPBODY" /\ C.buf = s /\ C.run = c.run
        <4>1. C \in CType
          BY <3>1, <3>3, Changed
        <4> QED BY <3>1, <4>1 DEF CType
      <3> HIDE DEF C
      <3>5. c'.st = "RESPBODY" /\ c'.buf = s /\ h' = h /\ go' = go /\ c'.run = c.run
        BY <3>2, <3>4, AfterBecomes DEF ClientInv
      <3> QED BY <2>0, <2>5, <3>3, <3>5 DEF DoesReceive
    <2> QED BY <1>13, <2>0, <2>1, <2>2, <2>3, <2>4, <2>5 DEF RecvBody
  <1>14. CASE FilterBody
    <2> DEFINE D == [c EXCEPT !.out = Filtered, !.buf = Rest]
    <2>0. c.run /\ c.st = "RESPBODY" /\ srv' = srv /\ At("RESPBODY")
          /\ D \in CType /\ D.run = c.run /\ D.out = Filtered /\ D.buf = Rest
          /\ D.tmr = c.tmr /\ D.op = c.op
      BY <1>14, FilterCases DEF At
    <2>00. ~c.tmr /\ c.op = "none"
      BY <2>0, RunningOK, StatesAre
    <2>1. \/ Becomes(To("ERR"))
          \/ BodyEnds /\ CallsAndGoesOn([D EXCEPT !.st = "DONE"], "RESP_RECV")
          \/ ~BodyEnds /\ Calls([D EXCEPT !.st = IF Rest = <<>> THEN "RECVBODY" ELSE "RESPBODY"],
                                "RESP_RECV")
      BY <1>14, FilterCases
    <2> HIDE DEF D
    <2>2. "RESP_RECV" \in Statuses /\ ~SendsOn("RESP_RECV")
      BY StatesAre DEF SendsOn
    <2>3. CASE Becomes(To("ERR"))
      BY <1>1, <2>0, <2>3
    <2>4. ASSUME NEW st \in {"DONE", "RECVBODY", "RESPBODY"}
          PROVE  LET C == [D EXCEPT !.st = st] IN
                 /\ C \in CType /\ C.st = st /\ C.run = c.run /\ C.out = Filtered /\ C.buf = Rest
                 /\ C.tmr = c.tmr /\ C.op = c.op
      <3>1. [D EXCEPT !.st = st] \in CType
        BY <2>0, StatesAre, Changed
      <3> QED BY <2>0, <3>1 DEF CType
    <2>5. CASE BodyEnds /\ CallsAndGoesOn([D EXCEPT !.st = "DONE"], "RESP_RECV")
      <3> DEFINE C == [D EXCEPT !.st = "DONE"]
      <3>1. C \in CType /\ C.st = "DONE" /\ C.run = c.run /\ C.out = Filtered
        BY <2>4
      <3>2. CallsAndGoesOn(C, "RESP_RECV")
        BY <2>5
      <3> HIDE DEF C
      <3>3. c'.st = "DONE" /\ h' = Heard("RESP_RECV", C) /\ go' /\ c'.run = c.run
        BY <2>2, <3>1, <3>2, AfterCallsOn DEF ClientInv
      <3>4. h'.status = "RESP_RECV" /\ h'.st = h.st /\ h'.reset = h.reset /\ h'.data = Filtered
        BY <1>0, <2>2, <3>1, <3>3, AfterHeard
      <3> QED BY <2>0, <2>5, <3>3, <3>4 DEF DoesEnd, SameUser
    <2>6. CASE ~BodyEnds /\ Calls([D EXCEPT !.st = IF Rest = <<>> THEN "RECVBODY" ELSE "RESPBODY"],
                                  "RESP_RECV")
      <3> DEFINE st == IF Rest = <<>> THEN "RECVBODY" ELSE "RESPBODY"
                 C == [D EXCEPT !.st = st]
      <3>1. C \in CType /\ C.st = st /\ C.out = Filtered /\ C.buf = Rest /\ C.tmr = c.tmr /\ C.op = c.op
        BY <2>4
      <3>2. Calls(C, "RESP_RECV")
        BY <2>6
      <3> HIDE DEF C
      <3>3. /\ c'.st = st /\ h' = Heard("RESP_RECV", C) /\ go' /\ ~c'.run /\ c'.buf = Rest
            /\ c'.tmr = c.tmr /\ c'.op = c.op
        BY <2>2, <3>1, <3>2, AfterCalls DEF ClientInv
      <3>4. h'.status = "RESP_RECV" /\ h'.st = h.st /\ h'.reset = h.reset /\ h'.data = Filtered
        BY <1>0, <2>2, <3>1, <3>3, AfterHeard
      <3> QED BY <2>0, <2>00, <2>6, <3>3, <3>4 DEF DoesGive, SameUser
    <2> QED BY <2>0, <2>1, <2>3, <2>5, <2>6
  <1>15. CASE Finish
    <2>1. ASSUME NEW st \in {"DONE", "ERR", "ERR2"}, NEW status \in {"DONE", "ERR", "ENOADDR"},
                 At(st), Calls(To("NOOP"), status), srv' = srv,
                 IF st = "DONE" THEN status = "DONE" ELSE status # "DONE"
          PROVE  c.run /\ DoesFinish
      <3> DEFINE C == To("NOOP")
      <3>1. C \in CType /\ C.st = "NOOP" /\ Calls(C, status)
        BY <1>0, <2>1, StatesAre, AfterTo
      <3> HIDE DEF C
      <3>2. status \in Statuses /\ ~SendsOn(status) /\ status # "RESP_RECV"
        BY StatesAre DEF SendsOn
      <3>3. c'.st = "NOOP" /\ h' = Heard(status, C) /\ go' /\ ~c'.run
        BY <3>1, <3>2, AfterCalls DEF ClientInv
      <3>4. h'.status = status /\ h'.st = h.st /\ h'.reset = h.reset /\ h'.data = h.data
        BY <1>0, <3>1, <3>2, <3>3, AfterHeard
      <3>5. c.run /\ c.st = st
        BY <2>1 DEF At
      <3> QED BY <2>1, <3>3, <3>4, <3>5 DEF DoesFinish, SameUser
    <2>2. CASE At("NOOP") /\ Becomes([c EXCEPT !.run = FALSE]) /\ srv' = srv
      <3> DEFINE C == [c EXCEPT !.run = FALSE]
      <3>1. C \in CType /\ C.st = "NOOP" /\ C.run = FALSE /\ c.st = "NOOP" /\ c.run
        BY <1>0, <2>2 DEF CType, At
      <3>2. Becomes(C)
        BY <2>2
      <3> HIDE DEF C
      <3>3. c'.st = "NOOP" /\ ~c'.run /\ h' = h /\ go' = go
        BY <3>1, <3>2, AfterBecomes DEF ClientInv
      <3> QED BY <2>2, <3>1, <3>3 DEF DoesRest
    <2> QED BY <1>15, <2>1, <2>2 DEF Finish
  <1> QED BY <1>4, <1>5, <1>6, <1>7, <1>8, <1>9, <1>10, <1>11, <1>12, <1>13, <1>14, <1>15 DEF ClientRuns, At,
             Start, Prepare

-----------------------------------------------------------------------------
(* The track and its client take turns: who is at work, and what the other then
   waits for. *)
TType == [at : {"wait", "http", "icy", "out", "closed"}, stop : BOOLEAN, whole : BOOLEAN]

TurnOK ==
    /\ trk.at = "closed" => c = NoClient /\ h = NoUser /\ ~go /\ ~trk.stop
    /\ trk.whole => trk.at = "closed"
    /\ trk.at \in {"wait", "http"} => icy.data = <<>>
    /\ trk.at \in {"http", "icy", "out"} /\ ~trk.stop => ~go
    /\ trk.at \in {"icy", "out"} => h.st = 2
    /\ trk.at = "icy" => ~trk.stop
    /\ trk.at = "wait" => h.st # 2
    /\ h.st = 0 => c = NoClient /\ h = NoUser
    /\ h.st = 2 => ~c.run /\ ~c.tmr /\ c.op = "none" /\ c.st \in InBody
    /\ h.st # 0 => c.st # "none"
    /\ h.st = 3 /\ ~trk.stop => ~c.run /\ ~c.tmr /\ c.op = "none"
    /\ trk.at = "http" /\ h.st = 1 /\ ~trk.stop /\ h.status = "RESP_RECV" => c.st # "DONE"

(* The track has been told of the response's data, or of its end, and has not yet
   looked at it. *)
Told == h.st = 1 /\ ~trk.stop /\ (trk.at = "http" \/ (trk.at = "wait" /\ go))
ToldOK ==
    Told => \/ /\ h.status = "RESP_RECV"
               /\ ~c.tmr /\ c.op = "none"
               /\ IF c.run THEN c.st = "DONE" ELSE c.st \in InBody
            \/ h.status # "RESP_RECV" /\ c.st = "NOOP"

Control == ClientInv /\ trk \in TType /\ TurnOK /\ ToldOK

Still == UNCHANGED chainVars

(* Whoever has data or an end to look at, the client runs for a request only. *)
LEMMA ClientsTurn ==
  ASSUME Control, c.run \/ c.op # "none" \/ c.tmr
  PROVE  /\ trk.at \in {"wait", "http"} /\ h.st \in {1, 3} /\ (h.st = 3 => trk.stop)
         /\ icy.data = <<>> /\ ~trk.whole
         /\ c.st # "none"
  <1>1. h.st \in 0 .. 3 /\ trk.at \in {"wait", "http", "icy", "out", "closed"}
    BY DEF Control, ClientInv, Typed, HType, TType
  <1>2. h.st # 0 /\ trk.at # "closed"
    BY DEF Control, TurnOK, NoClient
  <1>3. h.st # 2
    BY DEF Control, TurnOK
  <1>4. trk.at \in {"wait", "http"}
    BY <1>1, <1>2, <1>3 DEF Control, TurnOK
  <1>5. h.st = 3 => trk.stop
    BY DEF Control, TurnOK
  <1> QED BY <1>1, <1>2, <1>3, <1>4, <1>5 DEF Control, TurnOK

(* A client that runs on its own has not told anything. *)
LEMMA NotTold ==
  ASSUME Control, c.run, c.st \notin {"DONE", "NOOP"}
  PROVE  ~Told
  BY DEF Control, ToldOK

LEMMA EarlyControl ==
  ASSUME Control, ClientInv', c.run, DoesEarly, Still PROVE TurnOK' /\ ToldOK' /\ ~Told' /\ ~Told
  <1>0. UNCHANGED <<trk, icy>> /\ trk \in TType
    BY DEF Still, chainVars, Control
  <1>1. ~Told
    BY NotTold DEF DoesEarly
  <1>2. ~Told'
    BY <1>0, <1>1 DEF Told, DoesEarly, SameUser
  <1>3. TurnOK'
    BY <1>0, ClientsTurn DEF TurnOK, Control, DoesEarly, SameUser
  <1> QED BY <1>1, <1>2, <1>3 DEF ToldOK

LEMMA ResponseControl ==
  ASSUME Control, ClientInv', c.run, Response, Still PROVE TurnOK' /\ ToldOK' /\ ~Told /\ ~Told'
  <1>0. UNCHANGED <<trk, icy>> /\ trk \in TType /\ c.st = "PARSE"
    BY DEF Still, chainVars, Control, Response, At
  <1>1. ~Told
    BY <1>0, NotTold
  <1>2. /\ trk.at \in {"wait", "http"} /\ h.st \in {1, 3} /\ (h.st = 3 => trk.stop)
        /\ icy.data = <<>> /\ ~trk.whole
    BY ClientsTurn
  <1>3. ~c.tmr /\ c.op = "none"
    BY <1>0, RunningOK, StatesAre DEF Control
  <1>4. PICK useful \in BOOLEAN :
            /\ c'.st \in {"DONE", "RESPBODY"} /\ c'.run = useful /\ c'.tmr = c.tmr /\ c'.op = c.op
            /\ h'.status = "RESP" /\ h'.st = (IF useful THEN h.st ELSE 3)
            /\ go' = (go \/ ~useful)
    BY AfterResponse DEF Control
  <1>5. ~Told'
    BY <1>0, <1>1, <1>2, <1>4 DEF Told
  <1>6. trk.at \in {"http"} /\ ~trk.stop => ~go'
    BY <1>0, <1>1, <1>2, <1>4 DEF Told
  <1>7. TurnOK'
    BY <1>0, <1>2, <1>3, <1>4, <1>6 DEF TurnOK
  <1> QED BY <1>1, <1>5, <1>7 DEF ToldOK

LEMMA EndsControl ==
  ASSUME Control, ClientInv', c.run, DoesWait \/ DoesReceive \/ DoesEnd \/ DoesGive \/ DoesFinish \/ DoesRest,
         Still
  PROVE  TurnOK' /\ ToldOK'
  <1>0. UNCHANGED <<trk, icy>> /\ trk \in TType
    BY DEF Still, chainVars, Control
  <1>2. /\ trk.at \in {"wait", "http"} /\ h.st \in {1, 3} /\ (h.st = 3 => trk.stop)
        /\ icy.data = <<>> /\ ~trk.whole
    BY ClientsTurn
  <1>3. c'.run => ~c'.tmr /\ (c'.op = "none" \/ c'.st \in Gone)
    BY DEF ClientInv, ClientOK
  <1>4. h'.st = h.st /\ c'.st \notin {"none"}
    BY StatesAre DEF DoesWait, DoesReceive, DoesEnd, DoesGive, DoesFinish, DoesRest, SameUser
  <1>5. c.st \notin {"DONE", "NOOP"} => ~Told
    BY NotTold
  <1>6. ASSUME Told PROVE trk.at = "http" => c.st # "DONE"
    BY <1>6 DEF Told, Control, TurnOK, ToldOK
  <1>. USE <1>0, <1>2, <1>4
  <1>7. CASE DoesWait \/ DoesReceive
    <2>0. c.st = "RECVBODY" /\ h' = h /\ go' = go
      BY <1>7 DEF DoesWait, DoesReceive
    <2>1. ~Told /\ ~Told'
      <3>1. ~Told
        BY <1>5, <2>0
      <3> QED BY <2>0, <3>1 DEF Told
    <2>2. TurnOK'
      BY <1>7, <2>1 DEF TurnOK, Told, Control, DoesWait, DoesReceive
    <2> QED BY <2>1, <2>2 DEF ToldOK
  <1>8. CASE DoesEnd \/ DoesGive
    <2>1. ~Told
      BY <1>5, <1>8, StatesAre DEF DoesEnd, DoesGive
    <2>2. ~(trk.at = "http" /\ ~trk.stop)
      <3>1. ASSUME trk.at = "http", ~trk.stop PROVE FALSE
        BY <2>1, <3>1 DEF Told
      <3> QED BY <3>1
    <2>3. TurnOK'
      BY <2>2 DEF TurnOK
    <2>4. ToldOK'
      BY <1>3, <1>8, StatesAre DEF ToldOK, Told, DoesEnd, DoesGive
    <2> QED BY <2>3, <2>4
  <1>9. CASE DoesFinish
    <2>1. ~(trk.at = "http" /\ ~trk.stop)
      <3>1. ASSUME trk.at = "http", ~trk.stop PROVE FALSE
        BY <1>6, <1>9, <3>1 DEF Told, DoesFinish, Control, ToldOK
      <3> QED BY <3>1
    <2>2. TurnOK'
      BY <2>1 DEF TurnOK
    <2>3. ToldOK'
      BY <1>9 DEF ToldOK, Told, DoesFinish
    <2> QED BY <2>2, <2>3
  <1>10. CASE DoesRest
    <2>1. TurnOK' /\ ToldOK'
      BY <1>10, StatesAre DEF TurnOK, ToldOK, Told, Control, DoesRest
    <2> QED BY <2>1
  <1> QED BY <1>7, <1>8, <1>9, <1>10

(* The kernel's report, and the timer. *)
LEMMA EventControl ==
  ASSUME Control, Event \/ Timeout, Still PROVE ClientInv' /\ TurnOK' /\ ToldOK'
  <1>0. UNCHANGED <<trk, icy>> /\ trk \in TType
    BY DEF Still, chainVars, Control
  <1>1. /\ ClientInv' /\ UNCHANGED <<srv, h, go>> /\ ~c.run /\ (c.op # "none" \/ c.tmr)
        /\ c'.st = c.st \/ (c.tmr /\ c'.st \in {"ERR", "ADDR"})
    BY EventOK, TimeoutOK DEF Control
  <1>2. /\ trk.at \in {"wait", "http"} /\ h.st \in {1, 3} /\ (h.st = 3 => trk.stop)
        /\ icy.data = <<>> /\ ~trk.whole /\ c.st # "none"
    BY <1>1, ClientsTurn
  <1>3. Told => h.status # "RESP_RECV" /\ c.st = "NOOP"
    BY <1>1 DEF Control, ToldOK, ClientInv, ClientOK
  <1>4. c.tmr => c.st # "NOOP"
    BY DEF Control, ClientInv, ClientOK
  <1>5. ToldOK'
    BY <1>0, <1>1, <1>3, <1>4 DEF ToldOK, Told
  <1>6. TurnOK'
    BY <1>0, <1>1, <1>2, <1>3 DEF TurnOK, Told, Control
  <1> QED BY <1>1, <1>5, <1>6

(* The same for the track's own steps. *)

LEMMA ClosedControl ==
  ASSUME Control, NEW whole \in BOOLEAN, Closed(whole)
  PROVE  Control' /\ ~Told'
  <1>1. /\ trk' = [at |-> "closed", stop |-> FALSE, whole |-> whole]
        /\ c' = NoClient /\ h' = NoUser /\ go' = FALSE
        /\ srv' \in {srv, NoResponse}
    BY DEF Closed
  <1>2. NoClient \in CType
    BY Assumed, StatesAre DEF NoClient, CType, Raw
  <1>3. NoUser \in HType /\ NoResponse \in SType
    BY Assumed, StatesAre DEF NoUser, HType, Raw, NoResponse, SType
  <1>4. Typed'
    BY <1>1, <1>2, <1>3 DEF Typed, Control, ClientInv
  <1>5. ClientOK'
    BY <1>1, Assumed, StatesAre DEF ClientOK, NoClient
  <1>6. trk' \in TType /\ TurnOK'
    BY <1>1, StatesAre DEF TType, TurnOK, NoClient, NoUser
  <1>7. ~Told'
    BY <1>1 DEF Told, NoUser
  <1> QED BY <1>4, <1>5, <1>6, <1>7 DEF Control, ClientInv, ToldOK

LEMMA SentControl ==
  ASSUME Control, NEW C \in CType, Sent(C, 1), trk.at = "http", ~trk.stop,
         C.run, ~C.tmr, C.op = "none", C.out = <<>>, C.st \in {"START"} \cup InBody,
         C.st \in InBody => C.open, ~(C.reconnects > MaxReconnect)
  PROVE  Control' /\ ~Told' /\ UNCHANGED <<srv, go, icy, copy, got, stream, gap>>
         /\ c' = C /\ h' \in HType /\ h'.reset = h.reset /\ h'.st = 1 /\ trk' = [trk EXCEPT !.at = "wait"]
  <1>1. /\ c' = C /\ h' = [h EXCEPT !.st = 1] /\ trk' = [trk EXCEPT !.at = "wait"]
        /\ UNCHANGED <<srv, go, icy, copy, got, stream, gap>>
    BY DEF Sent
  <1>2. h \in HType /\ trk \in TType /\ ~go /\ icy.data = <<>> /\ ~trk.whole
    BY DEF Control, ClientInv, Typed, TurnOK
  <1>3. /\ h' \in HType /\ h'.st = 1 /\ h'.reset = h.reset
    BY <1>1, <1>2 DEF HType
  <1>4. trk' \in TType /\ trk'.at = "wait" /\ trk'.stop = trk.stop /\ ~trk'.whole
    BY <1>1, <1>2 DEF TType
  <1>5. Typed'
    BY <1>1, <1>3 DEF Typed, Control, ClientInv
  <1>6. ClientOK'
    BY <1>1, StatesAre DEF ClientOK
  <1>7. ~Told'
    BY <1>1, <1>2, <1>4 DEF Told
  <1>8. TurnOK'
    BY <1>1, <1>2, <1>3, <1>4, StatesAre DEF TurnOK
  <1> QED BY <1>1, <1>3, <1>4, <1>5, <1>6, <1>7, <1>8 DEF Control, ClientInv, ToldOK

LEMMA TaskRunsControl ==
  ASSUME Control, TaskRuns PROVE Control' /\ (Told' <=> Told)
  <1>1. ~c.run /\ trk.at = "wait" /\ go /\ ~go' /\ trk' = [trk EXCEPT !.at = "http"] /\ trk \in TType
        /\ UNCHANGED <<c, srv, h, icy, copy, got, stream, gap>>
    BY DEF TaskRuns, Idle, Control
  <1>2. trk' \in TType /\ trk'.at = "http" /\ trk'.stop = trk.stop /\ trk'.whole = trk.whole
    BY <1>1 DEF TType
  <1>3. Told' <=> Told
    BY <1>1, <1>2 DEF Told
  <1>4. ToldOK'
    BY <1>1, <1>3 DEF ToldOK, Control
  <1>5. ~c.run /\ c.st = "DONE" /\ h.status = "RESP_RECV" => ~Told
    BY StatesAre DEF ToldOK, Control
  <1>6. TurnOK'
    BY <1>1, <1>2, <1>5 DEF TurnOK, Told, Control
  <1>7. ClientInv'
    <2>1. go' = FALSE
      BY DEF TaskRuns
    <2> QED BY <1>1, <2>1 DEF Control, ClientInv, Typed, ClientOK
  <1> QED BY <1>2, <1>3, <1>4, <1>6, <1>7 DEF Control

LEMMA HttpOpenControl ==
  ASSUME Control, HttpOpen PROVE Control' /\ ~Told'
  <1>1. trk.at = "http" /\ ~trk.stop /\ (Closed(FALSE) \/ Sent([NoClient EXCEPT !.st = "START", !.run = TRUE], 1))
    BY DEF HttpOpen, AtHttp
  <1>2. CASE Closed(FALSE)
    BY <1>2, ClosedControl
  <1>3. CASE Sent([NoClient EXCEPT !.st = "START", !.run = TRUE], 1)
    <2> DEFINE C == [NoClient EXCEPT !.st = "START", !.run = TRUE]
    <2>1. C \in CType
      <3>1. NoClient \in CType
        BY Assumed, StatesAre DEF NoClient, CType, Raw
      <3> HIDE DEF C
      <3>2. C = [NoClient EXCEPT !.st = "START", !.run = TRUE]
        BY DEF C
      <3> QED BY <3>1, <3>2, StatesAre DEF CType
    <2>2. /\ C.run /\ ~C.tmr /\ C.op = "none" /\ C.out = <<>> /\ C.st = "START"
          /\ ~(C.reconnects > MaxReconnect)
      BY Assumed DEF NoClient
    <2>3. Sent(C, 1)
      BY <1>3
    <2> HIDE DEF C
    <2> QED BY <1>1, <2>1, <2>2, <2>3, StatesAre, SentControl
  <1> QED BY <1>1, <1>2, <1>3

LEMMA HttpNextControl ==
  ASSUME Control, HttpNext
  PROVE  /\ Control' /\ ~Told' /\ ~Told /\ UNCHANGED <<srv, go, icy, copy, got, stream, gap>>
         /\ h'.reset = h.reset /\ h'.st = 1 /\ c'.buf = c.buf /\ c'.st = c.st /\ c.st \in InBody
         /\ trk' = [trk EXCEPT !.at = "wait"]
  <1> DEFINE C == [c EXCEPT !.run = TRUE]
  <1>1. /\ trk.at = "http" /\ ~trk.stop /\ h.st = 2 /\ Sent(C, 1)
    BY DEF HttpNext, AtHttp
  <1>2. c \in CType /\ ~c.tmr /\ c.op = "none" /\ c.st \in InBody /\ c.out = <<>> /\ c.open
        /\ ~(c.reconnects > MaxReconnect)
    BY <1>1, StatesAre DEF Control, ClientInv, ClientOK, Typed, TurnOK
  <1>3. /\ C \in CType /\ C.run /\ ~C.tmr /\ C.op = "none" /\ C.out = <<>> /\ C.st = c.st /\ C.open = c.open
        /\ C.reconnects = c.reconnects /\ C.buf = c.buf
    BY <1>2 DEF CType
  <1>4. ~Told
    BY <1>1 DEF Told
  <1> HIDE DEF C
  <1>5. /\ Control' /\ ~Told' /\ UNCHANGED <<srv, go, icy, copy, got, stream, gap>>
        /\ c' = C /\ h'.reset = h.reset /\ h'.st = 1 /\ trk' = [trk EXCEPT !.at = "wait"]
    <2>1. C.st \in {"START"} \cup InBody /\ (C.st \in InBody => C.open) /\ ~(C.reconnects > MaxReconnect)
      BY <1>2, <1>3
    <2> QED BY <1>1, <1>3, <2>1, SentControl
  <1> QED BY <1>2, <1>3, <1>4, <1>5

LEMMA HttpDataControl ==
  ASSUME Control, HttpData
  PROVE  /\ Control' /\ ~Told' /\ Told /\ UNCHANGED <<c, srv, go, copy, got, stream, gap>>
         /\ h'.reset = h.reset /\ h'.st = 2 /\ h.status = "RESP_RECV" /\ trk.at = "http" /\ ~trk.stop
         /\ icy' = [icy EXCEPT !.data = h.data, !.open = TRUE] /\ trk' = [trk EXCEPT !.at = "icy"]
  <1>1. /\ trk.at = "http" /\ ~trk.stop /\ h.st = 1 /\ h.status = "RESP_RECV"
        /\ h' = [h EXCEPT !.st = 2] /\ trk' = [trk EXCEPT !.at = "icy"]
        /\ icy' = [icy EXCEPT !.data = h.data, !.open = TRUE]
        /\ UNCHANGED <<c, srv, go, copy, got, stream, gap>>
    BY DEF HttpData, AtHttp
  <1>2. h \in HType /\ trk \in TType /\ ~go /\ ~trk.whole /\ Told /\ c.st # "DONE"
    BY <1>1 DEF Control, ClientInv, Typed, TurnOK, Told
  <1>3. ~c.run /\ ~c.tmr /\ c.op = "none" /\ c.st \in InBody
    BY <1>1, <1>2 DEF Control, ToldOK
  <1>4. h' \in HType /\ h'.st = 2 /\ h'.reset = h.reset
    BY <1>1, <1>2 DEF HType
  <1>5. trk' \in TType /\ trk'.at = "icy" /\ trk'.stop = trk.stop /\ ~trk'.whole
    BY <1>1, <1>2 DEF TType
  <1>6. ClientInv'
    BY <1>1, <1>4 DEF Control, ClientInv, Typed, ClientOK
  <1>7. ~Told'
    BY <1>4 DEF Told
  <1>8. TurnOK'
    BY <1>1, <1>2, <1>3, <1>4, <1>5, StatesAre DEF TurnOK
  <1> QED BY <1>1, <1>2, <1>4, <1>5, <1>6, <1>7, <1>8 DEF Control, ToldOK

LEMMA HttpEndsControl ==
  ASSUME Control, HttpEnds
  PROVE  /\ Control' /\ ~Told'
         /\ \E whole \in BOOLEAN :
               /\ Closed(whole)
               /\ whole => trk.at = "http" /\ ~trk.stop /\ h.st = 1 /\ h.status = "DONE"
  <1> DEFINE whole == ~trk.stop /\ h.st = 1 /\ h.status = "DONE"
  <1>1. trk.at = "http" /\ Closed(whole) /\ whole \in BOOLEAN
    BY DEF HttpEnds, Control, TType
  <1>2. whole => ~trk.stop /\ h.st = 1 /\ h.status = "DONE"
    OBVIOUS
  <1> HIDE DEF whole
  <1> QED BY <1>1, <1>2, ClosedControl

LEMMA OutEndsControl ==
  ASSUME Control, OutEnds PROVE Control' /\ ~Told' /\ Closed(FALSE)
  BY ClosedControl DEF OutEnds

(* The filter icy's steps, which leave the client alone. *)
LEMMA IcyControl ==
  ASSUME Control, IcyReset \/ IcyTitle \/ IcyData \/ IcyMore \/ OutAsks
  PROVE  /\ Control' /\ ~Told' /\ ~Told /\ UNCHANGED <<c, srv, go>>
         /\ h'.st = 2 /\ h.st = 2 /\ ~trk.stop' /\ ~trk.whole'
  <1>1. /\ trk.at \in {"icy", "out"} /\ ~trk.stop /\ UNCHANGED <<c, srv, go>>
        /\ h' = h \/ h' = [h EXCEPT !.reset = FALSE]
        /\ trk' \in {trk, [trk EXCEPT !.at = "out"], [trk EXCEPT !.at = "icy"]}
           \/ (trk' = [trk EXCEPT !.at = "http"] /\ icy.data = <<>> /\ icy' = icy)
    BY DEF IcyReset, IcyTitle, IcyData, IcyMore, OutAsks, AtIcy, clientVars
  <1>2. h \in HType /\ trk \in TType /\ ~go /\ ~trk.whole /\ h.st = 2 /\ go \in BOOLEAN
    BY <1>1 DEF Control, ClientInv, Typed, TurnOK
  <1>3. h' \in HType /\ h'.st = 2
    BY <1>1, <1>2 DEF HType
  <1>4. trk' \in TType /\ trk'.stop = trk.stop /\ ~trk'.whole
        /\ (trk'.at \in {"icy", "out"} \/ (trk'.at = "http" /\ icy'.data = <<>>))
    BY <1>1, <1>2 DEF TType
  <1>5. ClientInv'
    BY <1>1, <1>3 DEF Control, ClientInv, Typed, ClientOK
  <1>6. ~Told' /\ ~Told
    BY <1>2, <1>3 DEF Told
  <1>7. TurnOK'
    <2>1. ~c.run /\ ~c.tmr /\ c.op = "none" /\ c.st \in InBody
      BY <1>2 DEF Control, TurnOK
    <2> QED BY <1>1, <1>2, <1>3, <1>4, <2>1, StatesAre DEF TurnOK
  <1> QED BY <1>1, <1>2, <1>3, <1>4, <1>5, <1>6, <1>7 DEF Control, ToldOK

LEMMA StopControl ==
  ASSUME Control, StopTrack
  PROVE  /\ Control' /\ ~Told' /\ trk'.stop /\ ~trk'.whole
         /\ UNCHANGED <<c, srv, h, icy, copy, got, stream, gap>> /\ trk.at # "closed" /\ trk'.at = trk.at
  <1>1. /\ ~c.run /\ trk.at \in {"wait", "out"} /\ trk' = [trk EXCEPT !.stop = TRUE] /\ go' = TRUE
        /\ UNCHANGED <<c, srv, h, icy, copy, got, stream, gap>> /\ trk \in TType
    BY DEF StopTrack, Idle, Control
  <1>2. trk' \in TType /\ trk'.at = trk.at /\ trk'.stop /\ trk'.whole = trk.whole /\ ~trk.whole
    BY <1>1 DEF TType, Control, TurnOK
  <1>3. ClientInv'
    BY <1>1 DEF Control, ClientInv, Typed, ClientOK
  <1>4. ~Told'
    BY <1>2 DEF Told
  <1>5. TurnOK'
    BY <1>1, <1>2 DEF TurnOK, Control
  <1> QED BY <1>1, <1>2, <1>3, <1>4, <1>5 DEF Control, ToldOK

LEMMA CopyControl ==
  ASSUME Control, UNCHANGED <<c, srv, h, go, trk>>, icy'.data = icy.data
  PROVE  Control' /\ (Told' <=> Told)
  BY DEF Control, ClientInv, Typed, ClientOK, TurnOK, ToldOK, Told

LEMMA ClientControl ==
  ASSUME Control, ClientRuns, Still PROVE Control' /\ c.run
  <1>1. ClientInv'
    BY ClientRunsOK DEF Control
  <1>2. c.run /\ (DoesEarly \/ Response \/ DoesWait \/ DoesReceive \/ DoesEnd \/ DoesGive
                   \/ DoesFinish \/ DoesRest)
    BY ClientDoes DEF Control
  <1>3. TurnOK' /\ ToldOK'
    BY <1>1, <1>2, EarlyControl, ResponseControl, EndsControl
  <1>4. trk' = trk
    BY DEF Still, chainVars
  <1> QED BY <1>1, <1>2, <1>3, <1>4 DEF Control
-----------------------------------------------------------------------------
(* The data on its way from the client to the chain. *)
Data == Seq(1 .. Units)
IType == [open : BOOLEAN, data : Data, seen : 0 .. Units, netin : 0 .. MaxCopies]

(* What the track has been told of and has not taken, how much of the response the
   chain, then the filter icy, then the track has, and how much there is to come. *)
Pending == IF Told /\ h.status = "RESP_RECV" THEN h.data ELSE <<>>
Base == IF h.reset THEN 0 ELSE Len(got)
Given == Base + Len(icy.data)
Taken == Given + Len(Pending)

(* The client's buffer goes on where the track's data ends, and ends where the
   server goes on. *)
BodyOK ==
    /\ Counts(got, 0) /\ icy.seen <= Len(got)
    /\ srv.next - 1 <= Len(Wire(srv.body))
    /\ ~trk.stop =>
        /\ Counts(icy.data, Base) /\ Pending \in Data /\ Counts(Pending, Given)
        /\ c.st \in InBody =>
              /\ srv.body # "none"
              /\ Counts(c.buf, Taken) /\ Taken + Len(c.buf) = srv.next - 1
              /\ c.st = "RECVBODY" => c.buf = <<>>

Streamed == Control /\ icy \in IType /\ got \in Data /\ BodyOK

LEMMA Lengths ==
  ASSUME Streamed
  PROVE  /\ Len(got) \in Nat /\ Len(icy.data) \in Nat /\ Len(c.buf) \in Nat /\ Base \in Nat /\ Given \in Nat
         /\ srv.next \in Nat \ {0} /\ Len(Wire(srv.body)) \in Nat /\ c.buf \in Raw /\ h.data \in Raw
         /\ Pending \in Raw /\ Len(Pending) \in Nat /\ Taken \in Nat
  <1>1. /\ c.buf \in Raw /\ h.data \in Raw /\ srv.next \in 1 .. LastChunk + 1 /\ icy.data \in Data
        /\ got \in Data
    BY DEF Streamed, Control, ClientInv, Typed, CType, HType, SType, IType
  <1>2. Len(got) \in Nat /\ Len(icy.data) \in Nat /\ Len(c.buf) \in Nat /\ Len(Wire(srv.body)) \in Nat
    BY <1>1, LenProperties, WireIs DEF Raw, Data
  <1>3. Pending \in Raw /\ Len(Pending) \in Nat
    <2>1. <<>> \in Raw
      BY DEF Raw
    <2>2. Pending \in Raw
      BY <1>1, <2>1 DEF Pending
    <2> QED BY <2>2, LenProperties DEF Raw
  <1>4. Base \in Nat
    BY <1>2 DEF Base
  <1>5. Given \in Nat
    BY <1>2, <1>4 DEF Given
  <1>6. Taken \in Nat
    BY <1>3, <1>5 DEF Taken
  <1>7. srv.next \in Nat \ {0}
    BY <1>1, Assumed
  <1> QED BY <1>1, <1>2, <1>3, <1>4, <1>5, <1>6, <1>7

LEMMA InData ==
  ASSUME NEW s \in Raw, \A i \in 1 .. Len(s) : s[i] \in 1 .. Units
  PROVE  s \in Data
  <1>1. Len(s) \in Nat /\ s \in [1 .. Len(s) -> 1 .. LastChunk]
    BY LenProperties DEF Raw
  <1>2. s \in [1 .. Len(s) -> 1 .. Units]
    BY <1>1
  <1> QED BY <1>1, <1>2, SeqDef DEF Data

(* The body's filter passes on what it takes out of the buffer, in order, and ends
   with the body. *)
LEMMA FilterCounts ==
  ASSUME c.buf \in Raw, srv \in SType, NEW n \in Nat, Counts(c.buf, n), n + Len(c.buf) = srv.next - 1,
         srv.next - 1 <= Len(Wire(srv.body))
  PROVE  /\ Filtered \in Data /\ Counts(Filtered, n) /\ Len(Filtered) \in Nat /\ Len(Rest) \in Nat
         /\ ~BodyEnds => Counts(Rest, n + Len(Filtered)) /\ n + Len(Filtered) + Len(Rest) = srv.next - 1
         /\ BodyEnds /\ srv.body # "length" => Filtered = <<>> /\ n = Units
  <1>0. Len(c.buf) \in Nat /\ srv.next \in Nat /\ Units \in Nat /\ LastChunk = Units + 1
        /\ Len(Wire(srv.body)) = (IF srv.body = "chunked" THEN Units + 1 ELSE Units)
    BY LenProperties, Assumed, WireIs DEF Raw, SType
  <1>1. CASE ~Chunked
    <2>1. Filtered = c.buf /\ Rest = <<>>
      BY <1>1 DEF Filtered, Rest
    <2>2. c.buf \in Data
      <3>1. CASE c.buf = <<>>
        BY <3>1 DEF Data
      <3>2. CASE c.buf # <<>>
        <4>1. srv.body # "chunked" /\ srv.next - 1 <= Units
          BY <1>0, <1>1, <3>2 DEF Chunked
        <4>2. \A i \in 1 .. Len(c.buf) : c.buf[i] \in 1 .. Units
          BY <1>0, <4>1 DEF Counts
        <4> QED BY <4>2, InData
      <3> QED BY <3>1, <3>2
    <2>3. ~(BodyEnds /\ srv.body # "length")
      BY <1>1 DEF BodyEnds
    <2> QED BY <1>0, <2>1, <2>2, <2>3, EmptyCounts
  <1>2. CASE Chunked
    <2>0. c.buf # <<>> /\ srv.body = "chunked" /\ Len(c.buf) > 0
      BY <1>0, <1>2 DEF Chunked, Raw
    <2>1. /\ Head(c.buf) = n + 1 /\ Head(c.buf) \in 1 .. LastChunk
          /\ Tail(c.buf) \in Raw /\ Len(Tail(c.buf)) = Len(c.buf) - 1
          /\ \A i \in 1 .. Len(Tail(c.buf)) : Tail(c.buf)[i] = c.buf[i + 1]
      <3>1. Head(c.buf) = c.buf[1]
        BY <2>0 DEF Raw
      <3>2. c.buf[1] = n + 1
        BY <1>0, <2>0 DEF Counts
      <3> QED BY <2>0, <3>1, <3>2, HeadTailProperties DEF Raw
    <2>2. Counts(Tail(c.buf), n + 1)
      <3>1. ASSUME NEW i \in 1 .. Len(Tail(c.buf)) PROVE Tail(c.buf)[i] = n + 1 + i
        <4>1. i + 1 \in 1 .. Len(c.buf) /\ i \in Nat
          BY <1>0, <2>0, <2>1
        <4>2. c.buf[i + 1] = n + (i + 1)
          BY <4>1 DEF Counts
        <4> QED BY <2>1, <4>1, <4>2
      <3> QED BY <3>1 DEF Counts
    <2>3. CASE Head(c.buf) = LastChunk
      <3>1. Filtered = <<>> /\ BodyEnds /\ n = Units /\ Rest = Tail(c.buf)
        BY <1>0, <1>2, <2>1, <2>3 DEF Filtered, BodyEnds, Rest
      <3> QED BY <1>0, <2>0, <2>1, <3>1, EmptyCounts DEF Data
    <2>4. CASE Head(c.buf) # LastChunk
      <3>1. Filtered = <<Head(c.buf)>> /\ ~BodyEnds /\ Rest = Tail(c.buf)
        BY <1>2, <2>0, <2>4 DEF Filtered, BodyEnds, Rest
      <3>2. Filtered \in Data /\ Len(Filtered) = 1 /\ Filtered[1] = n + 1
        BY <1>0, <2>1, <2>4, <3>1 DEF Data
      <3>3. Counts(Filtered, n)
        BY <3>2 DEF Counts
      <3>4. Counts(Rest, n + Len(Filtered))
        BY <2>2, <3>1, <3>2
      <3>5. Len(Rest) \in Nat /\ n + Len(Filtered) + Len(Rest) = srv.next - 1
        <4> DEFINE b == Len(c.buf)
        <4>1. b \in Nat /\ b > 0 /\ Len(Rest) = b - 1 /\ n + b = srv.next - 1
          BY <1>0, <2>0, <2>1, <3>1
        <4> HIDE DEF b
        <4> QED BY <3>2, <4>1
      <3> QED BY <3>1, <3>2, <3>3, <3>4, <3>5
    <2> QED BY <2>3, <2>4
  <1> QED BY <1>1, <1>2

(* A step of the client that leaves it with no data, and has not told its user of any. *)
LEMMA NothingOnItsWay ==
  ASSUME Streamed, Still, icy.data = <<>>, h'.reset = h.reset, srv' = srv, c'.st \notin InBody,
         Pending' = <<>>
  PROVE  BodyOK'
  <1>1. UNCHANGED <<trk, icy, got, srv>>
    BY DEF Still, chainVars
  <1>2. Base' = Base /\ Given' = Given
    BY <1>1 DEF Base, Given
  <1>3. <<>> \in Data
    BY DEF Data
  <1> QED BY <1>1, <1>2, <1>3, EmptyCounts DEF BodyOK, Streamed

LEMMA EarlyBody ==
  ASSUME Streamed, ClientInv', c.run, DoesEarly, Still PROVE BodyOK'
  <1>1. ~Told'
    BY EarlyControl DEF Streamed
  <1>2. Pending' = <<>>
    BY <1>1 DEF Pending
  <1>3. icy.data = <<>>
    BY ClientsTurn DEF Streamed
  <1> QED BY <1>2, <1>3, StatesAre, NothingOnItsWay DEF DoesEarly, SameUser

LEMMA ResponseBody ==
  ASSUME Streamed, ClientInv', c.run, Response, Still PROVE BodyOK'
  <1>0. UNCHANGED <<trk, icy, got>> /\ icy.data = <<>> /\ ~Told'
    BY ClientsTurn, ResponseControl DEF Still, chainVars, Streamed
  <1>1. PICK body \in Bodies \cup {"none"}, n \in 0 .. Units, useful \in BOOLEAN :
            /\ srv' = [body |-> body, next |-> n + 1]
            /\ c'.st = (IF body = "none" THEN "DONE" ELSE "RESPBODY")
            /\ c'.buf = SubSeq(Wire(body), 1, n) /\ h'.reset
    BY AfterResponse DEF Streamed, Control
  <1>2. /\ Base' = 0 /\ Given' = 0 /\ Pending' = <<>> /\ Taken' = 0
    BY <1>0, <1>1 DEF Base, Given, Pending, Taken
  <1>3. n \in Nat /\ n <= Len(Wire(body)) /\ n + 1 - 1 = n /\ Len(Wire(body)) \in Nat
    BY WireIs, Assumed
  <1>4. Counts(c'.buf, 0) /\ Len(c'.buf) = n
    BY <1>1, <1>3, WirePart
  <1>5. c'.st \in InBody => srv'.body # "none" /\ c'.st = "RESPBODY"
    BY <1>1, StatesAre
  <1>6. srv'.next - 1 = n /\ srv'.body = body
    BY <1>1, <1>3
  <1>7. <<>> \in Data
    BY DEF Data
  <1> QED BY <1>0, <1>2, <1>3, <1>4, <1>5, <1>6, <1>7, EmptyCounts DEF BodyOK, Streamed

LEMMA WaitBody ==
  ASSUME Streamed, UNCHANGED <<trk, icy, got, h, srv, go>>,
         c'.st \notin InBody \/ (c'.st = c.st /\ c'.buf = c.buf)
  PROVE  BodyOK' /\ Taken' = Taken /\ Pending' = Pending
  <1>1. Base' = Base /\ Given' = Given /\ Pending' = Pending /\ Taken' = Taken
    BY DEF Base, Given, Pending, Taken, Told
  <1> QED BY <1>1 DEF BodyOK, Streamed

LEMMA ReceiveBody ==
  ASSUME Streamed, c.run, DoesReceive, Still PROVE BodyOK'
  <1>0. UNCHANGED <<trk, icy, got, h, go>> /\ icy.data = <<>> /\ c.st = "RECVBODY" /\ c'.st = "RESPBODY"
    BY ClientsTurn DEF Still, chainVars, Streamed, DoesReceive
  <1>1. ~Told /\ ~Told'
    <2>1. ~Told
      BY <1>0, NotTold DEF Streamed
    <2> QED BY <1>0, <2>1 DEF Told
  <1>2. Pending = <<>> /\ Pending' = <<>> /\ Base' = Base /\ Given' = Given /\ Taken' = Taken
    BY <1>0, <1>1 DEF Pending, Base, Given, Taken
  <1>3. PICK last \in srv.next .. Len(Wire(srv.body)) :
          c'.buf = SubSeq(Wire(srv.body), srv.next, last) /\ srv' = [srv EXCEPT !.next = last + 1]
    BY DEF DoesReceive
  <1>4. /\ srv.next \in Nat \ {0} /\ last \in Nat /\ srv.next <= last + 1 /\ last <= Len(Wire(srv.body))
        /\ Taken \in Nat /\ Len(Wire(srv.body)) \in Nat
    BY Lengths
  <1>5. Counts(c'.buf, srv.next - 1) /\ Len(c'.buf) = last - srv.next + 1
    BY <1>3, <1>4, WirePart
  <1>6. srv'.next = last + 1 /\ srv'.body = srv.body
    BY <1>3 DEF Streamed, Control, ClientInv, Typed, SType
  <1>7. srv'.next - 1 <= Len(Wire(srv'.body))
    BY <1>4, <1>6
  <1>8. CASE trk.stop
    BY <1>0, <1>7, <1>8 DEF BodyOK, Streamed
  <1>9. CASE ~trk.stop
    <2>1. srv.body # "none" /\ c.buf = <<>> /\ Taken + Len(c.buf) = srv.next - 1
      BY <1>0, <1>9, StatesAre DEF Streamed, BodyOK
    <2>2. Len(c.buf) = 0
      BY <2>1
    <2>3. Taken = srv.next - 1
      BY <1>4, <2>1, <2>2
    <2>4. Taken' + Len(c'.buf) = srv'.next - 1 /\ Counts(c'.buf, Taken')
      BY <1>2, <1>4, <1>5, <1>6, <2>3
    <2> QED BY <1>0, <1>2, <1>6, <1>7, <2>1, <2>4 DEF BodyOK, Streamed
  <1> QED BY <1>8, <1>9

LEMMA GiveBody ==
  ASSUME Streamed, c.run, DoesGive, Still PROVE BodyOK'
  <1>0. /\ UNCHANGED <<trk, icy, got, srv>> /\ icy.data = <<>> /\ c.st = "RESPBODY" /\ ~BodyEnds
        /\ go' /\ h'.st = h.st /\ h'.reset = h.reset /\ h'.status = "RESP_RECV" /\ h'.data = Filtered
        /\ c'.buf = Rest /\ c'.st = IF Rest = <<>> THEN "RECVBODY" ELSE "RESPBODY"
    BY ClientsTurn DEF Still, chainVars, Streamed, DoesGive, SameUser
  <1>1. ~Told
    BY <1>0, NotTold DEF Streamed
  <1>2. Pending = <<>> /\ Base' = Base /\ Given' = Given /\ Taken = Given
    BY <1>0, <1>1, Lengths DEF Pending, Base, Given, Taken
  <1>8. CASE trk.stop
    BY <1>0, <1>8 DEF BodyOK, Streamed
  <1>9. CASE ~trk.stop
    <2>1. Counts(c.buf, Taken) /\ Taken + Len(c.buf) = srv.next - 1 /\ srv.body # "none"
          /\ srv.next - 1 <= Len(Wire(srv.body))
      BY <1>0, <1>9, StatesAre DEF Streamed, BodyOK
    <2>2. c.buf \in Raw /\ srv \in SType /\ Taken \in Nat
      BY Lengths DEF Streamed, Control, ClientInv, Typed
    <2>3. /\ Filtered \in Data /\ Counts(Filtered, Taken) /\ Len(Filtered) \in Nat /\ Len(Rest) \in Nat
          /\ Counts(Rest, Taken + Len(Filtered)) /\ Taken + Len(Filtered) + Len(Rest) = srv.next - 1
      BY <1>0, <2>1, <2>2, FilterCounts
    <2>4. Told'
      BY <1>0, <1>9, ClientsTurn DEF Told, Streamed
    <2>5. Pending' = Filtered /\ Taken' = Taken + Len(Filtered)
      BY <1>0, <1>2, <2>4 DEF Pending, Taken
    <2> QED BY <1>0, <1>2, <1>9, <2>1, <2>3, <2>5 DEF BodyOK, Streamed
  <1> QED BY <1>8, <1>9

LEMMA EndBody ==
  ASSUME Streamed, c.run, DoesEnd, Still
  PROVE  /\ BodyOK' /\ Base' = Base /\ icy.data = <<>> /\ icy' = icy /\ srv' = srv
         /\ ~trk.stop /\ srv.body # "length" =>
               Pending' = <<>> /\ Taken' = IF srv.body = "close" THEN srv.next - 1 ELSE Units
  <1>0. /\ UNCHANGED <<trk, icy, got, srv>> /\ icy.data = <<>> /\ c'.st = "DONE"
        /\ go' /\ h'.st = h.st /\ h'.reset = h.reset /\ h'.status = "RESP_RECV"
        /\ \/ c.st = "RECVBODY" /\ srv.body = "close" /\ h'.data = <<>>
           \/ c.st = "RESPBODY" /\ BodyEnds /\ h'.data = Filtered
    BY ClientsTurn DEF Still, chainVars, Streamed, DoesEnd, SameUser
  <1>1. ~Told
    BY <1>0, NotTold DEF Streamed
  <1>2. Pending = <<>> /\ Base' = Base /\ Given' = Given /\ Taken = Given
    BY <1>0, <1>1, Lengths DEF Pending, Base, Given, Taken
  <1>8. CASE trk.stop
    BY <1>0, <1>2, <1>8 DEF BodyOK, Streamed
  <1>9. CASE ~trk.stop
    <2>1. Counts(c.buf, Taken) /\ Taken + Len(c.buf) = srv.next - 1 /\ srv.body # "none"
          /\ srv.next - 1 <= Len(Wire(srv.body)) /\ (c.st = "RECVBODY" => c.buf = <<>>)
      BY <1>0, <1>9, StatesAre DEF Streamed, BodyOK
    <2>2. c.buf \in Raw /\ srv \in SType /\ Taken \in Nat
      BY Lengths DEF Streamed, Control, ClientInv, Typed
    <2>3. Told'
      BY <1>0, <1>9, ClientsTurn DEF Told, Streamed
    <2>4. Pending' = h'.data /\ Taken' = Taken + Len(h'.data)
      BY <1>0, <1>2, <2>3 DEF Pending, Taken
    <2>5. CASE c.st = "RECVBODY" /\ srv.body = "close" /\ h'.data = <<>>
      <3>1. Taken = srv.next - 1 /\ <<>> \in Data
        BY <2>1, <2>2, <2>5 DEF Data
      <3> QED BY <1>0, <1>2, <2>2, <2>4, <2>5, <3>1, EmptyCounts, StatesAre DEF BodyOK, Streamed
    <2>6. CASE c.st = "RESPBODY" /\ BodyEnds /\ h'.data = Filtered
      <3>1. /\ Filtered \in Data /\ Counts(Filtered, Taken) /\ Len(Filtered) \in Nat
            /\ srv.body # "length" => Filtered = <<>> /\ Taken = Units /\ srv.body = "chunked"
        BY <2>1, <2>2, <2>6, FilterCounts DEF BodyEnds, Chunked
      <3>2. BodyOK'
        BY <1>0, <1>2, <2>1, <2>4, <2>6, <3>1, StatesAre DEF BodyOK, Streamed
      <3> QED BY <1>0, <1>2, <2>2, <2>4, <2>6, <3>1, <3>2
    <2> QED BY <1>0, <2>5, <2>6
  <1> QED BY <1>8, <1>9

LEMMA ClientBody ==
  ASSUME Streamed, ClientRuns, Still PROVE BodyOK'
  <1>1. ClientInv' /\ c.run
    BY ClientControl DEF Streamed, Control
  <1>2. DoesEarly \/ Response \/ DoesWait \/ DoesReceive \/ DoesEnd \/ DoesGive
           \/ DoesFinish \/ DoesRest
    BY ClientDoes DEF Streamed, Control
  <1>3. UNCHANGED <<trk, icy, got>> /\ icy.data = <<>>
    BY <1>1, ClientsTurn DEF Still, chainVars, Streamed
  <1>4. CASE DoesWait
    BY <1>3, <1>4, WaitBody DEF DoesWait
  <1>5. CASE DoesFinish
    <2>1. Pending' = <<>>
      BY <1>5 DEF DoesFinish, Pending
    <2> QED BY <1>3, <1>5, <2>1, NothingOnItsWay, StatesAre DEF DoesFinish, SameUser
  <1>6. CASE DoesRest
    BY <1>3, <1>6, WaitBody, StatesAre DEF DoesRest
  <1> QED BY <1>1, <1>2, <1>4, <1>5, <1>6, EarlyBody, ResponseBody, ReceiveBody, GiveBody, EndBody

LEMMA EventBody ==
  ASSUME Streamed, Event \/ Timeout, Still PROVE BodyOK' /\ UNCHANGED <<srv, h, go>>
  <1>1. UNCHANGED <<trk, icy, got>>
    BY DEF Still, chainVars
  <1>2. CASE Event
    BY <1>1, <1>2, EventOK, WaitBody DEF Streamed, Control
  <1>3. CASE Timeout
    BY <1>1, <1>3, TimeoutOK, WaitBody, StatesAre DEF Streamed, Control
  <1> QED BY <1>2, <1>3

(* The track's steps. *)
LEMMA ClosedBody ==
  ASSUME Streamed, NEW whole \in BOOLEAN, Closed(whole) PROVE BodyOK' /\ got' \in Data /\ icy' \in IType
  <1>1. /\ icy' = NoIcy /\ h' = NoUser /\ c' = NoClient /\ trk'.stop = FALSE
        /\ got' \in {got, <<>>} /\ srv' \in {srv, NoResponse}
    BY DEF Closed
  <1>2. /\ icy'.data = <<>> /\ icy'.seen = 0 /\ ~h'.reset /\ c'.st \notin InBody
    BY <1>1, StatesAre DEF NoIcy, NoUser, NoClient
  <1>3. <<>> \in Data /\ icy' \in IType
    BY <1>1, Assumed DEF Data, IType, NoIcy
  <1>4. got' \in Data /\ Counts(got', 0) /\ Len(got') \in Nat
    BY <1>1, <1>3, EmptyCounts, LenProperties DEF Streamed, BodyOK, Data
  <1>5. srv'.next - 1 <= Len(Wire(srv'.body))
    <2>1. Len(Wire(NoResponse.body)) \in Nat /\ NoResponse.next = 1
      BY WireIs DEF NoResponse
    <2> QED BY <1>1, <2>1 DEF Streamed, BodyOK
  <1>6. Pending' = <<>>
    BY ClosedControl DEF Pending, Streamed
  <1> QED BY <1>2, <1>3, <1>4, <1>5, <1>6, EmptyCounts DEF BodyOK

LEMMA HttpBody ==
  ASSUME Streamed, TaskRuns \/ HttpOpen \/ HttpNext \/ HttpData \/ HttpEnds \/ OutEnds \/ StopTrack
  PROVE  BodyOK' /\ icy' \in IType /\ got' \in Data
  <1>1. CASE TaskRuns
    <2>1. UNCHANGED <<c, srv, h, icy, got>> /\ trk'.stop = trk.stop
      BY <1>1 DEF TaskRuns, Streamed, Control, TType
    <2>2. Pending' = Pending /\ Base' = Base /\ Given' = Given /\ Taken' = Taken
      BY <1>1, <2>1, TaskRunsControl DEF Pending, Base, Given, Taken, Streamed
    <2> QED BY <2>1, <2>2 DEF BodyOK, Streamed
  <1>2. CASE HttpOpen
    <2>1. CASE Closed(FALSE)
      BY <2>1, ClosedBody
    <2>2. CASE Sent([NoClient EXCEPT !.st = "START", !.run = TRUE], 1)
      <3>1. /\ UNCHANGED <<srv, icy, got>> /\ trk'.stop = trk.stop /\ c'.st = "START" /\ h'.reset = h.reset
            /\ ~trk.stop
        BY <1>2, <2>2 DEF HttpOpen, AtHttp, Sent, Streamed, Control, ClientInv, Typed, HType, TType, NoClient
      <3>2. Pending' = <<>> /\ Base' = Base /\ Given' = Given /\ <<>> \in Data
        BY <1>2, <3>1, HttpOpenControl DEF Pending, Base, Given, Data, Streamed
      <3> QED BY <3>1, <3>2, EmptyCounts, StatesAre DEF BodyOK, Streamed
    <2> QED BY <1>2, <2>1, <2>2 DEF HttpOpen
  <1>3. CASE HttpNext
    <2>1. /\ ~Told' /\ ~Told /\ UNCHANGED <<srv, icy, got>> /\ trk' = [trk EXCEPT !.at = "wait"]
          /\ h'.reset = h.reset /\ c'.buf = c.buf /\ c'.st = c.st
      BY <1>3, HttpNextControl DEF Streamed
    <2>2. Pending' = Pending /\ Base' = Base /\ Given' = Given /\ Taken' = Taken /\ trk'.stop = trk.stop
      BY <2>1 DEF Pending, Base, Given, Taken, Streamed, Control, TType
    <2> QED BY <2>1, <2>2 DEF BodyOK, Streamed
  <1>4. CASE HttpData
    <2>1. /\ ~Told' /\ Told /\ UNCHANGED <<c, srv, got>> /\ h'.reset = h.reset /\ h.status = "RESP_RECV"
          /\ trk.at = "http" /\ ~trk.stop
          /\ icy' = [icy EXCEPT !.data = h.data, !.open = TRUE] /\ trk' = [trk EXCEPT !.at = "icy"]
      BY <1>4, HttpDataControl DEF Streamed
    <2>2. Pending = h.data /\ Pending' = <<>> /\ <<>> \in Data /\ icy.data = <<>>
      BY <2>1 DEF Pending, Data, Streamed, Control, TurnOK
    <2>3. icy' \in IType /\ icy'.data = h.data /\ icy'.seen = icy.seen /\ trk'.stop = trk.stop
      BY <2>1, <2>2 DEF BodyOK, Streamed, IType, Control, TType
    <2>4. Len(icy.data) = 0
      BY <2>2
    <2>5. Base' = Base /\ Given = Base /\ Given' = Base + Len(h.data) /\ Taken' = Given' /\ Taken = Given'
      BY <2>1, <2>2, <2>3, <2>4, Lengths DEF Base, Given, Taken
    <2> QED BY <2>1, <2>2, <2>3, <2>5, EmptyCounts DEF BodyOK, Streamed
  <1>5. CASE HttpEnds \/ OutEnds
    BY <1>5, ClosedBody, HttpEndsControl DEF OutEnds, Streamed
  <1>6. CASE StopTrack
    BY <1>6, StopControl DEF BodyOK, Streamed
  <1> QED BY <1>1, <1>2, <1>3, <1>4, <1>5, <1>6

(* The filter icy takes the data up to the first unit that metadata comes after. *)
PartEnd == CHOOSE i \in DOMAIN icy.data :
           /\ \A j \in 1 .. i - 1 : icy.data[j] \notin TitleAfter
           /\ i = Len(icy.data) \/ icy.data[i] \in TitleAfter
Part == SubSeq(icy.data, 1, PartEnd)

Less == {p \in Nat \X Nat : p[1] < p[2]}

LEMMA LessFounded == IsWellFoundedOn(Less, Nat)
  BY NatLessThanWellFounded DEF OpToRel, Less

LEMMA LastIs ==
  ASSUME icy \in IType, icy.data # <<>>
  PROVE  /\ Len(icy.data) \in Nat /\ PartEnd \in 1 .. Len(icy.data)
         /\ \A j \in 1 .. PartEnd - 1 : icy.data[j] \notin TitleAfter
  <1> DEFINE n == Len(icy.data)
             S == {i \in 1 .. n : i = n \/ icy.data[i] \in TitleAfter}
  <1>1. n \in Nat \ {0} /\ DOMAIN icy.data = 1 .. n
    BY LenProperties, EmptySeq DEF IType, Data
  <1>2. n \in S /\ S \subseteq Nat
    BY <1>1
  <1>3. \E x \in S : \A y \in S : <<y, x>> \notin Less
    <2> HIDE DEF S
    <2> QED BY <1>2, LessFounded, WFMin, ZenonT(30)
  <1>4. PICK x \in S : \A y \in S : <<y, x>> \notin Less
    BY <1>3
  <1>5. \A y \in S : ~(y < x)
    <2>1. ASSUME NEW y \in S PROVE ~(y < x)
      <3>1. x \in Nat /\ y \in Nat /\ <<y, x>> \in Nat \X Nat
        BY <1>2
      <3> HIDE DEF S
      <3> QED BY <1>4, <3>1 DEF Less
    <2> QED BY <2>1
  <1>6. \A j \in 1 .. x - 1 : icy.data[j] \notin TitleAfter
    <2>1. ASSUME NEW j \in 1 .. x - 1 PROVE icy.data[j] \notin TitleAfter
      <3>1. j \in 1 .. n /\ j < x
        BY <1>1, <1>4
      <3> QED BY <1>5, <3>1
    <2> QED BY <2>1
  <1>7. \E i \in DOMAIN icy.data :
           /\ \A j \in 1 .. i - 1 : icy.data[j] \notin TitleAfter
           /\ i = Len(icy.data) \/ icy.data[i] \in TitleAfter
    BY <1>1, <1>4, <1>6
  <1> HIDE DEF S
  <1>8. /\ PartEnd \in DOMAIN icy.data /\ \A j \in 1 .. PartEnd - 1 : icy.data[j] \notin TitleAfter
    BY <1>7 DEF PartEnd
  <1> QED BY <1>1, <1>8

LEMMA PartIs ==
  ASSUME Streamed, AtIcy, icy.data # <<>>
  PROVE  LET rest == SubSeq(icy.data, PartEnd + 1, Len(icy.data)) IN
         /\ Part \in Data /\ rest \in Data /\ Len(Part) \in Nat \ {0} /\ Len(rest) \in Nat
         /\ Counts(Part, Len(got)) /\ Counts(rest, Len(got) + Len(Part))
         /\ Len(Part) + Len(rest) = Len(icy.data)
         /\ Part[1] = Head(icy.data) /\ Head(icy.data) = Len(got) + 1
         /\ \A i \in 1 .. Len(Part) - 1 : Part[i] \notin TitleAfter
  <1>1. Len(icy.data) \in Nat /\ PartEnd \in 1 .. Len(icy.data) /\ icy.data \in Data
        /\ \A j \in 1 .. PartEnd - 1 : icy.data[j] \notin TitleAfter
    BY LastIs DEF Streamed, IType
  <1>2. Base = Len(got) /\ Len(got) \in Nat /\ Counts(icy.data, Len(got))
    BY Lengths DEF AtIcy, Base, Streamed, BodyOK
  <1>3. /\ Part \in Data /\ Len(Part) = PartEnd /\ Counts(Part, Len(got))
    <2>1. 1 \in Nat \ {0} /\ PartEnd \in Nat /\ 1 <= PartEnd + 1 /\ PartEnd <= Len(icy.data)
          /\ PartEnd - 1 + 1 = PartEnd /\ Len(got) + 1 - 1 = Len(got)
      BY <1>1, <1>2
    <2>2. /\ Part \in Data /\ Len(Part) = PartEnd - 1 + 1 /\ Counts(Part, Len(got) + 1 - 1)
      BY <1>1, <1>2, <2>1, PartCounts DEF Data, Part
    <2> QED BY <2>1, <2>2
  <1> DEFINE rest == SubSeq(icy.data, PartEnd + 1, Len(icy.data))
  <1>4. rest \in Data /\ Len(rest) = Len(icy.data) - PartEnd /\ Counts(rest, Len(got) + PartEnd)
    <2>1. PartEnd + 1 \in Nat \ {0} /\ PartEnd + 1 <= Len(icy.data) + 1 /\ Len(icy.data) <= Len(icy.data)
          /\ Len(icy.data) - (PartEnd + 1) + 1 = Len(icy.data) - PartEnd
          /\ Len(got) + (PartEnd + 1) - 1 = Len(got) + PartEnd
      <3>1. \A n, g \in Nat : \A i \in 1 .. n :
               /\ i + 1 \in Nat \ {0} /\ i + 1 <= n + 1 /\ n <= n
               /\ n - (i + 1) + 1 = n - i /\ g + (i + 1) - 1 = g + i
        OBVIOUS
      <3> QED BY <1>1, <1>2, <3>1
    <2>2. /\ rest \in Data /\ Len(rest) = Len(icy.data) - (PartEnd + 1) + 1
          /\ Counts(rest, Len(got) + (PartEnd + 1) - 1)
      BY <1>1, <1>2, <2>1, PartCounts DEF Data
    <2> QED BY <2>1, <2>2
  <1>5. ASSUME NEW i \in 1 .. PartEnd PROVE Part[i] = icy.data[i]
    <2>1. i \in 1 .. Len(Part) /\ i \in 1 .. Len(icy.data)
      BY <1>1, <1>3
    <2>2. Part[i] = Len(got) + i
      BY <1>3, <2>1 DEF Counts
    <2>3. icy.data[i] = Len(got) + i
      BY <1>2, <2>1 DEF Counts
    <2> QED BY <2>2, <2>3
  <1>6. Head(icy.data) = icy.data[1] /\ icy.data[1] = Len(got) + 1
    BY <1>1, <1>2 DEF Counts, Data
  <1> HIDE DEF rest
  <1>7. Len(Part) \in Nat \ {0} /\ Len(rest) \in Nat /\ Len(Part) + Len(rest) = Len(icy.data)
    BY <1>1, <1>3, <1>4
  <1>8. \A i \in 1 .. Len(Part) - 1 : Part[i] \notin TitleAfter
    BY <1>1, <1>3, <1>5
  <1>9. Part[1] = Head(icy.data)
    BY <1>1, <1>5, <1>6
  <1> QED BY <1>3, <1>4, <1>6, <1>7, <1>8, <1>9 DEF rest

(* Two numbered sequences, one after the other. *)
LEMMA JoinedCounts ==
  ASSUME NEW S, NEW s \in Seq(S), NEW t \in Seq(S), NEW n \in Nat, Counts(s, n), Counts(t, n + Len(s))
  PROVE  s \o t \in Seq(S) /\ Len(s \o t) = Len(s) + Len(t) /\ Counts(s \o t, n)
  <1>1. Len(s) \in Nat /\ Len(t) \in Nat
    BY LenProperties
  <1>2. /\ s \o t \in Seq(S) /\ Len(s \o t) = Len(s) + Len(t)
        /\ \A i \in 1 .. Len(s) + Len(t) : (s \o t)[i] = IF i <= Len(s) THEN s[i] ELSE t[i - Len(s)]
    BY ConcatProperties
  <1>3. ASSUME NEW i \in 1 .. Len(s) + Len(t) PROVE (s \o t)[i] = n + i
    <2>1. CASE i <= Len(s)
      BY <1>1, <1>2, <2>1 DEF Counts
    <2>2. CASE ~(i <= Len(s))
      <3>1. i - Len(s) \in 1 .. Len(t)
        BY <1>1, <2>2
      <3>2. t[i - Len(s)] = n + Len(s) + (i - Len(s))
        BY <3>1 DEF Counts
      <3> QED BY <1>1, <1>2, <2>2, <3>2
    <2> QED BY <2>1, <2>2
  <1> QED BY <1>2, <1>3 DEF Counts

LEMMA IcyBody ==
  ASSUME Streamed, IcyReset \/ IcyTitle \/ IcyData \/ IcyMore \/ OutAsks
  PROVE  BodyOK' /\ icy'.data \in Data /\ got' \in Data
  <1>0. /\ ~Told' /\ ~Told /\ UNCHANGED <<c, srv, go>>
        /\ ~trk.stop' /\ ~trk.stop /\ icy.data \in Data /\ Pending = <<>> /\ Pending' = <<>>
        /\ Taken = Given /\ <<>> \in Data
    <2>1. ~Told' /\ ~Told /\ UNCHANGED <<c, srv, go>> /\ ~trk.stop'
      BY IcyControl DEF Streamed
    <2>2. ~trk.stop
      BY DEF IcyReset, IcyTitle, IcyData, IcyMore, OutAsks, AtIcy
    <2>3. Pending = <<>> /\ Pending' = <<>>
      BY <2>1 DEF Pending
    <2>4. Taken = Given
      BY <2>3, Lengths DEF Taken
    <2> QED BY <2>1, <2>2, <2>3, <2>4 DEF Streamed, IType, Data
  <1>1. Len(got) \in Nat /\ Len(icy.data) \in Nat
    BY Lengths
  <1>2. ASSUME NEW I \in IType, NEW N, NEW how, Creates(I, N, how)
        PROVE  icy'.data = I.data /\ icy'.seen = I.seen
    BY <1>2 DEF Creates, IType
  <1>3. CASE IcyReset
    <2>1. h.reset /\ h' = [h EXCEPT !.reset = FALSE] /\ got' = <<>>
      BY <1>3 DEF IcyReset
    <2>2. ~h'.reset
      BY <2>1 DEF Streamed, Control, ClientInv, Typed, HType
    <2> DEFINE I == [icy EXCEPT !.seen = 0]
    <2>3. icy' = I \/ \E how \in Creating : Creates(I, copy, how)
      BY <1>3 DEF IcyReset
    <2>4. I \in IType /\ I.data = icy.data /\ I.seen = 0
      BY Assumed DEF IType, Streamed
    <2> HIDE DEF I
    <2>5. icy'.data = icy.data /\ icy'.seen = 0
      BY <1>2, <2>3, <2>4
    <2>6. Base = 0 /\ Base' = 0
      BY <2>1, <2>2 DEF Base
    <2>7. Given' = Given /\ Taken' = Taken
      BY <1>0, <2>5, <2>6 DEF Given, Taken
    <2> QED BY <1>0, <2>1, <2>5, <2>6, <2>7, EmptyCounts DEF BodyOK, Streamed
  <1>4. CASE IcyTitle
    <2> DEFINE I == [icy EXCEPT !.seen = Head(icy.data) - 1]
    <2>1. AtIcy /\ icy.data # <<>> /\ h' = h /\ got' = got /\ \E how \in Creating : Creates(I, CopyEnded, how)
      BY <1>4 DEF IcyTitle, TitleDue, clientVars
    <2>2. Head(icy.data) = Len(got) + 1 /\ Head(icy.data) \in 1 .. Units
      BY <1>0, <2>1, PartIs, HeadTailProperties DEF Data
    <2>3. I \in IType /\ I.data = icy.data /\ I.seen = Len(got)
      <3> DEFINE k == Head(icy.data) - 1
      <3>1. k = Len(got) /\ k \in 0 .. Units
        BY <1>1, <2>2, Assumed
      <3> HIDE DEF k
      <3>2. I = [icy EXCEPT !.seen = k] /\ icy \in IType
        BY DEF k, Streamed
      <3> HIDE DEF I
      <3> QED BY <3>1, <3>2 DEF IType
    <2> HIDE DEF I
    <2>4. icy'.data = icy.data /\ icy'.seen = Len(got)
      BY <1>2, <2>1, <2>3
    <2>5. Base' = Base /\ Given' = Given /\ Taken' = Taken
      BY <1>0, <2>1, <2>4 DEF Base, Given, Taken
    <2> QED BY <1>0, <1>1, <2>1, <2>4, <2>5 DEF BodyOK, Streamed
  <1>5. CASE IcyData
    <2> DEFINE rest == SubSeq(icy.data, PartEnd + 1, Len(icy.data))
    <2>1. AtIcy /\ icy.data # <<>> /\ h' = h /\ got' = got \o Part /\ icy' = [icy EXCEPT !.data = rest]
          /\ ~h.reset
      <3>1. icy' = [icy EXCEPT !.data = SubSeq(@, PartEnd + 1, Len(@))]
        BY <1>5 DEF IcyData, PartEnd
      <3>2. [icy EXCEPT !.data = SubSeq(@, PartEnd + 1, Len(@))] = [icy EXCEPT !.data = rest]
        BY DEF Streamed, IType
      <3>3. AtIcy /\ icy.data # <<>> /\ h' = h /\ got' = got \o Part
        BY <1>5 DEF IcyData, PartEnd, Part, clientVars
      <3> QED BY <3>1, <3>2, <3>3 DEF AtIcy
    <2>2. /\ Part \in Data /\ rest \in Data /\ Len(Part) \in Nat \ {0} /\ Len(rest) \in Nat
          /\ Counts(Part, Len(got)) /\ Counts(rest, Len(got) + Len(Part))
          /\ Len(Part) + Len(rest) = Len(icy.data)
      BY <2>1, PartIs
    <2>3. icy'.data = rest /\ icy'.seen = icy.seen
      BY <2>1 DEF Streamed, IType
    <2> HIDE DEF rest
    <2>4. got' \in Data /\ Len(got') = Len(got) + Len(Part) /\ Counts(got', 0)
      <3>1. Counts(got, 0) /\ got \in Data /\ 0 + Len(got) = Len(got)
        BY <1>1 DEF Streamed, BodyOK
      <3> QED BY <2>1, <2>2, <3>1, JoinedCounts DEF Data
    <2>5. Base' = Len(got) + Len(Part) /\ Base = Len(got)
      BY <2>1, <2>4 DEF Base
    <2>6. Given' = Given /\ Taken' = Taken /\ icy'.seen <= Len(got')
      <3>1. icy.seen <= Len(got) /\ icy.seen \in Nat
        BY Assumed DEF BodyOK, Streamed, IType
      <3>2. icy'.seen <= Len(got')
        BY <1>1, <2>2, <2>3, <2>4, <3>1
      <3>3. Given' = Given
        BY <1>1, <2>2, <2>3, <2>5 DEF Given
      <3>4. Taken' = Taken
        BY <1>0, <3>3 DEF Taken
      <3> QED BY <3>2, <3>3, <3>4
    <2> QED BY <1>0, <2>2, <2>3, <2>4, <2>5, <2>6, EmptyCounts DEF BodyOK, Streamed
  <1>6. CASE IcyMore \/ OutAsks
    <2>1. UNCHANGED <<h, icy, got>>
      BY <1>6 DEF IcyMore, OutAsks, clientVars
    <2>2. Base' = Base /\ Given' = Given /\ Taken' = Taken
      BY <1>0, <2>1 DEF Base, Given, Taken
    <2> QED BY <1>0, <2>1, <2>2 DEF BodyOK, Streamed
  <1> QED BY <1>3, <1>4, <1>5, <1>6

LEMMA CopyBody ==
  ASSUME Streamed, UNCHANGED <<c, srv, h, go, trk, got>>, icy'.data = icy.data, icy'.seen = icy.seen
  PROVE  BodyOK'
  <1>1. Told' <=> Told
    BY DEF Told
  <1>2. Pending' = Pending /\ Base' = Base /\ Given' = Given /\ Taken' = Taken
    BY <1>1 DEF Pending, Base, Given, Taken
  <1> QED BY <1>2 DEF BodyOK, Streamed
-----------------------------------------------------------------------------
(* The end of the response, where a server shows it. *)
Final == IF srv.body = "close" THEN srv.next - 1 ELSE IF srv.body = "none" THEN 0 ELSE Units

AtEnd == ~trk.stop /\ h.st = 1 /\ (c.st = "DONE" \/ (c.st = "NOOP" /\ h.status = "DONE"))

EndOK ==
    /\ AtEnd => Taken = Final
    /\ ~trk.stop /\ h.st = 1 /\ c.st = "DONE" => Pending = <<>>
    /\ trk.whole => Len(got) = Final

LEMMA ClientEnd ==
  ASSUME Streamed, EndOK, "length" \notin Bodies, ClientRuns, Still PROVE EndOK'
  <1>0. UNCHANGED <<trk, icy, got>> /\ c.run
    BY ClientControl DEF Still, chainVars, Streamed
  <1>1. /\ trk.at \in {"wait", "http"} /\ h.st \in {1, 3} /\ (h.st = 3 => trk.stop)
        /\ icy.data = <<>> /\ ~trk.whole
    BY <1>0, ClientsTurn DEF Streamed
  <1>2. DoesEarly \/ Response \/ DoesWait \/ DoesReceive \/ DoesEnd \/ DoesGive
           \/ DoesFinish \/ DoesRest
    BY ClientDoes DEF Streamed, Control
  <1>3. srv.body # "length"
    BY DEF Streamed, Control, ClientInv, Typed, SType
  <1>4. CASE DoesEarly \/ DoesWait \/ DoesReceive \/ DoesGive
    <2>1. c'.st \notin {"DONE", "NOOP"}
      BY <1>4, StatesAre DEF DoesEarly, DoesWait, DoesReceive, DoesGive
    <2> QED BY <1>0, <1>1, <2>1 DEF EndOK, AtEnd
  <1>5. CASE Response
    <2>1. PICK body \in Bodies \cup {"none"}, n \in 0 .. Units :
            /\ srv' = [body |-> body, next |-> n + 1]
            /\ c'.st = (IF body = "none" THEN "DONE" ELSE "RESPBODY")
            /\ h'.status = "RESP" /\ h'.reset
      BY <1>5, AfterResponse DEF Streamed, Control
    <2>2. /\ Base' = 0 /\ Given' = 0 /\ Pending' = <<>> /\ Taken' = 0
      BY <1>0, <1>1, <2>1 DEF Base, Given, Pending, Taken
    <2>3. c'.st = "DONE" => Final' = 0
      BY <2>1 DEF Final
    <2> QED BY <1>0, <1>1, <2>1, <2>2, <2>3 DEF EndOK, AtEnd
  <1>6. CASE DoesEnd
    <2>1. ~trk.stop => Pending' = <<>> /\ Taken' = (IF srv.body = "close" THEN srv.next - 1 ELSE Units)
          /\ srv.body # "none"
      <3>1. c.st \in InBody
        BY <1>6, StatesAre DEF DoesEnd
      <3>2. ~trk.stop => srv.body # "none"
        BY <3>1 DEF Streamed, BodyOK
      <3> QED BY <1>0, <1>3, <1>6, <3>2, EndBody
    <2>2. srv' = srv
      BY <1>6 DEF DoesEnd
    <2> QED BY <1>0, <1>1, <2>1, <2>2 DEF EndOK, AtEnd, Final
  <1>7. CASE DoesFinish
    <2>1. srv' = srv /\ h'.st = h.st /\ h'.reset = h.reset /\ c'.st = "NOOP" /\ h'.status # "RESP_RECV"
          /\ (h'.status = "DONE" => c.st = "DONE")
      BY <1>7 DEF DoesFinish, SameUser
    <2>2. Pending' = <<>> /\ Base' = Base /\ Given' = Given
      BY <1>0, <2>1 DEF Pending, Base, Given
    <2>3. AtEnd' => AtEnd /\ Pending = <<>>
      BY <1>0, <2>1 DEF AtEnd, EndOK
    <2>4. AtEnd' => Taken' = Taken
      BY <2>2, <2>3 DEF Taken
    <2> QED BY <1>0, <1>1, <2>1, <2>2, <2>3, <2>4 DEF EndOK, Final
  <1>8. CASE DoesRest
    <2>1. srv' = srv /\ h' = h /\ go' = go /\ c'.st = c.st /\ c.st = "NOOP"
      BY <1>8 DEF DoesRest
    <2>2. Taken' = Taken /\ Final' = Final
      BY <1>0, <2>1 DEF Taken, Given, Base, Pending, Told, Final
    <2> QED BY <1>0, <1>1, <2>1, <2>2 DEF EndOK, AtEnd
  <1> QED BY <1>2, <1>4, <1>5, <1>6, <1>7, <1>8

LEMMA EventEnd ==
  ASSUME Streamed, EndOK, Event \/ Timeout, Still PROVE EndOK'
  <1>0. UNCHANGED <<trk, icy, got, h, srv, go>>
    BY EventBody DEF Still, chainVars
  <1>1. c'.st = c.st \/ c'.st \in {"ERR", "ADDR"}
    BY EventOK, TimeoutOK DEF Streamed, Control
  <1>2. Taken' = Taken /\ Final' = Final /\ Pending' = Pending
    BY <1>0 DEF Taken, Given, Base, Pending, Told, Final
  <1> QED BY <1>0, <1>1, <1>2 DEF EndOK, AtEnd

LEMMA TrackEnd ==
  ASSUME Streamed, EndOK, TrackSteps \/ StopTrack PROVE EndOK'
  <1>1. CASE TaskRuns
    <2>1. UNCHANGED <<c, srv, h, icy, got>> /\ trk'.stop = trk.stop /\ trk'.whole = trk.whole
      BY <1>1 DEF TaskRuns, Streamed, Control, TType
    <2>2. Pending' = Pending /\ Base' = Base /\ Given' = Given /\ Taken' = Taken /\ Final' = Final
      BY <1>1, <2>1, TaskRunsControl DEF Pending, Base, Given, Taken, Final, Streamed
    <2> QED BY <2>1, <2>2 DEF EndOK, AtEnd
  <1>2. CASE HttpOpen
    <2>1. CASE Closed(FALSE)
      BY <2>1 DEF Closed, NoUser, EndOK, AtEnd
    <2>2. CASE Sent([NoClient EXCEPT !.st = "START", !.run = TRUE], 1)
      <3>1. c'.st = "START" /\ UNCHANGED <<got, srv>> /\ trk'.whole = trk.whole
        BY <2>2 DEF Sent, NoClient, Streamed, Control, TType
      <3> QED BY <3>1 DEF EndOK, AtEnd, Final
    <2> QED BY <1>2, <2>1, <2>2 DEF HttpOpen
  <1>3. CASE HttpNext
    <2>1. /\ UNCHANGED <<srv, got>> /\ trk' = [trk EXCEPT !.at = "wait"] /\ c'.st = c.st /\ c.st \in InBody
      BY <1>3, HttpNextControl DEF Streamed
    <2>2. trk'.whole = trk.whole
      BY <2>1 DEF Streamed, Control, TType
    <2> QED BY <2>1, <2>2, StatesAre DEF EndOK, AtEnd, Final
  <1>4. CASE HttpData
    <2>1. h'.st = 2 /\ UNCHANGED <<srv, got>> /\ trk' = [trk EXCEPT !.at = "icy"]
      BY <1>4, HttpDataControl DEF Streamed
    <2>2. trk'.whole = trk.whole
      BY <2>1 DEF Streamed, Control, TType
    <2> QED BY <2>1, <2>2 DEF EndOK, AtEnd, Final
  <1>5. CASE HttpEnds \/ OutEnds
    <2>1. PICK whole \in BOOLEAN :
             /\ Closed(whole)
             /\ whole => trk.at = "http" /\ ~trk.stop /\ h.st = 1 /\ h.status = "DONE"
      BY <1>5, HttpEndsControl DEF OutEnds, Streamed
    <2>2. /\ trk'.whole = whole /\ h'.st = 0 /\ (whole => srv' = srv)
          /\ got' = IF h.reset \/ ~whole THEN <<>> ELSE got
      BY <2>1 DEF Closed, NoUser
    <2>3. whole => Len(got') = Final'
      <3>1. HAVE whole
      <3>2. Told /\ h.status # "RESP_RECV" /\ c.st = "NOOP" /\ icy.data = <<>>
        BY <2>1, <3>1 DEF Told, Streamed, Control, ToldOK, TurnOK
      <3>3. Taken = Final /\ Final' = Final
        BY <2>1, <2>2, <3>1, <3>2 DEF EndOK, AtEnd, Final
      <3>4. Pending = <<>> /\ Taken = Base
        BY <3>2, Lengths DEF Pending, Taken, Given
      <3>5. Len(got') = Base
        BY <2>2, <3>1 DEF Base
      <3> QED BY <3>3, <3>4, <3>5
    <2> QED BY <2>2, <2>3 DEF EndOK, AtEnd
  <1>6. CASE IcyReset \/ IcyTitle \/ IcyData \/ IcyMore \/ OutAsks
    <2>1. h'.st = 2 /\ ~trk'.whole
      BY <1>6, IcyControl DEF Streamed
    <2> QED BY <2>1 DEF EndOK, AtEnd
  <1>7. CASE StopTrack
    <2>1. trk'.stop /\ ~trk'.whole
      BY <1>7, StopControl DEF Streamed
    <2> QED BY <2>1 DEF EndOK, AtEnd
  <1> QED BY <1>1, <1>2, <1>3, <1>4, <1>5, <1>6, <1>7 DEF TrackSteps

LEMMA CopyEnd ==
  ASSUME EndOK, UNCHANGED <<c, srv, h, go, trk, got>>, icy'.data = icy.data
  PROVE  EndOK'
  <1>1. Told' <=> Told
    BY DEF Told
  <1>2. Pending' = Pending /\ Taken' = Taken /\ Final' = Final
    BY <1>1 DEF Pending, Taken, Given, Base, Final
  <1> QED BY <1>2 DEF EndOK, AtEnd
-----------------------------------------------------------------------------
(* The copies. *)
NType == [st : {"new", "wait", "out", "last", "orphan", "done", "failed"},
          d : [{0, 1} -> Data], idx : {0, 1}, fin : BOOLEAN, c : BOOLEAN,
          piece : Data, from : {0, 1}, file : Data, go : BOOLEAN, begin : Nat]

(* No unit that metadata comes after is followed by the next one. *)
OneTitle(s) == \A i \in 1 .. Len(s) - 1 : s[i] \in TitleAfter => s[i + 1] # s[i] + 1

(* The buffer that the chain reads from is empty but for the piece it has been given;
   the one told that there is no more has no one who writes to it. *)
CopyOK(n) ==
    /\ n.d[1 - n.idx] = <<>>
    /\ n.st = "out" => n.from = 1 - n.idx
    /\ n.st \in {"new", "wait"} => n.piece = <<>>
    /\ n.fin <=> ~n.c
    /\ n.st = "last" => n.fin
    /\ OneTitle(Held(n))

LEMMA HeldIs ==
  ASSUME NEW n \in NType
  PROVE  /\ Held(n) \in Data /\ n.file \in Data /\ n.piece \in Data /\ n.d[n.idx] \in Data
         /\ n.idx \in {0, 1} /\ 1 - n.idx \in {0, 1} /\ 1 - n.idx # n.idx
  <1>1. n.file \in Data /\ n.piece \in Data /\ n.d[n.idx] \in Data /\ n.idx \in {0, 1}
    BY DEF NType
  <1>2. n.file \o n.piece \in Data
    BY <1>1, ConcatProperties DEF Data
  <1>3. Held(n) \in Data
    BY <1>1, <1>2, ConcatProperties DEF Held, Data
  <1> QED BY <1>1, <1>3

(* The buffers are exchanged. *)
LEMMA AfterGives ==
  ASSUME NEW n \in NType, n.d[1 - n.idx] = <<>>, n.piece = <<>>
  PROVE  LET G == Gives(n) IN
         /\ G \in NType /\ Held(G) = Held(n) /\ G.d[1 - G.idx] = <<>> /\ G.from = 1 - G.idx
         /\ G.st = (IF n.fin THEN "last" ELSE "out") /\ G.fin = n.fin /\ G.c = n.c
         /\ G.begin = n.begin
  <1> DEFINE s == n.d[n.idx]
             st == IF n.fin THEN "last" ELSE "out"
             d == [n.d EXCEPT ![n.idx] = <<>>]
             x == 1 - n.idx
             G == [n EXCEPT !.st = st, !.go = FALSE, !.piece = s, !.from = n.idx, !.d = d, !.idx = x]
  <1>1. Gives(n) = G
    BY DEF Gives, Other, NType
  <1>2. s \in Data /\ x \in {0, 1} /\ n.idx = 1 - x /\ n.idx \in {0, 1} /\ n.file \in Data
    BY DEF NType
  <1>3. d \in [{0, 1} -> Data] /\ d[n.idx] = <<>> /\ d[x] = <<>>
    BY <1>2 DEF NType, Data
  <1>4. st \in {"last", "out"}
    OBVIOUS
  <1> HIDE DEF s, d, x, st
  <1>5. /\ G \in NType /\ G.d = d /\ G.idx = x /\ G.from = n.idx /\ G.st = st /\ G.fin = n.fin /\ G.c = n.c
        /\ G.begin = n.begin /\ G.piece = s /\ G.file = n.file
    BY <1>2, <1>3, <1>4 DEF NType
  <1> HIDE DEF G
  <1>6. G.d[1 - G.idx] = <<>> /\ G.d[G.idx] = <<>> /\ G.from = 1 - G.idx
    BY <1>2, <1>3, <1>5
  <1>7. Held(G) = (n.file \o s) \o <<>>
    BY <1>5, <1>6 DEF Held
  <1>8. Held(n) = (n.file \o <<>>) \o s
    BY DEF Held, s
  <1>9. n.file \o <<>> = n.file /\ n.file \o s \in Data
    BY <1>2, ConcatEmptySeq, ConcatProperties DEF Data
  <1>10. (n.file \o s) \o <<>> = n.file \o s
    BY <1>9, ConcatEmptySeq DEF Data
  <1> QED BY <1>1, <1>5, <1>6, <1>7, <1>8, <1>9, <1>10 DEF st

LEMMA AfterAsked ==
  ASSUME NEW n \in NType, n.d[1 - n.idx] = <<>>, n.piece = <<>>
  PROVE  LET G == Asked(n) IN
         /\ G \in NType /\ Held(G) = Held(n) /\ G.d[1 - G.idx] = <<>> /\ (G.st = "out" => G.from = 1 - G.idx)
         /\ G.fin = n.fin /\ G.c = n.c /\ G.begin = n.begin
         /\ \/ G.st = "wait" /\ G.piece = <<>>
            \/ G.st = (IF n.fin THEN "last" ELSE "out")
  <1>1. CASE n.d[n.idx] = <<>> /\ ~n.fin
    <2> DEFINE G == [n EXCEPT !.st = "wait", !.go = FALSE]
    <2>1. Asked(n) = G
      BY <1>1 DEF Asked
    <2>2. /\ G \in NType /\ G.d = n.d /\ G.idx = n.idx /\ G.st = "wait" /\ G.fin = n.fin /\ G.c = n.c
          /\ G.begin = n.begin /\ G.piece = n.piece /\ G.file = n.file
      BY DEF NType
    <2> HIDE DEF G
    <2>3. Held(G) = Held(n)
      BY <2>2 DEF Held
    <2> QED BY <2>1, <2>2, <2>3
  <1>2. CASE ~(n.d[n.idx] = <<>> /\ ~n.fin)
    <2>1. Asked(n) = Gives(n)
      BY <1>2 DEF Asked
    <2> QED BY <2>1, AfterGives
  <1> QED BY <1>1, <1>2

(* The chain writes its piece. *)
LEMMA AfterWriting ==
  ASSUME NEW n \in NType
  PROVE  LET W == [n EXCEPT !.file = @ \o n.piece, !.piece = <<>>] IN
         /\ W \in NType /\ Held(W) = Held(n) /\ W.d = n.d /\ W.idx = n.idx /\ W.piece = <<>>
         /\ W.st = n.st /\ W.fin = n.fin /\ W.c = n.c /\ W.begin = n.begin
  <1> DEFINE s == n.file \o n.piece
             W == [n EXCEPT !.file = s, !.piece = <<>>]
  <1>1. [n EXCEPT !.file = @ \o n.piece, !.piece = <<>>] = W
    BY DEF NType
  <1>2. s \in Data /\ <<>> \in Data
    BY HeldIs, ConcatProperties DEF Data
  <1>3. Held(n) = s \o n.d[n.idx]
    BY DEF Held
  <1> HIDE DEF s
  <1>4. /\ W \in NType /\ W.d = n.d /\ W.idx = n.idx /\ W.piece = <<>> /\ W.file = s
        /\ W.st = n.st /\ W.fin = n.fin /\ W.c = n.c /\ W.begin = n.begin
    BY <1>2 DEF NType
  <1> HIDE DEF W
  <1>5. Held(W) = (s \o <<>>) \o n.d[n.idx]
    BY <1>4 DEF Held
  <1>6. s \o <<>> = s
    BY <1>2, ConcatEmptySeq DEF Data
  <1> QED BY <1>1, <1>3, <1>4, <1>5, <1>6

(* The filter icy writes to the other buffer. *)
LEMMA AfterWritten ==
  ASSUME NEW n \in NType, CopyOK(n), NEW s \in Data
  PROVE  LET W == Written(n, s) IN
         /\ W \in NType /\ Held(W) = Held(n) \o s /\ W.d[1 - W.idx] = <<>> /\ W.idx = n.idx
         /\ W.st = n.st /\ W.fin = n.fin /\ W.c = n.c /\ W.begin = n.begin /\ W.piece = n.piece
         /\ W.from = n.from
  <1> DEFINE t == n.d[n.idx] \o s
             d == [n.d EXCEPT ![n.idx] = t]
             A == [n EXCEPT !.d = d]
             b == (n.go \/ n.st = "wait")
             W == [A EXCEPT !.go = b]
  <1>0. n.idx \in {0, 1} /\ 1 - n.idx \in {0, 1} /\ 1 - n.idx # n.idx /\ n.file \in Data /\ n.piece \in Data
        /\ n.d[n.idx] \in Data /\ n.d \in [{0, 1} -> Data]
    BY HeldIs DEF NType
  <1>1. ~(n.st = "out" /\ n.from = n.idx)
    BY <1>0 DEF CopyOK
  <1>2. Added(n, s) = A
    <2>1. Added(n, s) = [n EXCEPT !.d[n.idx] = @ \o s, !.piece = n.piece]
      BY <1>1 DEF Added, NType
    <2>2. [n EXCEPT !.d[n.idx] = @ \o s, !.piece = n.piece] = A
      BY <1>0 DEF NType
    <2> QED BY <2>1, <2>2
  <1>3. t \in Data
    BY <1>0, ConcatProperties DEF Data
  <1>4. b \in BOOLEAN
    BY DEF NType
  <1>5. d \in [{0, 1} -> Data] /\ d[n.idx] = t /\ d[1 - n.idx] = n.d[1 - n.idx]
    <2> HIDE DEF t
    <2> QED BY <1>0, <1>3
  <1>6. Held(n) \o s = (n.file \o n.piece) \o t
    <2> DEFINE a == n.file \o n.piece
               e == n.d[n.idx]
    <2>1. a \in Data
      BY <1>0, ConcatProperties DEF Data
    <2>2. e \in Data /\ Held(n) = a \o e /\ t = e \o s
      BY <1>0 DEF Held
    <2> HIDE DEF a, e, t
    <2>3. (a \o e) \o s = a \o (e \o s)
      BY <2>1, <2>2, ConcatAssociative DEF Data
    <2>4. Held(n) \o s = a \o t
      BY <2>2, <2>3
    <2> QED BY <2>4 DEF a
  <1> HIDE DEF d, t
  <1>7. /\ A \in NType /\ A.d = d /\ A.idx = n.idx /\ A.st = n.st /\ A.fin = n.fin /\ A.c = n.c
        /\ A.begin = n.begin /\ A.piece = n.piece /\ A.file = n.file /\ A.from = n.from /\ A.go = n.go
    BY <1>5 DEF NType
  <1> HIDE DEF A
  <1>8. Written(n, s) = W
    BY <1>2, <1>7 DEF Written, Woken, NType
  <1> HIDE DEF b
  <1>9. /\ W \in NType /\ W.d = d /\ W.idx = n.idx /\ W.st = n.st /\ W.fin = n.fin /\ W.c = n.c
        /\ W.begin = n.begin /\ W.piece = n.piece /\ W.file = n.file /\ W.from = n.from
    BY <1>4, <1>7 DEF NType
  <1> HIDE DEF W
  <1>10. Held(W) = Held(n) \o s /\ W.d[1 - W.idx] = <<>>
    BY <1>5, <1>6, <1>9 DEF Held, CopyOK
  <1> QED BY <1>8, <1>9, <1>10

LEMMA AfterEnded ==
  ASSUME NEW n \in NType
  PROVE  LET W == Ended(n) IN
         /\ W \in NType /\ Held(W) = Held(n) /\ W.d = n.d /\ W.idx = n.idx
         /\ W.st = n.st /\ W.fin /\ ~W.c /\ W.begin = n.begin /\ W.piece = n.piece /\ W.from = n.from
         /\ (CopyOK(n) => CopyOK(W))
  <1> DEFINE A == [n EXCEPT !.fin = TRUE, !.c = FALSE]
             b == (n.go \/ n.st = "wait")
             W == [A EXCEPT !.go = b]
  <1>1. b \in BOOLEAN
    BY DEF NType
  <1>2. A.go = n.go /\ A.st = n.st
    BY DEF NType
  <1>3. Ended(n) = W
    BY <1>2 DEF Ended, Woken, NType
  <1> HIDE DEF b
  <1>4. /\ W \in NType /\ W.d = n.d /\ W.idx = n.idx /\ W.st = n.st /\ W.fin = TRUE /\ W.c = FALSE
        /\ W.begin = n.begin /\ W.piece = n.piece /\ W.file = n.file /\ W.from = n.from
    BY <1>1 DEF NType
  <1> HIDE DEF W
  <1>5. Held(W) = Held(n)
    BY <1>4 DEF Held
  <1>6. CopyOK(n) => CopyOK(W)
    BY <1>4, <1>5 DEF CopyOK
  <1> QED BY <1>3, <1>4, <1>5, <1>6
ChainTyped ==
    /\ icy \in IType /\ copy \in Seq(NType) /\ Len(copy) <= MaxCopies
    /\ got \in Data /\ stream \in Data /\ gap \in BOOLEAN

Linkable(n) == n.c /\ n.st \notin {"done", "failed"}

(* Each copy is in order; the filter icy writes to the last one, or to none; what
   comes next, after the metadata that has been read, is not more of the title that
   the copy's data ends. *)
CopiesOK ==
    /\ icy.netin \in {0, Len(copy)}
    /\ \A k \in 1 .. Len(copy) : CopyOK(copy[k]) /\ (icy.netin = k <=> Linkable(copy[k]))
    /\ icy.netin # 0 =>
          LET H == Held(copy[icy.netin]) IN H # <<>> => icy.seen < H[Len(H)]

(* Without a gap, the copies hold the stream, piece by piece, and there is one to
   write to from the first data on. *)
Parts ==
    /\ Begin(1) = 0
    /\ \A k \in 1 .. Len(copy) :
          /\ Begin(k) <= Begin(k + 1) /\ Begin(k + 1) <= Len(stream)
          /\ Held(copy[k]) = SubSeq(stream, Begin(k) + 1, Begin(k + 1))

PartsOK ==
    ~gap => /\ Parts
            /\ trk.at # "closed" /\ icy.netin = 0 => copy = <<>> /\ (c.st \in InBody => h.reset)

(* What the copies hold is the same, and so is where they begin. *)
Alike(N) ==
    /\ N \in Seq(NType) /\ Len(N) = Len(copy)
    /\ \A k \in 1 .. Len(copy) : N[k].begin = copy[k].begin /\ Held(N[k]) = Held(copy[k])

LEMMA Domains ==
  ASSUME ChainTyped
  PROVE  /\ DOMAIN copy = 1 .. Len(copy) /\ Len(copy) \in Nat /\ Len(stream) \in Nat
         /\ \A k \in 1 .. Len(copy) : copy[k] \in NType /\ copy[k].begin \in Nat
         /\ \A k \in Nat : Begin(k) \in Nat
  <1>1. DOMAIN copy = 1 .. Len(copy) /\ Len(copy) \in Nat /\ Len(stream) \in Nat
    BY LenProperties DEF ChainTyped, Data
  <1>2. \A k \in 1 .. Len(copy) : copy[k] \in NType
    BY ElementOfSeq DEF ChainTyped
  <1>3. \A k \in 1 .. Len(copy) : copy[k].begin \in Nat
    BY <1>2 DEF NType
  <1> QED BY <1>1, <1>2, <1>3 DEF Begin

LEMMA SameParts ==
  ASSUME ChainTyped, Alike(copy'), stream' = stream, Parts
  PROVE  Parts'
  <1>1. /\ DOMAIN copy' = 1 .. Len(copy) /\ DOMAIN copy = 1 .. Len(copy) /\ Len(copy') = Len(copy)
        /\ Len(copy) \in Nat
    BY Domains, LenProperties DEF Alike
  <1>2. \A k \in Nat : Begin(k)' = Begin(k)
    BY <1>1 DEF Begin, Alike
  <1>3. \A k \in 1 .. Len(copy) : k \in Nat /\ k + 1 \in Nat
    BY <1>1
  <1>4. Begin(1)' = 0
    BY <1>2 DEF Parts
  <1>5. ASSUME NEW k \in 1 .. Len(copy)
        PROVE  /\ Begin(k)' <= Begin(k + 1)' /\ Begin(k + 1)' <= Len(stream')
               /\ Held(copy'[k]) = SubSeq(stream', Begin(k)' + 1, Begin(k + 1)')
    BY <1>2, <1>3 DEF Parts, Alike
  <1> QED BY <1>1, <1>4, <1>5 DEF Parts

LEMMA AppendedParts ==
  ASSUME ChainTyped, NEW N, Alike(N), NEW n \in NType, copy' = Append(N, n), n.begin = Len(stream),
         Held(n) = <<>>, stream' = stream, Parts
  PROVE  Parts'
  <1>0. PICK m \in Nat : m = Len(copy)
    BY Domains
  <1>1. /\ DOMAIN copy = 1 .. m /\ m \in Nat /\ Len(stream) \in Nat /\ \A k \in Nat : Begin(k) \in Nat
    BY <1>0, Domains
  <1>2. /\ copy' \in Seq(NType) /\ Len(copy') = m + 1 /\ copy'[m + 1] = n
        /\ \A k \in 1 .. m : copy'[k] = N[k]
    BY <1>0, AppendProperties DEF Alike
  <1>3. DOMAIN copy' = 1 .. m + 1
    BY <1>2, LenProperties
  <1>4. \A k \in 1 .. m + 1 : Begin(k)' = Begin(k)
    <2>1. ASSUME NEW k \in 1 .. m PROVE Begin(k)' = Begin(k)
      <3>1. k \in 1 .. m + 1
        BY <1>1
      <3>2. copy'[k].begin = copy[k].begin
        BY <1>0, <1>2 DEF Alike
      <3> QED BY <1>1, <1>3, <3>1, <3>2 DEF Begin
    <2>2. Begin(m + 1)' = Begin(m + 1)
      <3>1. m + 1 \notin 1 .. m /\ m + 1 \in 1 .. m + 1
        BY <1>1
      <3> QED BY <1>1, <1>2, <1>3, <3>1 DEF Begin
    <2>3. \A k \in 1 .. m + 1 : k \in 1 .. m \/ k = m + 1
      BY <1>1
    <2> QED BY <2>1, <2>2, <2>3
  <1>5. Begin(m + 2)' = Len(stream) /\ Begin(m + 1)' = Len(stream)
    <2>1. m + 2 \notin 1 .. m + 1 /\ m + 1 \in 1 .. m + 1
      BY <1>1
    <2> QED BY <1>2, <1>3, <2>1 DEF Begin
  <1>6. Begin(1)' = 0
    BY <1>1, <1>4 DEF Parts
  <1>7. ASSUME NEW k \in 1 .. m + 1
        PROVE  /\ Begin(k)' <= Begin(k + 1)' /\ Begin(k + 1)' <= Len(stream')
               /\ Held(copy'[k]) = SubSeq(stream', Begin(k)' + 1, Begin(k + 1)')
    <2>1. CASE k \in 1 .. m
      <3>1. k + 1 \in 1 .. m + 1
        BY <1>1, <2>1
      <3>2. Begin(k)' = Begin(k) /\ Begin(k + 1)' = Begin(k + 1)
        BY <1>4, <3>1
      <3>3. Held(copy'[k]) = Held(copy[k])
        BY <1>0, <1>2, <2>1 DEF Alike
      <3> QED BY <1>0, <2>1, <3>2, <3>3 DEF Parts
    <2>2. CASE k = m + 1
      <3>1. Begin(k)' = Len(stream) /\ Begin(k + 1)' = Len(stream)
        BY <1>1, <1>5, <2>2
      <3>2. SubSeq(stream, Len(stream) + 1, Len(stream)) = <<>>
        BY <1>1, SubSeqEmpty
      <3>3. Held(copy'[k]) = <<>> /\ stream' = stream
        BY <1>2, <2>2
      <3>4. SubSeq(stream', Begin(k)' + 1, Begin(k + 1)') = <<>>
        BY <3>1, <3>2, <3>3
      <3>5. Len(stream) <= Len(stream')
        BY <1>1, <3>3
      <3> QED BY <3>1, <3>3, <3>4, <3>5
    <2>3. k \in 1 .. m \/ k = m + 1
      BY <1>1
    <2> QED BY <2>1, <2>2, <2>3
  <1> QED BY <1>2, <1>6, <1>7 DEF Parts

(* The parts of a sequence that another one is appended to. *)
LEMMA PartOfFirst ==
  ASSUME NEW t \in Data, NEW s \in Data, NEW b \in Nat, NEW e \in Nat, b <= e, e <= Len(t)
  PROVE  SubSeq(t \o s, b + 1, e) = SubSeq(t, b + 1, e)
  <1>1. CASE b = e
    <2>1. SubSeq(t \o s, b + 1, e) = <<>> /\ SubSeq(t, b + 1, e) = <<>>
      BY <1>1, SubSeqEmpty
    <2> QED BY <2>1
  <1>2. CASE b # e
    <2>1. Len(t) \in Nat
      BY LenProperties DEF Data
    <2>2. b + 1 \in 1 .. Len(t) /\ e \in 1 .. Len(t)
      BY <1>2, <2>1
    <2> QED BY <2>2, SubSeqOfConcat1 DEF Data
  <1> QED BY <1>1, <1>2

LEMMA PartOfJoined ==
  ASSUME NEW t \in Data, NEW s \in Data, NEW b \in Nat, b <= Len(t)
  PROVE  SubSeq(t \o s, b + 1, Len(t) + Len(s)) = SubSeq(t, b + 1, Len(t)) \o s
  <1>0. Len(t) \in Nat /\ Len(s) \in Nat
    BY LenProperties DEF Data
  <1> DEFINE u == t \o s
             l == Len(t)
             q == Len(t) + Len(s)
             x == SubSeq(t, b + 1, l)
             y == SubSeq(u, b + 1, q)
  <1>1. /\ u \in Data /\ Len(u) = q /\ q \in Nat /\ l \in Nat /\ l <= q
        /\ \A i \in 1 .. q : u[i] = IF i <= l THEN t[i] ELSE s[i - l]
    BY <1>0, ConcatProperties DEF Data
  <1> HIDE DEF u, q, l
  <1>00. b <= l /\ b <= q /\ Len(t) = l /\ q = l + Len(s)
    BY <1>0, <1>1 DEF l, q
  <1>2. /\ x \in Data /\ Len(x) = l - b /\ \A i \in 1 .. l - b : x[i] = t[b + i]
    <2>1. ASSUME NEW i \in b + 1 .. l PROVE t[i] \in 1 .. Units
      <3>1. i \in 1 .. Len(t)
        BY <1>00, <1>1
      <3> QED BY <3>1, ElementOfSeq DEF Data
    <2>2. b + 1 \in Int /\ l \in Int /\ \A i \in b + 1 .. l : t[i] \in 1 .. Units
      BY <1>1, <2>1
    <2>3. /\ x \in Data /\ Len(x) = (IF b + 1 <= l THEN l - (b + 1) + 1 ELSE 0)
          /\ \A i \in 1 .. l - (b + 1) + 1 : x[i] = t[b + 1 + i - 1]
      BY <2>2, SubSeqProperties DEF Data
    <2> HIDE DEF x
    <2> QED BY <1>00, <1>1, <2>3
  <1>3. /\ y \in Data /\ Len(y) = q - b /\ \A i \in 1 .. q - b : y[i] = u[b + i]
    <2>1. ASSUME NEW i \in b + 1 .. q PROVE u[i] \in 1 .. Units
      <3>1. i \in 1 .. Len(u)
        BY <1>00, <1>1
      <3> QED BY <1>1, <3>1, ElementOfSeq DEF Data
    <2>2. b + 1 \in Int /\ q \in Int /\ \A i \in b + 1 .. q : u[i] \in 1 .. Units
      BY <1>1, <2>1
    <2>3. /\ y \in Data /\ Len(y) = (IF b + 1 <= q THEN q - (b + 1) + 1 ELSE 0)
          /\ \A i \in 1 .. q - (b + 1) + 1 : y[i] = u[b + 1 + i - 1]
      BY <2>2, SubSeqProperties DEF Data
    <2> HIDE DEF y
    <2> QED BY <1>00, <1>1, <2>3
  <1> HIDE DEF x, y
  <1>4. /\ x \o s \in Data /\ Len(x \o s) = q - b
        /\ \A i \in 1 .. q - b : (x \o s)[i] = IF i <= l - b THEN x[i] ELSE s[i - (l - b)]
    <2>1. /\ x \o s \in Data /\ Len(x \o s) = Len(x) + Len(s)
          /\ \A i \in 1 .. Len(x) + Len(s) : (x \o s)[i] = IF i <= Len(x) THEN x[i] ELSE s[i - Len(x)]
      BY <1>2, ConcatProperties DEF Data
    <2>2. Len(x) = l - b /\ Len(x) + Len(s) = q - b
      BY <1>0, <1>00, <1>1, <1>2
    <2> QED BY <2>1, <2>2
  <1>5. ASSUME NEW i \in 1 .. Len(y) PROVE y[i] = (x \o s)[i]
    <2>0. i \in Nat \ {0} /\ i \in 1 .. q - b /\ b + i \in 1 .. q
      BY <1>00, <1>1, <1>3
    <2>1. CASE i <= l - b
      <3>1. b + i <= l /\ i \in 1 .. l - b
        BY <1>00, <1>1, <2>0, <2>1
      <3> QED BY <1>1, <1>2, <1>3, <1>4, <2>0, <2>1, <3>1
    <2>2. CASE ~(i <= l - b)
      <3>1. ~(b + i <= l) /\ (b + i) - l = i - (l - b)
        BY <1>00, <1>1, <2>0, <2>2
      <3> QED BY <1>1, <1>3, <1>4, <2>0, <2>2, <3>1
    <2> QED BY <2>1, <2>2
  <1>6. y = x \o s
    BY <1>3, <1>4, <1>5, SeqEqual DEF Data
  <1> QED BY <1>6 DEF x, y, u, q, l

LEMMA WrittenParts ==
  ASSUME ChainTyped, Parts, copy # <<>>, NEW s \in Data, NEW W \in NType,
         copy' = [copy EXCEPT ![Len(copy)] = W],
         W.begin = copy[Len(copy)].begin, Held(W) = Held(copy[Len(copy)]) \o s, stream' = stream \o s
  PROVE  Parts'
  <1>0. PICK m \in Nat, l \in Nat : m = Len(copy) /\ l = Len(stream)
    BY Domains
  <1>1. /\ DOMAIN copy = 1 .. m /\ m \in Nat \ {0} /\ l \in Nat /\ \A k \in Nat : Begin(k) \in Nat
        /\ stream \in Data
    BY <1>0, Domains, EmptySeq DEF ChainTyped
  <1>2. /\ copy' \in Seq(NType) /\ Len(copy') = m /\ DOMAIN copy' = 1 .. m /\ copy'[m] = W
        /\ \A k \in 1 .. m : k # m => copy'[k] = copy[k]
    <2>1. copy \in Seq(NType) /\ m \in 1 .. m
      BY <1>1 DEF ChainTyped
    <2> QED BY <1>0, <2>1, ExceptSeq, LenProperties
  <1>3. stream' \in Data /\ Len(stream') = l + Len(s) /\ Len(s) \in Nat
        /\ \A i \in 1 .. l + Len(s) : stream'[i] = IF i <= l THEN stream[i] ELSE s[i - l]
    BY <1>0, <1>1, ConcatProperties, LenProperties DEF Data
  <1>4. \A k \in 1 .. m : Begin(k)' = Begin(k) /\ Begin(k) = copy[k].begin
    BY <1>1, <1>2 DEF Begin
  <1>5. Begin(m + 1)' = Len(stream') /\ Begin(m + 1) = l
    <2>1. m + 1 \notin 1 .. m
      BY <1>1
    <2> QED BY <1>0, <1>1, <1>2, <2>1 DEF Begin
  <1>6. \A k \in 1 .. m :
           /\ Begin(k) <= Begin(k + 1) /\ Begin(k + 1) <= l
           /\ Held(copy[k]) = SubSeq(stream, Begin(k) + 1, Begin(k + 1))
    BY <1>0 DEF Parts
  <1>7. Begin(1)' = 0
    <2>1. 1 \in 1 .. m
      BY <1>1
    <2> QED BY <1>4, <2>1 DEF Parts
  <1>8. ASSUME NEW k \in 1 .. m
        PROVE  /\ Begin(k)' <= Begin(k + 1)' /\ Begin(k + 1)' <= Len(stream')
               /\ Held(copy'[k]) = SubSeq(stream', Begin(k)' + 1, Begin(k + 1)')
    <2> DEFINE b == Begin(k)
               e == Begin(k + 1)
    <2>0. b \in Nat /\ e \in Nat /\ b <= e /\ e <= l /\ k \in Nat /\ Begin(k)' = b
          /\ Held(copy[k]) = SubSeq(stream, b + 1, e)
      <3>1. k \in Nat /\ k + 1 \in Nat
        BY <1>1
      <3>2. b \in Nat /\ e \in Nat
        BY <1>1, <3>1
      <3> QED BY <1>4, <1>6, <3>1, <3>2
    <2>1. CASE k # m
      <3>1. k + 1 \in 1 .. m
        BY <1>1, <2>1
      <3>2. Begin(k + 1)' = e /\ Held(copy'[k]) = Held(copy[k])
        BY <1>2, <1>4, <2>1, <3>1
      <3> HIDE DEF b, e
      <3>3. SubSeq(stream', b + 1, e) = SubSeq(stream, b + 1, e)
        <4>1. b \in Nat /\ e \in Nat /\ b <= e /\ e <= Len(stream)
          BY <1>0, <2>0
        <4>2. SubSeq(stream \o s, b + 1, e) = SubSeq(stream, b + 1, e)
          BY <1>1, <4>1, PartOfFirst
        <4> QED BY <4>2
      <3>4. e <= Len(stream')
        BY <1>1, <1>3, <2>0
      <3> QED BY <2>0, <3>2, <3>3, <3>4
    <2>2. CASE k = m
      <3>1. e = l /\ Begin(k + 1)' = Len(stream') /\ Held(copy'[k]) = SubSeq(stream, b + 1, l) \o s
        BY <1>0, <1>2, <1>5, <2>0, <2>2
      <3> HIDE DEF b, e
      <3>2. SubSeq(stream', b + 1, l + Len(s)) = SubSeq(stream, b + 1, l) \o s
        <4>1. b \in Nat /\ b <= Len(stream)
          BY <1>0, <2>0, <3>1
        <4> QED BY <1>0, <1>1, <4>1, PartOfJoined
      <3>3. b <= Len(stream') /\ Len(stream') <= Len(stream')
        BY <1>1, <1>3, <2>0, <3>1
      <3>4. Held(copy'[k]) = SubSeq(stream', b + 1, Len(stream'))
        BY <1>3, <3>1, <3>2
      <3> QED BY <2>0, <3>1, <3>3, <3>4
    <2> QED BY <2>1, <2>2
  <1> QED BY <1>0, <1>2, <1>7, <1>8 DEF Parts

LEMMA EndedAlike ==
  ASSUME ChainTyped, CopiesOK
  PROVE  /\ Alike(CopyEnded)
         /\ \A k \in 1 .. Len(copy) : CopyOK(CopyEnded[k]) /\ ~Linkable(CopyEnded[k])
  <1>1. /\ Len(copy) \in Nat /\ \A k \in 1 .. Len(copy) : copy[k] \in NType
        /\ copy \in Seq(NType)
    BY Domains DEF ChainTyped
  <1>2. CASE icy.netin = 0
    <2>1. CopyEnded = copy
      BY <1>2 DEF CopyEnded
    <2>2. \A k \in 1 .. Len(copy) : CopyOK(copy[k]) /\ ~Linkable(copy[k])
      BY <1>1, <1>2 DEF CopiesOK
    <2> QED BY <1>1, <2>1, <2>2 DEF Alike
  <1>3. CASE icy.netin # 0
    <2>1. PICK m \in Nat : m = Len(copy) /\ m = icy.netin /\ m \in 1 .. m
      BY <1>1, <1>3 DEF CopiesOK
    <2> DEFINE W == Ended(copy[m])
    <2>2. /\ W \in NType /\ Held(W) = Held(copy[m]) /\ ~W.c /\ W.begin = copy[m].begin
          /\ (CopyOK(copy[m]) => CopyOK(W))
      BY <1>1, <2>1, AfterEnded
    <2>3. CopyEnded = [copy EXCEPT ![m] = W]
      BY <1>3, <2>1 DEF CopyEnded
    <2> HIDE DEF W
    <2>4. /\ CopyEnded \in Seq(NType) /\ Len(CopyEnded) = m
          /\ \A k \in 1 .. m : CopyEnded[k] = IF k = m THEN W ELSE copy[k]
      <3>1. m \in 1 .. Len(copy) /\ copy \in Seq(NType) /\ W \in NType
        BY <1>1, <2>1, <2>2
      <3>2. /\ [copy EXCEPT ![m] = W] \in Seq(NType) /\ Len([copy EXCEPT ![m] = W]) = Len(copy)
            /\ \A k \in 1 .. Len(copy) : [copy EXCEPT ![m] = W][k] = IF k = m THEN W ELSE copy[k]
        BY <3>1, ExceptSeq
      <3> QED BY <2>1, <2>3, <3>2
    <2>5. Alike(CopyEnded)
      BY <2>1, <2>2, <2>4 DEF Alike
    <2>6. \A k \in 1 .. m : CopyOK(copy[k]) /\ (m = k <=> Linkable(copy[k]))
      BY <2>1 DEF CopiesOK
    <2>7. \A k \in 1 .. m : CopyOK(CopyEnded[k]) /\ ~Linkable(CopyEnded[k])
      BY <2>2, <2>4, <2>6 DEF Linkable
    <2> QED BY <2>1, <2>5, <2>7
  <1> QED BY <1>2, <1>3

LEMMA ClosedCopies ==
  ASSUME Streamed, ChainTyped, CopiesOK, PartsOK, NEW whole \in BOOLEAN, Closed(whole)
  PROVE  ChainTyped' /\ CopiesOK' /\ PartsOK'
  <1>1. /\ trk' = [at |-> "closed", stop |-> FALSE, whole |-> whole]
        /\ icy' = NoIcy /\ copy' = CopyEnded /\ UNCHANGED <<stream, gap>>
    BY DEF Closed
  <1>2. /\ Alike(copy') /\ \A k \in 1 .. Len(copy) : CopyOK(copy'[k]) /\ ~Linkable(copy'[k])
    BY <1>1, EndedAlike
  <1>3. ChainTyped'
    BY <1>1, <1>2, ClosedBody DEF ChainTyped, Alike
  <1>4. icy'.netin = 0 /\ Len(copy') = Len(copy) /\ Len(copy) \in Nat
    BY <1>1, <1>2, Domains DEF NoIcy, Alike
  <1>5. CopiesOK'
    BY <1>2, <1>4 DEF CopiesOK
  <1>6. PartsOK'
    BY <1>1, <1>2, SameParts DEF PartsOK
  <1> QED BY <1>3, <1>5, <1>6

(* A new copy. *)
LEMMA NewIs ==
  ASSUME NEW b \in Nat
  PROVE  LET n == [NewCopy EXCEPT !.begin = b] IN
         /\ n \in NType /\ n.begin = b /\ Held(n) = <<>> /\ CopyOK(n) /\ Linkable(n)
         /\ LET o == [n EXCEPT !.st = "orphan", !.go = FALSE] IN
            o \in NType /\ CopyOK(o) /\ Linkable(o) /\ Held(o) = <<>>
  <1> DEFINE n == [NewCopy EXCEPT !.begin = b]
             o == [n EXCEPT !.st = "orphan", !.go = FALSE]
  <1>0. <<>> \in Data /\ (<<>> \o <<>>) \o <<>> = <<>>
    BY EmptySeq, ConcatEmptySeq DEF Data
  <1>1. NewCopy \in NType
    BY <1>0 DEF NewCopy, NType
  <1>2. /\ n \in NType /\ n.begin = b /\ n.file = <<>> /\ n.piece = <<>> /\ n.d = [i \in {0, 1} |-> <<>>]
        /\ n.idx = 0 /\ ~n.fin /\ n.c /\ n.st = "new"
    BY <1>1 DEF NType, NewCopy
  <1> HIDE DEF n
  <1>3. /\ o \in NType /\ o.file = <<>> /\ o.piece = <<>> /\ o.d = [i \in {0, 1} |-> <<>>]
        /\ o.idx = 0 /\ ~o.fin /\ o.c /\ o.st = "orphan"
    BY <1>2 DEF NType
  <1> HIDE DEF o
  <1>4. Held(n) = <<>> /\ Held(o) = <<>>
    BY <1>0, <1>2, <1>3 DEF Held
  <1>5. OneTitle(<<>>)
    BY DEF OneTitle
  <1>6. CopyOK(n) /\ Linkable(n)
    BY <1>2, <1>4, <1>5 DEF CopyOK, Linkable
  <1>7. CopyOK(o) /\ Linkable(o)
    BY <1>3, <1>4, <1>5 DEF CopyOK, Linkable
  <1> QED BY <1>2, <1>3, <1>4, <1>6, <1>7 DEF n, o

LEMMA CreatedCopies ==
  ASSUME ChainTyped, NEW I \in IType, NEW N, Alike(N),
         \A k \in 1 .. Len(copy) : CopyOK(N[k]) /\ ~Linkable(N[k]),
         NEW how \in Creating, Creates(I, N, how), stream' = stream, PartsOK, got' \in Data
  PROVE  ChainTyped' /\ CopiesOK' /\ PartsOK'
  <1>0. PICK m \in Nat, l \in Nat : m = Len(copy) /\ l = Len(stream)
    BY Domains
  <1>1. /\ N \in Seq(NType) /\ Len(N) = m /\ MaxCopies \in Nat /\ m <= MaxCopies
        /\ stream' \in Data /\ gap \in BOOLEAN
    BY <1>0, Assumed DEF Alike, ChainTyped
  <1>2. CASE how = "fails"
    <2>1. /\ copy' = N /\ icy' = [I EXCEPT !.netin = 0] /\ gap'
      BY <1>2 DEF Creates
    <2>2. icy' \in IType /\ icy'.netin = 0
      BY <1>1, <2>1 DEF IType
    <2>3. ChainTyped'
      BY <1>0, <1>1, <1>2, <2>1, <2>2 DEF ChainTyped, Creates
    <2>4. CopiesOK'
      BY <1>0, <1>1, <2>1, <2>2 DEF CopiesOK
    <2>5. PartsOK'
      BY <2>1 DEF PartsOK
    <2> QED BY <2>3, <2>4, <2>5
  <1>3. CASE how \in {"starts", "orphan"}
    <2> DEFINE n == [NewCopy EXCEPT !.begin = l]
               o == [n EXCEPT !.st = "orphan", !.go = FALSE]
    <2>0. m < MaxCopies
      BY <1>0, <1>3 DEF Creating
    <2>1. /\ n \in NType /\ n.begin = l /\ Held(n) = <<>> /\ CopyOK(n) /\ Linkable(n)
          /\ o \in NType /\ CopyOK(o) /\ Linkable(o) /\ Held(o) = <<>>
      BY NewIs
    <2>2. /\ gap' = (gap \/ how = "orphan") /\ copy' = Append(N, IF how = "starts" THEN n ELSE o)
          /\ icy' = [I EXCEPT !.netin = m + 1]
      BY <1>0, <1>1, <1>3 DEF Creates
    <2> HIDE DEF n, o
    <2> DEFINE w == IF how = "starts" THEN n ELSE o
    <2>3. w \in NType /\ CopyOK(w) /\ Linkable(w) /\ Held(w) = <<>> /\ copy' = Append(N, w)
          /\ (how = "starts" => w.begin = l)
      BY <2>1, <2>2
    <2> HIDE DEF w
    <2>4. /\ copy' \in Seq(NType) /\ Len(copy') = m + 1 /\ copy'[m + 1] = w
          /\ \A k \in 1 .. m : copy'[k] = N[k]
      BY <1>1, <2>3, AppendProperties
    <2>5. icy' \in IType /\ icy'.netin = m + 1
      <3>1. m + 1 \in 0 .. MaxCopies
        BY <1>1, <2>0
      <3> QED BY <2>2, <3>1 DEF IType
    <2>6. ChainTyped'
      <3>1. Len(copy') <= MaxCopies
        BY <1>1, <2>0, <2>4
      <3>2. gap' \in BOOLEAN
        BY <2>2
      <3> QED BY <1>1, <2>4, <2>5, <3>1, <3>2 DEF ChainTyped
    <2>7. CopiesOK'
      <3>1. ASSUME NEW k \in 1 .. m + 1
            PROVE  CopyOK(copy'[k]) /\ (m + 1 = k <=> Linkable(copy'[k]))
        <4>1. CASE k = m + 1
          BY <2>3, <2>4, <4>1
        <4>2. CASE k # m + 1
          <5>1. k \in 1 .. m
            BY <4>2
          <5> QED BY <1>0, <2>4, <4>2, <5>1
        <4> QED BY <4>1, <4>2
      <3>2. Held(copy'[icy'.netin]) = <<>>
        BY <2>3, <2>4, <2>5
      <3> QED BY <2>4, <2>5, <3>1, <3>2 DEF CopiesOK
    <2>8. PartsOK'
      <3>1. CASE how = "orphan"
        BY <2>2, <3>1 DEF PartsOK
      <3>2. CASE how = "starts"
        <4>1. gap' = gap
          BY <1>1, <2>2, <3>2
        <4>3. icy'.netin # 0
          BY <2>5
        <4>2. Parts => Parts'
          <5>1. w.begin = Len(stream)
            BY <1>0, <2>3, <3>2
          <5> QED BY <2>3, <5>1, AppendedParts
        <4> QED BY <4>1, <4>2, <4>3 DEF PartsOK
      <3> QED BY <1>3, <3>1, <3>2
    <2> QED BY <2>6, <2>7, <2>8
  <1> QED BY <1>2, <1>3 DEF Creating

(* A copy's step changes neither what it holds nor where it begins. *)
LEMMA SteppedCopy ==
  ASSUME ChainTyped, CopiesOK, PartsOK, NEW k \in 1 .. Len(copy), NEW W \in NType,
         copy' = [copy EXCEPT ![k] = W], W.begin = copy[k].begin, Held(W) = Held(copy[k]), CopyOK(W),
         icy' = icy \/ (icy.netin = k /\ icy' = [icy EXCEPT !.netin = 0] /\ gap'),
         icy'.netin = k <=> Linkable(W), UNCHANGED <<c, h, trk, got, stream>>,
         gap' \in BOOLEAN, gap => gap'
  PROVE  ChainTyped' /\ CopiesOK' /\ PartsOK' /\ icy'.data = icy.data /\ icy'.seen = icy.seen
  <1>1. PICK m \in Nat : m = Len(copy)
    BY Domains
  <1>2. /\ copy' \in Seq(NType) /\ Len(copy') = m
        /\ \A j \in 1 .. m : copy'[j] = IF j = k THEN W ELSE copy[j]
    <2>1. copy \in Seq(NType) /\ k \in 1 .. Len(copy)
      BY DEF ChainTyped
    <2> QED BY <1>1, <2>1, ExceptSeq
  <1>3. Alike(copy')
    BY <1>1, <1>2 DEF Alike
  <1>4. /\ icy' \in IType /\ icy'.netin \in {0, icy.netin} /\ (icy'.netin # icy.netin => icy.netin = k /\ gap')
        /\ icy'.data = icy.data /\ icy'.seen = icy.seen
    BY Assumed DEF ChainTyped, IType
  <1>5. ChainTyped'
    BY <1>1, <1>2, <1>4 DEF ChainTyped
  <1>6. ASSUME NEW j \in 1 .. m PROVE CopyOK(copy'[j]) /\ (icy'.netin = j <=> Linkable(copy'[j]))
    <2>1. CASE j = k
      BY <1>2, <2>1
    <2>2. CASE j # k
      <3>1. copy'[j] = copy[j] /\ CopyOK(copy[j]) /\ (icy.netin = j <=> Linkable(copy[j]))
        BY <1>1, <1>2, <2>2 DEF CopiesOK
      <3>2. icy'.netin = j <=> icy.netin = j
        BY <1>4, <2>2
      <3> QED BY <3>1, <3>2
    <2> QED BY <2>1, <2>2
  <1>7. icy'.netin # 0 => Held(copy'[icy'.netin]) = Held(copy[icy.netin]) /\ icy'.netin = icy.netin
    BY <1>1, <1>2, <1>3, <1>4 DEF CopiesOK, Alike
  <1>8. CopiesOK'
    BY <1>1, <1>2, <1>4, <1>6, <1>7 DEF CopiesOK
  <1>9. PartsOK'
    <2>1. ASSUME ~gap' PROVE icy' = icy /\ ~gap
      BY <1>4, <2>1
    <2>2. ASSUME Parts PROVE Parts'
      BY <1>3, <2>2, SameParts
    <2>3. copy = <<>> => copy' = <<>>
      BY <1>1, <1>2, EmptySeq
    <2> QED BY <2>1, <2>2, <2>3 DEF PartsOK
  <1> QED BY <1>4, <1>5, <1>8, <1>9

(* netin_process() *)
LEMMA RunCopies ==
  ASSUME ChainTyped, CopiesOK, PartsOK, NEW k \in DOMAIN copy, CopyRuns(k)
  PROVE  ChainTyped' /\ CopiesOK' /\ PartsOK' /\ icy'.data = icy.data /\ icy'.seen = icy.seen
  <1> DEFINE n == copy[k]
             W == IF n.st = "new" THEN Asked(n) ELSE Gives(n)
  <1>1. k \in 1 .. Len(copy) /\ n \in NType
    BY Domains
  <1>2. CopyOK(n) /\ (icy.netin = k <=> Linkable(n))
    BY <1>1 DEF CopiesOK
  <1>3. /\ n.st \in {"new", "wait"} /\ copy' = [copy EXCEPT ![k] = W]
        /\ UNCHANGED <<clientVars, trk, icy, got, stream, gap>>
    BY DEF CopyRuns
  <1> HIDE DEF n
  <1>4. n.d[1 - n.idx] = <<>> /\ n.piece = <<>>
    BY <1>2, <1>3 DEF CopyOK
  <1>5. /\ W \in NType /\ Held(W) = Held(n) /\ W.d[1 - W.idx] = <<>> /\ (W.st = "out" => W.from = 1 - W.idx)
        /\ W.fin = n.fin /\ W.c = n.c /\ W.begin = n.begin
        /\ \/ W.st = "wait" /\ W.piece = <<>>
           \/ W.st = (IF n.fin THEN "last" ELSE "out")
    BY <1>1, <1>4, AfterAsked, AfterGives
  <1> HIDE DEF W
  <1>6. CopyOK(W) /\ (Linkable(W) <=> Linkable(n))
    BY <1>2, <1>3, <1>5 DEF CopyOK, Linkable
  <1>7. W.begin = copy[k].begin /\ Held(W) = Held(copy[k])
    BY <1>5 DEF n
  <1>8. gap' \in BOOLEAN /\ (gap => gap') /\ UNCHANGED <<c, h, trk, got, stream>> /\ icy' = icy
    BY <1>3 DEF ChainTyped, clientVars
  <1>9. icy'.netin = k <=> Linkable(W)
    BY <1>2, <1>6, <1>8
  <1> QED BY <1>1, <1>3, <1>5, <1>6, <1>7, <1>8, <1>9, SteppedCopy

(* The copy's chain goes on, or has written the last of it: then the filter icy has
   told it so, and has let it go. *)
LEMMA WriteCopies ==
  ASSUME ChainTyped, CopiesOK, PartsOK, NEW k \in DOMAIN copy, CopyWrites(k)
  PROVE  ChainTyped' /\ CopiesOK' /\ PartsOK' /\ icy'.data = icy.data /\ icy'.seen = icy.seen
  <1> DEFINE o == copy[k]
             n == [o EXCEPT !.file = @ \o o.piece, !.piece = <<>>]
             D == [n EXCEPT !.st = "done"]
             W == IF n.st = "out" THEN Asked(n) ELSE D
  <1>1. k \in 1 .. Len(copy) /\ o \in NType
    BY Domains
  <1>2. CopyOK(o) /\ (icy.netin = k <=> Linkable(o))
    BY <1>1 DEF CopiesOK
  <1>3. /\ o.st \in {"out", "last"} /\ copy' = [copy EXCEPT ![k] = W]
        /\ UNCHANGED <<clientVars, trk, got, stream, gap>>
        /\ icy' = IF o.st = "out" THEN icy ELSE Unlinked(k)
    BY DEF CopyWrites
  <1>4. o = copy[k]
    OBVIOUS
  <1> HIDE DEF o
  <1>5. /\ n \in NType /\ Held(n) = Held(o) /\ n.d = o.d /\ n.idx = o.idx /\ n.piece = <<>>
        /\ n.st = o.st /\ n.fin = o.fin /\ n.c = o.c /\ n.begin = o.begin
    BY <1>1, AfterWriting
  <1> HIDE DEF n
  <1>6. n.d[1 - n.idx] = <<>>
    BY <1>2, <1>5 DEF CopyOK
  <1>7. /\ W \in NType /\ Held(W) = Held(n) /\ W.begin = n.begin
        /\ CopyOK(W) /\ (Linkable(W) <=> Linkable(o)) /\ icy' = icy
    <2>1. CASE o.st = "out"
      <3>1. W = Asked(n)
        BY <1>5, <2>1
      <3>2. /\ W \in NType /\ Held(W) = Held(n) /\ W.d[1 - W.idx] = <<>> /\ (W.st = "out" => W.from = 1 - W.idx)
            /\ W.fin = n.fin /\ W.c = n.c /\ W.begin = n.begin
            /\ \/ W.st = "wait" /\ W.piece = <<>>
               \/ W.st = (IF n.fin THEN "last" ELSE "out")
        BY <1>5, <1>6, <3>1, AfterAsked
      <3> HIDE DEF W
      <3>3. CopyOK(W) /\ (Linkable(W) <=> Linkable(o))
        BY <1>2, <1>5, <2>1, <3>2 DEF CopyOK, Linkable
      <3> QED BY <1>3, <2>1, <3>2, <3>3
    <2>2. CASE o.st = "last"
      <3>1. W = D
        BY <1>5, <2>2
      <3>2. /\ D \in NType /\ D.d = n.d /\ D.idx = n.idx /\ D.file = n.file /\ D.piece = n.piece
            /\ D.fin = n.fin /\ D.c = n.c /\ D.begin = n.begin /\ D.st = "done"
        BY <1>5 DEF NType
      <3> HIDE DEF D, W
      <3>3. Held(D) = Held(n)
        BY <3>2 DEF Held
      <3>4. ~Linkable(D) /\ ~Linkable(o) /\ ~o.c
        BY <1>2, <2>2, <3>2 DEF Linkable, CopyOK
      <3>5. CopyOK(D)
        BY <1>2, <1>5, <3>2, <3>3 DEF CopyOK
      <3>6. icy' = icy
        BY <1>3, <1>4, <2>2, <3>4 DEF Unlinked
      <3> QED BY <3>1, <3>2, <3>3, <3>4, <3>5, <3>6
    <2> QED BY <1>3, <2>1, <2>2
  <1> HIDE DEF W
  <1>8. W.begin = copy[k].begin /\ Held(W) = Held(copy[k])
    BY <1>4, <1>5, <1>7
  <1>9. gap' \in BOOLEAN /\ (gap => gap') /\ UNCHANGED <<c, h, trk, got, stream>>
    BY <1>3 DEF ChainTyped, clientVars
  <1>10. icy'.netin = k <=> Linkable(W)
    BY <1>2, <1>7
  <1> QED BY <1>1, <1>3, <1>7, <1>8, <1>9, <1>10, SteppedCopy

(* netin_close() of a copy that fails. *)
LEMMA FailCopies ==
  ASSUME ChainTyped, CopiesOK, PartsOK, NEW k \in DOMAIN copy, CopyFails(k)
  PROVE  ChainTyped' /\ CopiesOK' /\ PartsOK' /\ icy'.data = icy.data /\ icy'.seen = icy.seen
  <1> DEFINE o == copy[k]
             D == [o EXCEPT !.st = "failed"]
  <1>1. k \in 1 .. Len(copy) /\ o \in NType /\ k # 0
    BY Domains
  <1>2. CopyOK(o) /\ (icy.netin = k <=> Linkable(o))
    BY <1>1 DEF CopiesOK
  <1>3. /\ copy' = [copy EXCEPT ![k] = D] /\ icy' = Unlinked(k) /\ gap'
        /\ UNCHANGED <<c, h, trk, got, stream>>
    BY <1>1, Domains DEF CopyFails, clientVars, NType
  <1>4. gap' = TRUE
    BY DEF CopyFails
  <1>5. icy' = icy \/ (icy.netin = k /\ icy' = [icy EXCEPT !.netin = 0] /\ gap')
    BY <1>3 DEF Unlinked
  <1>6. icy'.netin # k
    BY <1>1, <1>2, <1>3 DEF Unlinked, Linkable, ChainTyped, IType
  <1>7. o = copy[k]
    OBVIOUS
  <1> HIDE DEF o
  <1>8. /\ D \in NType /\ D.d = o.d /\ D.idx = o.idx /\ D.file = o.file /\ D.piece = o.piece
        /\ D.fin = o.fin /\ D.c = o.c /\ D.begin = o.begin /\ D.st = "failed"
    BY <1>1 DEF NType
  <1> HIDE DEF D
  <1>9. Held(D) = Held(o)
    BY <1>8 DEF Held
  <1>10. CopyOK(D) /\ ~Linkable(D)
    BY <1>2, <1>8, <1>9 DEF CopyOK, Linkable
  <1>11. D.begin = copy[k].begin /\ Held(D) = Held(copy[k])
    BY <1>7, <1>8, <1>9
  <1>12. gap' \in BOOLEAN /\ (icy'.netin = k <=> Linkable(D))
    BY <1>4, <1>6, <1>10
  <1> QED BY <1>1, <1>3, <1>4, <1>5, <1>8, <1>10, <1>11, <1>12, SteppedCopy

(* The filter icy's steps. *)
LEMMA ResetCopies ==
  ASSUME Streamed, ChainTyped, CopiesOK, PartsOK, IcyReset
  PROVE  ChainTyped' /\ CopiesOK' /\ PartsOK'
  <1> DEFINE I == [icy EXCEPT !.seen = 0]
  <1>1. /\ trk.at = "icy" /\ trk' = trk /\ stream' = stream /\ c' = c
        /\ \/ icy.netin = 0 /\ \E how \in Creating : Creates(I, copy, how)
           \/ icy.netin # 0 /\ icy' = I /\ UNCHANGED <<copy, gap>>
    BY DEF IcyReset
  <1>2. got' \in Data
    BY IcyBody
  <1>3. /\ I \in IType /\ I.seen = 0 /\ I.netin = icy.netin
    BY Assumed DEF ChainTyped, IType
  <1> HIDE DEF I
  <1>4. CASE icy.netin = 0
    <2>1. \A k \in 1 .. Len(copy) : CopyOK(copy[k]) /\ ~Linkable(copy[k])
      <3>1. \A k \in 1 .. Len(copy) : k # 0
        BY Domains
      <3> QED BY <1>4, <3>1 DEF CopiesOK
    <2>2. Alike(copy)
      BY DEF Alike, ChainTyped
    <2> QED BY <1>1, <1>2, <1>3, <1>4, <2>1, <2>2, CreatedCopies
  <1>5. CASE icy.netin # 0
    <2>1. icy' = I /\ UNCHANGED <<copy, gap>>
      BY <1>1, <1>5
    <2>2. ChainTyped'
      BY <1>1, <1>2, <1>3, <2>1 DEF ChainTyped
    <2>3. icy.netin \in 1 .. Len(copy)
      <3>1. Len(copy) \in Nat /\ icy.netin = Len(copy)
        BY <1>5, Domains DEF CopiesOK
      <3> QED BY <1>5, <3>1
    <2> DEFINE H == Held(copy[icy.netin])
    <2>4. H # <<>> => 0 < H[Len(H)]
      <3>1. H \in Data
        BY <2>3, Domains, HeldIs
      <3> HIDE DEF H
      <3>2. HAVE H # <<>>
      <3>3. Len(H) \in 1 .. Len(H)
        BY <3>1, <3>2, LenProperties, EmptySeq DEF Data
      <3>4. H[Len(H)] \in 1 .. Units
        BY <3>1, <3>3, ElementOfSeq DEF Data
      <3> QED BY <3>4, Assumed
    <2>5. CopiesOK'
      BY <1>3, <2>1, <2>4 DEF CopiesOK
    <2>6. Parts => Parts'
      BY <1>1, <2>1 DEF Parts, Begin
    <2>7. PartsOK'
      BY <1>3, <1>5, <2>1, <2>6 DEF PartsOK
    <2> QED BY <2>2, <2>5, <2>7
  <1> QED BY <1>4, <1>5

LEMMA TitleCopies ==
  ASSUME Streamed, ChainTyped, CopiesOK, PartsOK, IcyTitle
  PROVE  ChainTyped' /\ CopiesOK' /\ PartsOK'
  <1> DEFINE k == Head(icy.data) - 1
             I == [icy EXCEPT !.seen = k]
  <1>1. /\ AtIcy /\ icy.data # <<>> /\ stream' = stream /\ c' = c /\ h' = h /\ trk' = trk
        /\ \E how \in Creating : Creates(I, CopyEnded, how)
    BY DEF IcyTitle, TitleDue, clientVars
  <1>2. got' \in Data
    BY IcyBody
  <1>3. k \in 0 .. Units
    <2>1. Head(icy.data) \in 1 .. Units
      BY <1>1, HeadTailProperties DEF Streamed, IType, Data
    <2> QED BY <2>1, Assumed
  <1> HIDE DEF k
  <1>4. I \in IType
    BY <1>3 DEF IType, Streamed
  <1> HIDE DEF I
  <1> QED BY <1>1, <1>2, <1>4, EndedAlike, CreatedCopies

(* One title's data, and more of it. *)
LEMMA JoinedTitle ==
  ASSUME NEW s \in Data, NEW t \in Data, OneTitle(s), Len(t) > 0,
         \A i \in 1 .. Len(t) - 1 : t[i] \notin TitleAfter,
         s # <<>> /\ s[Len(s)] \in TitleAfter => t[1] # s[Len(s)] + 1
  PROVE  OneTitle(s \o t)
  <1> DEFINE n == Len(s)
             m == Len(t)
             u == s \o t
  <1>1. n \in Nat /\ m \in Nat \ {0} /\ Len(u) = n + m
        /\ \A i \in 1 .. n + m : u[i] = IF i <= n THEN s[i] ELSE t[i - n]
    BY ConcatProperties, LenProperties DEF Data
  <1>2. s = <<>> => n = 0
    OBVIOUS
  <1>3. n # 0 /\ s[n] \in TitleAfter => t[1] # s[n] + 1
    BY <1>2
  <1>4. /\ \A i \in 1 .. n - 1 : s[i] \in TitleAfter => s[i + 1] # s[i] + 1
        /\ \A i \in 1 .. m - 1 : t[i] \notin TitleAfter
    BY DEF OneTitle
  <1> HIDE DEF u, n, m
  <1>5. ASSUME NEW i \in 1 .. n + m - 1, u[i] \in TitleAfter PROVE u[i + 1] # u[i] + 1
    <2>1. i \in 1 .. n + m /\ i + 1 \in 1 .. n + m
      BY <1>1
    <2>2. CASE i < n
      <3>1. u[i] = s[i] /\ u[i + 1] = s[i + 1] /\ i \in 1 .. n - 1
        BY <1>1, <2>1, <2>2
      <3> QED BY <1>4, <1>5, <3>1
    <2>3. CASE i = n
      <3>1. u[i] = s[n] /\ u[i + 1] = t[1] /\ n # 0
        BY <1>1, <2>1, <2>3
      <3> QED BY <1>3, <1>5, <3>1
    <2>4. CASE i > n
      <3>1. u[i] = t[i - n] /\ i - n \in 1 .. m - 1
        BY <1>1, <2>1, <2>4
      <3> QED BY <1>4, <1>5, <3>1
    <2> QED BY <1>1, <2>2, <2>3, <2>4
  <1> QED BY <1>1, <1>5 DEF OneTitle, u

LEMMA DataCopies ==
  ASSUME Streamed, ChainTyped, CopiesOK, PartsOK, IcyData
  PROVE  ChainTyped' /\ CopiesOK' /\ PartsOK'
  <1>1. /\ AtIcy /\ icy.data # <<>> /\ ~TitleDue /\ c' = c /\ h' = h /\ gap' = gap
        /\ copy' = IF icy.netin = 0 THEN copy ELSE [copy EXCEPT ![icy.netin] = Written(@, Part)]
        /\ stream' = IF gap THEN <<>> ELSE stream \o Part
        /\ trk' = [trk EXCEPT !.at = "out"]
    BY DEF IcyData, PartEnd, Part, clientVars
  <1>2. /\ Part \in Data /\ Len(Part) \in Nat \ {0} /\ Counts(Part, Len(got))
        /\ Part[1] = Head(icy.data) /\ Head(icy.data) = Len(got) + 1 /\ Len(got) \in Nat
        /\ \A i \in 1 .. Len(Part) - 1 : Part[i] \notin TitleAfter
    BY <1>1, PartIs, Lengths
  <1>3. icy'.data \in Data /\ got' \in Data
    BY IcyBody
  <1>4. icy' \in IType /\ icy'.netin = icy.netin /\ icy'.seen = icy.seen
    <2>1. PICK d : icy' = [icy EXCEPT !.data = d]
      BY DEF IcyData
    <2> QED BY <1>3, <2>1 DEF ChainTyped, IType
  <1>5. stream' \in Data /\ gap' \in BOOLEAN
    <2>1. stream \o Part \in Data /\ <<>> \in Data
      BY <1>2, ConcatProperties, EmptySeq DEF ChainTyped, Data
    <2> QED BY <1>1, <2>1 DEF ChainTyped
  <1>6. icy.netin = 0 => gap
    <2>1. SUFFICES ASSUME icy.netin = 0, ~gap PROVE FALSE
      OBVIOUS
    <2>2. trk.at = "icy" /\ ~h.reset
      BY <1>1 DEF AtIcy
    <2>3. c.st \in InBody
      BY <2>2 DEF Streamed, Control, TurnOK
    <2> QED BY <2>1, <2>2, <2>3 DEF PartsOK
  <1>7. CASE icy.netin = 0
    <2>1. copy' = copy /\ gap'
      BY <1>1, <1>6, <1>7
    <2>2. ChainTyped'
      BY <1>3, <1>4, <1>5, <2>1 DEF ChainTyped
    <2>3. CopiesOK'
      BY <1>4, <1>7, <2>1 DEF CopiesOK
    <2> QED BY <2>1, <2>2, <2>3 DEF PartsOK
  <1>8. CASE icy.netin # 0
    <2>1. PICK m \in Nat : m = Len(copy) /\ m = icy.netin /\ m \in 1 .. m
      <3>1. Len(copy) \in Nat /\ icy.netin = Len(copy)
        BY <1>8, Domains DEF CopiesOK
      <3> QED BY <1>8, <3>1
    <2> DEFINE n == copy[m]
               W == Written(n, Part)
    <2>2. n \in NType /\ CopyOK(n)
      BY <2>1, Domains DEF CopiesOK
    <2>3. copy' = [copy EXCEPT ![m] = W]
      BY <1>1, <1>8, <2>1
    <2>4. n = copy[m]
      OBVIOUS
    <2> HIDE DEF n
    <2>5. /\ W \in NType /\ Held(W) = Held(n) \o Part /\ W.d[1 - W.idx] = <<>> /\ W.idx = n.idx
          /\ W.st = n.st /\ W.fin = n.fin /\ W.c = n.c /\ W.begin = n.begin /\ W.piece = n.piece
          /\ W.from = n.from
      BY <1>2, <2>2, AfterWritten
    <2> HIDE DEF W
    <2> DEFINE H == Held(n)
    <2>6. H \in Data /\ OneTitle(H) /\ (H # <<>> => icy.seen < H[Len(H)])
      <3>1. H \in Data
        BY <2>2, HeldIs
      <3>2. H # <<>> => icy.seen < H[Len(H)]
        BY <1>8, <2>1, <2>4 DEF CopiesOK
      <3>3. OneTitle(H)
        BY <2>2 DEF CopyOK
      <3> QED BY <3>1, <3>2, <3>3
    <2>7. Held(W) = H \o Part
      BY <2>5
    <2> HIDE DEF H
    <2>8. H # <<>> /\ H[Len(H)] \in TitleAfter => Part[1] # H[Len(H)] + 1
      <3>1. SUFFICES ASSUME H # <<>>, H[Len(H)] \in TitleAfter, Part[1] = H[Len(H)] + 1 PROVE FALSE
        OBVIOUS
      <3> DEFINE l == H[Len(H)]
      <3>2. l \in Nat /\ l \in TitleAfter /\ icy.seen < l /\ Head(icy.data) = l + 1
        <4>1. l \in TitleAfter /\ icy.seen < l
          BY <2>6, <3>1
        <4>2. Head(icy.data) = l + 1
          BY <1>2, <3>1
        <4> HIDE DEF l
        <4>3. l \in Nat
          BY <4>1, Assumed
        <4> QED BY <4>1, <4>2, <4>3
      <3>3. l = icy.seen
        <4>1. Head(icy.data) - 1 = l
          BY <3>2
        <4> HIDE DEF l
        <4> QED BY <1>1, <3>2, <4>1 DEF TitleDue
      <3> HIDE DEF l
      <3> QED BY <3>2, <3>3
    <2>9. OneTitle(H \o Part)
      BY <1>2, <2>6, <2>8, JoinedTitle
    <2>10. CopyOK(W) /\ (Linkable(W) <=> Linkable(n))
      BY <2>2, <2>5, <2>7, <2>9 DEF CopyOK, Linkable
    <2>11. /\ copy' \in Seq(NType) /\ Len(copy') = m
           /\ \A k \in 1 .. m : copy'[k] = IF k = m THEN W ELSE copy[k]
      <3>1. copy \in Seq(NType) /\ m \in 1 .. Len(copy) /\ W \in NType
        BY <2>1, <2>5 DEF ChainTyped
      <3>2. /\ [copy EXCEPT ![m] = W] \in Seq(NType) /\ Len([copy EXCEPT ![m] = W]) = Len(copy)
            /\ \A k \in 1 .. Len(copy) : [copy EXCEPT ![m] = W][k] = IF k = m THEN W ELSE copy[k]
        BY <3>1, ExceptSeq
      <3> QED BY <2>1, <2>3, <3>2
    <2>12. ChainTyped'
      BY <1>3, <1>4, <1>5, <2>1, <2>11 DEF ChainTyped
    <2>13. ASSUME NEW k \in 1 .. m PROVE CopyOK(copy'[k]) /\ (icy'.netin = k <=> Linkable(copy'[k]))
      <3>1. CopyOK(copy[k]) /\ (m = k <=> Linkable(copy[k]))
        BY <2>1 DEF CopiesOK
      <3> QED BY <1>4, <2>1, <2>4, <2>10, <2>11, <3>1
    <2>14. icy'.seen < (H \o Part)[Len(H \o Part)]
      <3> DEFINE a == Len(H)
                 b == Len(Part)
                 u == H \o Part
      <3>1. a \in Nat /\ b \in Nat \ {0} /\ Len(u) = a + b
            /\ \A i \in 1 .. a + b : u[i] = IF i <= a THEN H[i] ELSE Part[i - a]
        BY <1>2, <2>6, ConcatProperties, LenProperties DEF Data
      <3>2. Part[b] = Len(got) + b
        BY <1>2 DEF Counts
      <3> HIDE DEF a, b, u
      <3>3. a + b \in 1 .. a + b /\ ~(a + b <= a) /\ (a + b) - a = b
        BY <3>1
      <3>4. u[a + b] = Len(got) + b
        BY <3>1, <3>2, <3>3
      <3>5. icy.seen <= Len(got) /\ icy.seen \in Nat
        BY Assumed DEF Streamed, BodyOK, IType
      <3>6. icy.seen < u[Len(u)]
        BY <1>2, <3>1, <3>4, <3>5
      <3> QED BY <1>4, <3>6 DEF u
    <2>15. CopiesOK'
      <3>1. Held(copy'[icy'.netin]) = H \o Part
        BY <1>4, <2>1, <2>7, <2>11
      <3> QED BY <1>4, <2>1, <2>11, <2>13, <2>14, <3>1 DEF CopiesOK
    <2>16. ASSUME ~gap PROVE Parts'
      <3>1. Parts /\ stream' = stream \o Part
        BY <1>1, <2>16 DEF PartsOK
      <3>2. copy # <<>>
        <4>1. copy \in Seq(NType) /\ Len(copy) # 0
          BY <2>1 DEF ChainTyped
        <4> QED BY <4>1, EmptySeq
      <3>3. copy' = [copy EXCEPT ![Len(copy)] = W] /\ W.begin = copy[Len(copy)].begin
            /\ Held(W) = Held(copy[Len(copy)]) \o Part
        BY <2>1, <2>3, <2>4, <2>5
      <3> QED BY <1>2, <2>5, <3>1, <3>2, <3>3, WrittenParts
    <2> QED BY <1>1, <1>4, <1>8, <2>12, <2>15, <2>16 DEF PartsOK
  <1> QED BY <1>7, <1>8

(* A step that leaves the copies alone. *)
LEMMA QuietCopies ==
  ASSUME ChainTyped, CopiesOK, PartsOK, UNCHANGED <<copy, stream, gap>>, icy' \in IType, got' \in Data,
         icy'.netin = icy.netin, icy'.seen = icy.seen, trk.at # "closed",
         c'.st \in InBody => h'.reset \/ (c.st \in InBody /\ h'.reset = h.reset)
  PROVE  ChainTyped' /\ CopiesOK' /\ PartsOK'
  <1>1. ChainTyped' /\ CopiesOK'
    BY DEF ChainTyped, CopiesOK
  <1>2. Parts => Parts'
    BY DEF Parts, Begin
  <1>3. PartsOK'
    BY <1>2 DEF PartsOK
  <1> QED BY <1>1, <1>3

LEMMA ClientCopies ==
  ASSUME Streamed, ChainTyped, CopiesOK, PartsOK, ClientRuns \/ Event \/ Timeout, Still
  PROVE  ChainTyped' /\ CopiesOK' /\ PartsOK'
  <1>1. UNCHANGED <<trk, icy, copy, got, stream, gap>>
    BY DEF Still, chainVars
  <1>2. icy' \in IType /\ got' \in Data
    BY <1>1 DEF Streamed
  <1>3. trk.at # "closed"
    <2>1. c.run \/ c.op # "none" \/ c.tmr
      BY ClientDoes DEF Event, Timeout, Streamed, Control
    <2> QED BY <2>1, ClientsTurn DEF Streamed
  <1>4. c'.st \in InBody => h'.reset \/ (c.st \in InBody /\ h'.reset = h.reset)
    <2>1. CASE ClientRuns
      <3>1. DoesEarly \/ Response \/ DoesWait \/ DoesReceive \/ DoesEnd \/ DoesGive \/ DoesFinish \/ DoesRest
        BY <2>1, ClientDoes DEF Streamed, Control
      <3>2. CASE Response
        BY <3>2, AfterResponse DEF Streamed, Control
      <3>3. CASE DoesEarly \/ DoesFinish \/ DoesRest \/ DoesEnd
        BY <3>3, StatesAre DEF DoesEarly, DoesFinish, DoesRest, DoesEnd
      <3>4. CASE DoesWait \/ DoesReceive \/ DoesGive
        BY <3>4, StatesAre DEF DoesWait, DoesReceive, DoesGive, SameUser
      <3> QED BY <3>1, <3>2, <3>3, <3>4
    <2>2. CASE Event
      BY <2>2, EventOK DEF Streamed, Control
    <2>3. CASE Timeout
      BY <2>3, TimeoutOK, StatesAre DEF Streamed, Control
    <2> QED BY <2>1, <2>2, <2>3
  <1> QED BY <1>1, <1>2, <1>3, <1>4, QuietCopies

LEMMA TrackCopies ==
  ASSUME Streamed, ChainTyped, CopiesOK, PartsOK, TrackSteps \/ StopTrack
  PROVE  ChainTyped' /\ CopiesOK' /\ PartsOK'
  <1>1. CASE TaskRuns \/ IcyMore \/ OutAsks \/ StopTrack
    <2>1. UNCHANGED <<c, h, icy, copy, got, stream, gap>> /\ trk.at # "closed"
      BY <1>1 DEF TaskRuns, IcyMore, OutAsks, StopTrack, AtIcy, clientVars
    <2> QED BY <2>1, QuietCopies DEF Streamed
  <1>2. CASE HttpOpen
    <2>1. CASE Closed(FALSE)
      BY <2>1, ClosedCopies
    <2>2. CASE Sent([NoClient EXCEPT !.st = "START", !.run = TRUE], 1)
      <3>1. /\ UNCHANGED <<icy, copy, got, stream, gap>> /\ trk.at # "closed" /\ c'.st = "START"
        BY <1>2, <2>2 DEF Sent, HttpOpen, AtHttp, NoClient
      <3> QED BY <3>1, StatesAre, QuietCopies DEF Streamed
    <2> QED BY <1>2, <2>1, <2>2 DEF HttpOpen
  <1>3. CASE HttpNext
    <2>1. /\ UNCHANGED <<icy, copy, got, stream, gap>> /\ h'.reset = h.reset /\ c'.st = c.st
      BY <1>3, HttpNextControl DEF Streamed
    <2>2. trk.at # "closed"
      BY <1>3 DEF HttpNext, AtHttp
    <2> QED BY <2>1, <2>2, QuietCopies DEF Streamed
  <1>4. CASE HttpData
    <2>1. /\ UNCHANGED <<c, copy, got, stream, gap>> /\ h'.reset = h.reset /\ trk.at # "closed"
          /\ icy' = [icy EXCEPT !.data = h.data, !.open = TRUE]
      BY <1>4, HttpDataControl DEF Streamed
    <2>2. icy' \in IType /\ got' \in Data
      BY <1>4, HttpBody
    <2>3. icy'.netin = icy.netin /\ icy'.seen = icy.seen
      BY <2>1 DEF ChainTyped, IType
    <2> QED BY <2>1, <2>2, <2>3, QuietCopies
  <1>5. CASE HttpEnds \/ OutEnds
    BY <1>5, HttpEndsControl, ClosedCopies DEF OutEnds, Streamed
  <1>6. CASE IcyReset
    BY <1>6, ResetCopies
  <1>7. CASE IcyTitle
    BY <1>7, TitleCopies
  <1>8. CASE IcyData
    BY <1>8, DataCopies
  <1> QED BY <1>1, <1>2, <1>3, <1>4, <1>5, <1>6, <1>7, <1>8 DEF TrackSteps

LEMMA CopiesRun ==
  ASSUME Streamed, ChainTyped, CopiesOK, PartsOK, CopySteps
  PROVE  /\ ChainTyped' /\ CopiesOK' /\ PartsOK' /\ icy'.data = icy.data /\ icy'.seen = icy.seen
         /\ UNCHANGED <<c, srv, h, go, trk, got>>
  <1>1. PICK k \in DOMAIN copy : CopyRuns(k) \/ CopyWrites(k) \/ CopyFails(k)
    BY DEF CopySteps
  <1>2. UNCHANGED <<c, srv, h, go, trk, got>>
    BY <1>1 DEF CopyRuns, CopyWrites, CopyFails, clientVars
  <1> QED BY <1>1, <1>2, RunCopies, WriteCopies, FailCopies

-----------------------------------------------------------------------------
(* The inductive invariant. *)
Inv == Streamed /\ ChainTyped /\ CopiesOK /\ PartsOK

LEMMA InitInv == Init => Inv /\ EndOK
  <1> SUFFICES ASSUME Init PROVE Inv /\ EndOK
    OBVIOUS
  <1>1. /\ c = NoClient /\ srv = NoResponse /\ h = NoUser /\ go = TRUE
        /\ trk = [at |-> "wait", stop |-> FALSE, whole |-> FALSE]
        /\ icy = NoIcy /\ copy = <<>> /\ got = <<>> /\ stream = <<>> /\ gap = FALSE
    BY DEF Init, ClientInit
  <1>2. Typed
    <2>1. NoClient \in CType
      BY Assumed, StatesAre DEF NoClient, CType, Raw
    <2>2. NoUser \in HType /\ NoResponse \in SType
      BY Assumed, StatesAre DEF NoUser, HType, Raw, NoResponse, SType
    <2> QED BY <1>1, <2>1, <2>2 DEF Typed
  <1>3. ClientOK
    BY <1>1, Assumed, StatesAre DEF ClientOK, NoClient
  <1>4. trk \in TType /\ TurnOK /\ ~Told
    BY <1>1, StatesAre DEF TType, TurnOK, Told, NoUser, NoClient, NoIcy
  <1>5. Control
    BY <1>2, <1>3, <1>4 DEF Control, ClientInv, ToldOK
  <1>6. <<>> \in Data /\ Len(<<>>) = 0 /\ <<>> \in Seq(NType)
    BY EmptySeq DEF Data
  <1>7. ChainTyped
    <2>1. 0 \in 0 .. Units /\ 0 \in 0 .. MaxCopies /\ Len(copy) <= MaxCopies
      BY <1>1, <1>6, Assumed
    <2>2. icy \in IType
      BY <1>1, <1>6, <2>1 DEF IType, NoIcy
    <2> QED BY <1>1, <1>6, <2>1, <2>2 DEF ChainTyped
  <1>8. BodyOK
    <2>1. srv.next - 1 <= Len(Wire(srv.body)) /\ srv.next = 1
      BY <1>1, WireIs DEF NoResponse
    <2>2. Pending = <<>> /\ icy.data = <<>> /\ icy.seen = 0 /\ c.st \notin InBody
      BY <1>1, <1>4, StatesAre DEF Pending, NoIcy, NoClient
    <2> QED BY <1>1, <1>6, <2>1, <2>2, EmptyCounts DEF BodyOK
  <1>9. CopiesOK
    BY <1>1, <1>6 DEF CopiesOK, NoIcy
  <1>10. PartsOK
    <2>1. DOMAIN copy = {} /\ c.st \notin InBody
      BY <1>1, StatesAre DEF NoClient
    <2> QED BY <1>1, <1>6, <2>1 DEF PartsOK, Parts, Begin
  <1>11. EndOK
    BY <1>1 DEF EndOK, AtEnd, NoUser
  <1> QED BY <1>1, <1>5, <1>7, <1>8, <1>9, <1>10, <1>11 DEF Inv, Streamed, ChainTyped

LEMMA NextInv == Inv /\ [Next]_vars => Inv'
  <1> SUFFICES ASSUME Inv, [Next]_vars PROVE Inv'
    OBVIOUS
  <1>0. Streamed /\ ChainTyped /\ CopiesOK /\ PartsOK /\ Control
    BY DEF Inv, Streamed
  <1>1. CASE ClientRuns /\ Still
    <2>1. Control'
      BY <1>0, <1>1, ClientControl
    <2>2. BodyOK'
      BY <1>0, <1>1, ClientBody
    <2>3. ChainTyped' /\ CopiesOK' /\ PartsOK'
      BY <1>0, <1>1, ClientCopies
    <2> QED BY <2>1, <2>2, <2>3 DEF Inv, Streamed, ChainTyped
  <1>2. CASE (Event \/ Timeout) /\ Still
    <2>1. Control'
      <3>1. ClientInv' /\ TurnOK' /\ ToldOK'
        BY <1>0, <1>2, EventControl
      <3>2. trk' = trk
        BY <1>2 DEF Still, chainVars
      <3> QED BY <1>0, <3>1, <3>2 DEF Control
    <2>2. BodyOK'
      BY <1>0, <1>2, EventBody
    <2>3. ChainTyped' /\ CopiesOK' /\ PartsOK'
      BY <1>0, <1>2, ClientCopies
    <2> QED BY <2>1, <2>2, <2>3 DEF Inv, Streamed, ChainTyped
  <1>3. CASE TrackSteps \/ StopTrack
    <2>1. Control'
      BY <1>0, <1>3, TaskRunsControl, HttpOpenControl, HttpNextControl, HttpDataControl, HttpEndsControl,
         OutEndsControl, IcyControl, StopControl DEF TrackSteps
    <2>2. BodyOK'
      BY <1>0, <1>3, HttpBody, IcyBody DEF TrackSteps
    <2>3. ChainTyped' /\ CopiesOK' /\ PartsOK'
      BY <1>0, <1>3, TrackCopies
    <2> QED BY <2>1, <2>2, <2>3 DEF Inv, Streamed, ChainTyped
  <1>4. CASE CopySteps
    <2>1. /\ ChainTyped' /\ CopiesOK' /\ PartsOK' /\ icy'.data = icy.data /\ icy'.seen = icy.seen
          /\ UNCHANGED <<c, srv, h, go, trk, got>>
      BY <1>0, <1>4, CopiesRun
    <2>2. Control'
      BY <1>0, <2>1, CopyControl
    <2>3. BodyOK'
      BY <1>0, <2>1, CopyBody
    <2> QED BY <2>1, <2>2, <2>3 DEF Inv, Streamed, ChainTyped
  <1>5. CASE UNCHANGED vars
    <2>1. UNCHANGED <<c, srv, h, go, trk, icy, copy, got, stream, gap>>
      BY <1>5 DEF vars, clientVars
    <2>2. Control' /\ icy'.data = icy.data /\ icy'.seen = icy.seen
      BY <1>0, <2>1, CopyControl
    <2>3. BodyOK'
      BY <1>0, <2>1, <2>2, CopyBody
    <2>4. ChainTyped' /\ CopiesOK' /\ PartsOK'
      BY <1>0, <2>1 DEF ChainTyped, CopiesOK, PartsOK, Parts, Begin
    <2> QED BY <2>2, <2>3, <2>4 DEF Inv, Streamed, ChainTyped
  <1> QED BY <1>1, <1>2, <1>3, <1>4, <1>5 DEF Next, Steps, ClientSteps, Events, Still

LEMMA SpecInv == Spec => []Inv
  <1>1. Init => Inv
    BY InitInv
  <1>2. Inv /\ [Next]_vars => Inv'
    BY NextInv
  <1> QED BY <1>1, <1>2, PTL DEF Spec
-----------------------------------------------------------------------------
(* Every field of the client, of its user and of the track keeps its type, every
   buffer holds units of the response, and no more copies are made than there may
   be (struct http, struct httpclient, struct icy, struct netin). *)
THEOREM TypeCorrect == Spec => []StreamTypeOK
  <1>1. ASSUME Inv PROVE StreamTypeOK
    <2>1. TypeOK
      BY <1>1 DEF Inv, Streamed, Control, ClientInv, Typed, TypeOK, CType, SType, HType, States, Statuses, Raw
    <2>2. trk \in [at : {"wait", "http", "icy", "out", "closed"}, stop : BOOLEAN, whole : BOOLEAN]
      BY <1>1 DEF Inv, Streamed, Control, TType
    <2>3. ChainTyped
      BY <1>1 DEF Inv
    <2> QED BY <2>1, <2>2, <2>3 DEF StreamTypeOK, ChainTyped, IType, NType, Data
  <1> QED BY <1>1, SpecInv, PTL

(* A wait for the socket is always limited by a timer, until the timer has given up
   for good (ffhttp-client.c: tcp_aio(), tcp_ontmr()). *)
THEOREM TimerGuardsWaitHolds == Spec => []TimerGuardsWait
  <1>1. Inv => TimerGuardsWait
    BY DEF Inv, Streamed, Control, ClientInv, ClientOK, TimerGuardsWait, Gone
  <1> QED BY <1>1, SpecInv, PTL

(* However the network cuts it, and however it shows where it ends, the chain gets
   the body of each response without a gap or a repetition (tcp_recv(),
   http_recvbody(), httpcli_process(), icy_process()). *)
NothingLost == got = SubSeq(Wire(srv.body), 1, Len(got))

LEMMA InvNothingLost == Inv => NothingLost
  <1> SUFFICES ASSUME Inv PROVE NothingLost
    OBVIOUS
  <1> DEFINE w == Wire(srv.body)
             n == Len(got)
             s == SubSeq(w, 1, n)
  <1>1. got \in Data /\ Counts(got, 0) /\ n \in Nat
    BY Lengths DEF Inv, Streamed, BodyOK
  <1>2. Units \in Nat /\ Len(w) \in Nat /\ Len(w) >= Units
    BY Assumed, WireIs
  <1>3. n <= Units
    <2>1. CASE n = 0
      BY <1>2, <2>1
    <2>2. CASE n # 0
      <3>1. n \in 1 .. n
        BY <1>1, <2>2
      <3>2. got[n] = 0 + n
        BY <1>1, <3>1 DEF Counts
      <3>3. got[n] \in 1 .. Units
        BY <1>1, <3>1, ElementOfSeq DEF Data
      <3> QED BY <1>1, <1>2, <3>2, <3>3
    <2> QED BY <2>1, <2>2
  <1>4. s \in Raw /\ Len(s) = n /\ Counts(s, 0)
    <2>1. 1 \in Nat \ {0} /\ 1 <= n + 1 /\ n <= Len(w) /\ n - 1 + 1 = n /\ 1 - 1 = 0
      BY <1>1, <1>2, <1>3
    <2>2. s \in Raw /\ Len(s) = n - 1 + 1 /\ Counts(s, 1 - 1)
      BY <1>1, <2>1, WirePart
    <2> QED BY <2>1, <2>2
  <1>5. got \in Raw
    BY <1>1, Assumed, SeqMonotonic DEF Data, Raw
  <1> HIDE DEF s
  <1>6. \A i \in 1 .. Len(got) : got[i] = s[i]
    BY <1>1, <1>4 DEF Counts
  <1>7. got = s
    BY <1>4, <1>5, <1>6, SeqEqual DEF Raw
  <1> QED BY <1>7 DEF NothingLost, s

THEOREM NothingLostHolds == Spec => []NothingLost
  BY InvNothingLost, SpecInv, PTL

(* And when the track comes to the end by itself, it has had all there was to come:
   as long as the servers show the end of a body by a last chunk or by closing the
   connection.  For the others, it does not hold: http_recvbody() drops the last
   data of a response with a length. *)
THEOREM StreamIsWholeHolds ==
  ASSUME "length" \notin Bodies
  PROVE  Spec => []StreamIsWhole
  <1>1. Init => Inv /\ EndOK
    BY InitInv
  <1>2. (Inv /\ EndOK) /\ [Next]_vars => (Inv /\ EndOK)'
    <2> SUFFICES ASSUME Inv, EndOK, [Next]_vars PROVE Inv' /\ EndOK'
      OBVIOUS
    <2>1. Inv' /\ Streamed
      BY NextInv DEF Inv
    <2>2. CASE ClientRuns /\ Still
      BY <2>1, <2>2, ClientEnd
    <2>3. CASE (Event \/ Timeout) /\ Still
      BY <2>1, <2>3, EventEnd
    <2>4. CASE TrackSteps \/ StopTrack
      BY <2>1, <2>4, TrackEnd
    <2>5. CASE CopySteps
      BY <2>1, <2>5, CopiesRun, CopyEnd DEF Inv
    <2>6. CASE UNCHANGED vars
      <3>1. UNCHANGED <<c, srv, h, go, trk, got>> /\ icy'.data = icy.data
        BY <2>6 DEF vars, clientVars
      <3> QED BY <2>1, <3>1, CopyEnd
    <2> QED BY <2>1, <2>2, <2>3, <2>4, <2>5, <2>6 DEF Next, Steps, ClientSteps, Events, Still
  <1>3. Inv /\ EndOK => StreamIsWhole
    BY InvNothingLost DEF StreamIsWhole, NothingLost, EndOK, Final
  <1> QED BY <1>1, <1>2, <1>3, PTL DEF Spec

(* The files hold, one after the other, what the chain has been given, unless a copy
   could not be made or written; a file holds the data of one title; and the filter
   icy and its copy point to each other (netin_create(), netin_write(),
   netin_process(), icy_setmeta()). *)
THEOREM CopyIsWholeHolds == Spec => []CopyIsWhole
  <1>1. ASSUME Inv PROVE CopyIsWhole
    <2>0. ChainTyped /\ CopiesOK /\ PartsOK /\ DOMAIN copy = 1 .. Len(copy)
          /\ \A k \in 1 .. Len(copy) : copy[k] \in NType
      BY <1>1, Domains DEF Inv
    <2>1. ~gap => /\ Begin(1) = 0
                  /\ \A k \in DOMAIN copy : Held(copy[k]) = SubSeq(stream, Begin(k) + 1, Begin(k + 1))
      BY <2>0 DEF PartsOK, Parts
    <2>2. ASSUME NEW k \in DOMAIN copy, NEW i \in 1 .. Len(copy[k].file) - 1, copy[k].file[i] \in TitleAfter
          PROVE  copy[k].file[i + 1] # copy[k].file[i] + 1
      <3> DEFINE f == copy[k].file
                 p == copy[k].piece
                 q == copy[k].d[copy[k].idx]
                 u == f \o p
                 H == u \o q
      <3>1. f \in Data /\ p \in Data /\ q \in Data /\ H = Held(copy[k]) /\ OneTitle(Held(copy[k]))
        BY <2>0, HeldIs DEF Held, CopiesOK, CopyOK
      <3>2. i \in 1 .. Len(f) - 1 /\ f[i] \in TitleAfter
        BY <2>2
      <3> HIDE DEF f, p, q
      <3>3. /\ u \in Data /\ Len(u) = Len(f) + Len(p) /\ Len(f) \in Nat /\ Len(p) \in Nat /\ Len(q) \in Nat
            /\ \A j \in 1 .. Len(f) + Len(p) : u[j] = IF j <= Len(f) THEN f[j] ELSE p[j - Len(f)]
        BY <3>1, ConcatProperties, LenProperties DEF Data
      <3> HIDE DEF u
      <3>4. /\ Len(H) = Len(u) + Len(q)
            /\ \A j \in 1 .. Len(u) + Len(q) : H[j] = IF j <= Len(u) THEN u[j] ELSE q[j - Len(u)]
        <4>1. u \in Seq(1 .. Units) /\ q \in Seq(1 .. Units)
          BY <3>1, <3>3 DEF Data
        <4> QED BY <4>1, ConcatProperties
      <3> HIDE DEF H
      <3>5. i \in 1 .. Len(H) - 1 /\ H[i] = f[i] /\ H[i + 1] = f[i + 1]
        BY <3>2, <3>3, <3>4
      <3>6. OneTitle(H)
        BY <3>1
      <3>7. f[i + 1] # f[i] + 1
        BY <3>2, <3>5, <3>6 DEF OneTitle
      <3> QED BY <3>7 DEF f
    <2>3. \A k \in DOMAIN copy : icy.netin = k <=> copy[k].c /\ copy[k].st \notin {"done", "failed"}
      BY <2>0 DEF CopiesOK, Linkable
    <2> QED BY <2>1, <2>2, <2>3 DEF CopyIsWhole
  <1> QED BY <1>1, SpecInv, PTL
=============================================================================
