----------------------------- MODULE HttpClient -----------------------------
(***************************************************************************)
(* The HTTP client (src/util/ffhttp-client.c): one request, from the name  *)
(* of the host to the last byte of the response.  And its user's handler:  *)
(* httpcli_handler() of the filter "net.httpcli" (src/net/net.c).          *)
(*                                                                         *)
(* The client is a state machine that runs until it must wait: for a       *)
(* socket, guarded by a one-shot timer, or for its user, who is told the   *)
(* status by a call and lets it run on with send().  An I/O error or a     *)
(* timeout starts the request anew, and so does a redirect.                *)
(*                                                                         *)
(* The server may do anything: refuse, be silent, close the connection or  *)
(* break the format at any moment, send any number of units at a time.  A  *)
(* body is the units 1 .. Units.                                           *)
(***************************************************************************)
EXTENDS Naturals, Sequences

CONSTANTS
    Units,        \* how much data a response has
    Bodies,       \* how the servers show where it ends: "close", "chunked", "length"
    Addrs,        \* the number of a host's addresses
    HdrBuf,       \* how many pieces of headers the first buffer takes
    MaxReconnect, MaxRedirect  \* conf.max_reconnect, conf.max_redirect

ASSUME ClientAssumption ==
    /\ {Units, Addrs, HdrBuf} \subseteq Nat \ {0} /\ {MaxReconnect, MaxRedirect} \subseteq Nat
    /\ Bodies \subseteq {"close", "chunked", "length"}

VARIABLES
    c,    \* the client, struct http
    srv,  \* the response: how its body ends, the next unit to come
    h,    \* the client's user, struct httpclient, and net_reconnect of its track
    go    \* the track's task is queued

clientVars == <<c, srv, h, go>>

(* st: the state I_*; run: httpcl_process() is running; open: there is a socket;
   op: what the socket is waited for (async); ready: its event has come; addr:
   the next address to try; hdrs: pieces of headers in the buffer; buf, out: data
   before and after the body's filter (data, outdata). *)
NoClient == [st |-> "none", run |-> FALSE, open |-> FALSE, op |-> "none", ready |-> FALSE,
             tmr |-> FALSE, addr |-> 0, hdrs |-> 0, reconnects |-> 0, nredirect |-> 0,
             buf |-> <<>>, out |-> <<>>]

(* st: 0: no request, 1: waiting for the client, 2: the chain has the data, 3: the
   response is of no use.  reset: d->net_reconnect. *)
NoUser == [st |-> 0, status |-> "none", data |-> <<>>, reset |-> FALSE]

NoResponse == [body |-> "none", next |-> 1]

ClientInit ==
    /\ c = NoClient /\ srv = NoResponse
    /\ h = NoUser /\ go = TRUE

-----------------------------------------------------------------------------
LastChunk == Units + 1   \* the empty chunk

(* What a server sends as the body. *)
Wire(body) == [i \in 1 .. Units |-> i] \o IF body = "chunked" THEN <<LastChunk>> ELSE <<>>

AllOf(i, j) == SubSeq(Wire(srv.body), i, j)

(* Slip of httpcli_handler(): the client is not suspended while its data is used. *)
SendsOnData(status) == status \in {"DNS_WAIT", "IP_WAIT", "REQ_WAIT", "RESP_WAIT", "RESP", "RESP_RECV"}

(* The statuses on which the handler calls send() itself; on the others it wakes
   the track. *)
SendsOn(status) == status \in {"DNS_WAIT", "IP_WAIT", "REQ_WAIT", "RESP_WAIT", "RESP"}

(* What the handler learns of it by ffhttpcl_recv(), which takes the data. *)
Heard(status, C) == [h EXCEPT !.status = status, !.data = IF status = "RESP_RECV" THEN C.out ELSE @]

(* call_handler(), and then a return, ... *)
Calls(C, status) ==
    /\ c' = [C EXCEPT !.run = SendsOn(status), !.ready = FALSE, !.out = <<>>]
    /\ h' = Heard(status, C)
    /\ go' = (go \/ ~SendsOn(status))

(* ... or a continue. *)
CallsAndGoesOn(C, status) ==
    /\ c' = [C EXCEPT !.ready = FALSE, !.out = <<>>]
    /\ h' = Heard(status, C)
    /\ go' = (go \/ ~SendsOn(status))

Becomes(C) == c' = [C EXCEPT !.ready = FALSE] /\ UNCHANGED <<h, go>>
To(st) == [c EXCEPT !.st = st]

(* An operation on the socket would block. *)
Waits(op) ==
    /\ ~c.ready
    /\ c' = [c EXCEPT !.op = op, !.tmr = TRUE, !.run = FALSE]
    /\ UNCHANGED <<srv, h, go>>

(* The socket is closed and its task disarmed; the buffers are empty. *)
Disconnected(C) == [C EXCEPT !.open = FALSE, !.op = "none", !.hdrs = 0, !.buf = <<>>]

(* Slip of tcp_ioerr(): the reconnection is not counted. *)
IoErrUncounted(C) ==
    IF C.reconnects = MaxReconnect THEN [C EXCEPT !.st = "ERR"]
    ELSE [Disconnected(C) EXCEPT !.st = "ADDR"]

(* tcp_ioerr(): back to the beginning, and to the URL the user has given. *)
IoErr(C) ==
    IF C.reconnects = MaxReconnect
    THEN [C EXCEPT !.st = "ERR", !.reconnects = @ + 1]
    ELSE [Disconnected(C) EXCEPT !.st = "ADDR", !.reconnects = @ + 1]

-----------------------------------------------------------------------------
At(st) == c.run /\ c.st = st

(* I_START: the buffers are allocated. *)
Start ==
    /\ At("START") /\ UNCHANGED srv
    /\ \/ Becomes(To("ERR"))
       \/ Calls(To("ADDR"), "DNS_WAIT")

(* I_ADDR: ip_resolve() *)
Resolve ==
    /\ At("ADDR") /\ UNCHANGED srv
    /\ \/ Becomes(To("ERR"))
       \/ Calls([To("NEXTADDR") EXCEPT !.addr = 1], "IP_WAIT")

(* I_NEXTADDR: tcp_prepare().  The socket is not created, or not attached to the
   kernel queue, or ready to connect. *)
NextAddr ==
    /\ At("NEXTADDR") /\ UNCHANGED srv
    /\ IF c.addr > Addrs THEN Becomes(To("ERR2"))
       ELSE LET next == [c EXCEPT !.addr = @ + 1]
            IN  \/ Becomes(next)
                \/ Becomes([next EXCEPT !.open = TRUE, !.st = "ERR"])
                \/ Becomes([next EXCEPT !.open = TRUE, !.st = "CONN"])

(* I_CONN: tcp_connect() *)
Connect ==
    /\ At("CONN")
    /\ \/ Waits("connect")
       \/ Becomes([To("NEXTADDR") EXCEPT !.open = FALSE]) /\ UNCHANGED srv
       \/ Calls([To("REQ") EXCEPT !.addr = 0], "REQ_WAIT") /\ UNCHANGED srv

(* I_HTTP_REQ: http_prepreq() *)
Prepare ==
    /\ At("REQ") /\ UNCHANGED srv
    /\ \/ Becomes(To("ERR"))
       \/ Becomes(To("SEND"))

(* I_HTTP_REQ_SEND: tcp_send() *)
Send ==
    /\ At("SEND")
    /\ \/ Waits("send")
       \/ Becomes(IoErr(c)) /\ UNCHANGED srv
       \/ Calls(To("RESP"), "RESP_WAIT") /\ UNCHANGED srv

(* I_HTTP_RESP: tcp_recvhdrs() *)
RecvHdrs ==
    /\ At("RESP")
    /\ IF c.hdrs = HdrBuf THEN Becomes(To("ERR")) /\ UNCHANGED srv
       ELSE \/ Waits("recv")
            \/ Becomes(IoErr(c)) /\ UNCHANGED srv
            \/ Becomes([To("PARSE") EXCEPT !.hdrs = @ + 1]) /\ UNCHANGED srv

(* http_parse(): the headers are not complete, or wrong, or a redirect. *)
HeadersOnly ==
    /\ At("PARSE") /\ UNCHANGED srv
    /\ \/ Becomes(To("RESP"))
       \/ Becomes(To("ERR"))
       \/ /\ c.nredirect # MaxRedirect
          /\ Becomes([Disconnected(To("ADDR")) EXCEPT !.nredirect = @ + 1])

(* http_parse(): a response, with some data of its body behind the headers; the
   filter of its body.  The handler lets the client go on, or finds the response
   to be of no use (httpcli_resp()): by its status, one redirect too many among
   them, its type, or because the filters for it cannot be added. *)
Response ==
    /\ At("PARSE")
    /\ \E body \in Bodies \cup {"none"}, n \in 0 .. Units, useful \in BOOLEAN :
          LET C == [c EXCEPT !.st = IF body = "none" THEN "DONE" ELSE "RESPBODY",
                             !.buf = SubSeq(Wire(body), 1, n), !.hdrs = 0,
                             !.run = useful, !.ready = FALSE]
          IN  /\ body = "none" => n = 0
              /\ c' = C /\ srv' = [body |-> body, next |-> n + 1]
              /\ h' = [h EXCEPT !.status = "RESP", !.reset = TRUE,
                                !.st = IF useful THEN @ ELSE 3]
              /\ go' = (go \/ ~useful)

(* I_HTTP_RECVBODY: tcp_recv().  The end of the connection is the end of the
   body only if nothing else shows it. *)
RecvBody ==
    /\ At("RECVBODY")
    /\ \/ Waits("recv")
       \/ Becomes(IoErr(c)) /\ UNCHANGED srv
       \/ /\ UNCHANGED srv
          /\ IF srv.body = "close" THEN CallsAndGoesOn([To("DONE") EXCEPT !.out = <<>>], "RESP_RECV")
             ELSE Becomes(To("ERR"))
       \/ \E last \in srv.next .. Len(Wire(srv.body)) :
             /\ Becomes([To("RESPBODY") EXCEPT !.buf = AllOf(srv.next, last)])
             /\ srv' = [srv EXCEPT !.next = last + 1]

(* I_HTTP_RESPBODY: http_recvbody() with what is in the buffer. *)
FilterBody ==
    LET chunked == srv.body = "chunked" /\ c.buf # <<>>
        out == IF ~chunked THEN c.buf
               ELSE IF Head(c.buf) = LastChunk THEN <<>> ELSE <<Head(c.buf)>>
        rest == IF chunked THEN Tail(c.buf) ELSE <<>>
        done == \/ chunked /\ Head(c.buf) = LastChunk
                \/ srv.body = "length" /\ srv.next > Units
        C == [c EXCEPT !.out = out, !.buf = rest]
    IN  /\ At("RESPBODY") /\ UNCHANGED srv
        /\ \/ chunked /\ Becomes(To("ERR"))
           \/ done /\ CallsAndGoesOn([C EXCEPT !.st = "DONE"], "RESP_RECV")
           \/ ~done /\ Calls([C EXCEPT !.st = IF rest = <<>> THEN "RECVBODY" ELSE "RESPBODY"],
                             "RESP_RECV")

(* I_DONE, I_ERR, I_ERR2, and I_NOOP *)
Finish ==
    \/ At("DONE") /\ Calls(To("NOOP"), "DONE") /\ UNCHANGED srv
    \/ At("ERR") /\ Calls(To("NOOP"), "ERR") /\ UNCHANGED srv
    \/ At("ERR2") /\ Calls(To("NOOP"), "ENOADDR") /\ UNCHANGED srv
    \/ At("NOOP") /\ Becomes([c EXCEPT !.run = FALSE]) /\ UNCHANGED srv

ClientRuns ==
    \/ Start \/ Resolve \/ NextAddr \/ Connect \/ Prepare \/ Send
    \/ RecvHdrs \/ HeadersOnly \/ Response \/ RecvBody \/ FilterBody \/ Finish

(* Slip of tcp_aio(): the timer is left to run. *)
AnsweredLate == [c EXCEPT !.op = "none", !.ready = TRUE, !.run = TRUE]

(* tcp_aio(): the timer is stopped. *)
Answered == [c EXCEPT !.op = "none", !.ready = TRUE, !.run = TRUE, !.tmr = FALSE]

(* The kernel reports the socket that is waited for. *)
Event ==
    /\ ~c.run /\ c.op # "none"
    /\ c' = Answered /\ UNCHANGED <<srv, h, go>>

(* tcp_ontmr(): the time is over; it may come before an event that is due. *)
Timeout ==
    /\ ~c.run /\ c.tmr
    /\ c' = [IoErr(c) EXCEPT !.run = TRUE, !.tmr = FALSE] /\ UNCHANGED <<srv, h, go>>

-----------------------------------------------------------------------------
(* The type invariant: what ffhttp-client.c's struct http and its user's struct
   httpclient may hold. *)
TypeOK ==
    /\ c \in [st : {"none", "START", "ADDR", "NEXTADDR", "CONN", "REQ", "SEND", "RESP", "PARSE",
                    "RESPBODY", "RECVBODY", "DONE", "ERR", "ERR2", "NOOP"},
              run : BOOLEAN, open : BOOLEAN, ready : BOOLEAN, tmr : BOOLEAN,
              op : {"none", "connect", "send", "recv"},
              addr : 0 .. Addrs + 1, hdrs : 0 .. HdrBuf,
              reconnects : 0 .. MaxReconnect + 1, nredirect : 0 .. MaxRedirect,
              buf : Seq(1 .. LastChunk), out : Seq(1 .. LastChunk)]
    /\ srv \in [body : Bodies \cup {"none"}, next : 1 .. LastChunk + 1]
    /\ h \in [st : 0 .. 3, data : Seq(1 .. LastChunk), reset : BOOLEAN,
              status : {"none", "DNS_WAIT", "IP_WAIT", "REQ_WAIT", "RESP_WAIT", "RESP",
                        "RESP_RECV", "DONE", "ERR", "ENOADDR"}]
    /\ go \in BOOLEAN

(* A wait for the socket is always limited: there is a timer while, and only
   while, the request waits for it, and the socket it waits for is open.  After
   the timer has given up for good, the client may still hold the socket. *)
TimerGuardsWait ==
    /\ c.tmr => c.op # "none"
    /\ c.op # "none" => c.open /\ (c.tmr \/ c.st \in {"ERR", "NOOP"})

=============================================================================
