----------------------------- MODULE HttpClient -----------------------------
(***************************************************************************)
(* interpreter_http_request and read_http_response with the pool of        *)
(* keep-alive connections of one interpreter.  The bytes of a response are *)
(* tokens tagged with the request they answer: a head that states the      *)
(* framing, units of body, the last chunk.  The server answers each        *)
(* request once, in the framing it states, or breaks off; it may close a   *)
(* connection whenever it likes.                                           *)
(***************************************************************************)
EXTENDS Integers, Sequences, FiniteSets

CONSTANTS Secure, Plain,  \* the https and http origins
          BodyLimit,      \* HTTP_BODY_LIMIT, in units
          MaxPerOrigin,   \* connections kept for one origin (2)
          MaxOrigins,     \* origins the pool keeps (32)
          RedirectLimit,  \* HTTP_REDIRECT_LIMIT
          MaxRequests     \* bound: requests of the program

VARIABLES pool,   \* origin |-> idle connections, for the origins that have an entry
          conn,   \* the connection of the request in progress
          got,    \* the bytes read from it: the vector wire
          call,   \* the request in progress
          sends,  \* history: how often each request's bytes were sent
          route   \* history: the origins the request was sent to

http_vars == <<pool, conn, got, call, sends, route>>

Origin == Secure \union Plain
NoTarget == "none"

\* The limits are counts, and no origin is the word for a response without a redirect.
ASSUME HttpAssumption ==
  /\ {BodyLimit, MaxPerOrigin, MaxOrigins, RedirectLimit, MaxRequests} \subseteq Nat
  /\ NoTarget \notin Origin

Fresh == [wire |-> <<>>, closed |-> FALSE]
Framing == {"none", "length", "chunked", "eof"}
ResponseHead(id, framing, len, keep, target) ==
  [token |-> "head", id |-> id, framing |-> framing, len |-> len, keep |-> keep, target |-> target]
Part(kind, id) == [token |-> kind, id |-> id]

Tokens == [token : {"head"}, id : 1..MaxRequests, framing : Framing, len : 0..(BodyLimit + 1),
           keep : BOOLEAN, target : Origin \union {NoTarget}]
          \union [token : {"interim", "unit", "last"}, id : 1..MaxRequests]

HttpTypeOK ==
  /\ DOMAIN pool \subseteq Origin
  /\ \A o \in DOMAIN pool : \A i \in DOMAIN pool[o] : pool[o][i].closed \in BOOLEAN
  /\ conn.closed \in BOOLEAN
  /\ \A i \in DOMAIN got : got[i] \in Tokens
  /\ call \in [id : 0..MaxRequests, origin : Origin, bare : BOOLEAN, hops : 0..RedirectLimit,
               pc : {"idle", "open", "send", "server", "read", "done"},
               result : {"none", "ok", "error"}]
  /\ sends \in [1..MaxRequests -> 0..(RedirectLimit + 1)]
  /\ route \in Seq(Origin)

HttpInit ==
  /\ pool = [o \in {} |-> <<>>] /\ conn = Fresh /\ got = <<>>
  /\ call \in [id : {0}, origin : Origin, bare : {TRUE}, hops : {0}, pc : {"idle"}, result : {"none"}]
  /\ sends = [i \in 1..MaxRequests |-> 0] /\ route = <<>>

-----------------------------------------------------------------------------

Fail == call' = [call EXCEPT !.pc = "done", !.result = "error"]

(* bare: a GET or HEAD without headers and body, the only request that is redirected.       *)
Request(o, bare) ==
  /\ call.pc \in {"idle", "done"} /\ call.id < MaxRequests
  /\ call' = [id |-> call.id + 1, origin |-> o, bare |-> bare, hops |-> 0, pc |-> "open",
              result |-> "none"]
  /\ route' = <<>>
  /\ UNCHANGED <<pool, conn, got, sends>>

(* A pooled connection is popped, and so is gone from the pool when the request fails.      *)
OpenConnection ==
  LET o == call.origin
      idle == IF o \in DOMAIN pool THEN pool[o] ELSE <<>>
  IN
  /\ call.pc = "open"
  /\ IF idle # <<>>
     THEN /\ conn' = idle[Len(idle)]
          /\ pool' = [pool EXCEPT ![o] = SubSeq(@, 1, Len(@) - 1)]
     ELSE conn' = Fresh /\ UNCHANGED pool
  /\ \/ call' = [call EXCEPT !.pc = "send"]
     \/ Fail                       \* no address, no connection, or the deadline
  /\ got' = <<>>
  /\ UNCHANGED <<sends, route>>

\* Head and body are written; a closed connection shows now or at the first read.
SendRequest ==
  /\ call.pc = "send"
  /\ sends' = [sends EXCEPT ![call.id] = @ + 1]
  /\ route' = Append(route, call.origin)
  /\ \/ call' = [call EXCEPT !.pc = IF conn.closed THEN "read" ELSE "server"]
     \/ conn.closed /\ Fail
  /\ UNCHANGED <<pool, conn, got>>

Repeat(t, n) == [i \in 1..n |-> t]
Response(head) ==
  LET body == Repeat(Part("unit", head.id), head.len) IN
  <<head>> \o (IF head.framing = "none" THEN <<>> ELSE body)
           \o (IF head.framing = "chunked" THEN <<Part("last", head.id)>> ELSE <<>>)

(* The server, outside this program: interim heads, a whole or a broken response.           *)
ServerAnswers ==
  /\ call.pc = "server"
  /\ \E framing \in Framing, len \in 0..(BodyLimit + 1), keep \in BOOLEAN,
        target \in Origin \union {NoTarget}, interim \in 0..1 :
       LET whole == Repeat(Part("interim", call.id), interim)
                      \o Response(ResponseHead(call.id, framing, len, keep, target)) IN
       \E cut \in {Len(whole), Len(whole) - 1} :
         conn' = [wire |-> SubSeq(whole, 1, cut), closed |-> cut < Len(whole) \/ framing = "eof"]
  /\ call' = [call EXCEPT !.pc = "read"]
  /\ UNCHANGED <<pool, got, sends, route>>

ServerClosesIdle ==
  \E o \in DOMAIN pool : \E i \in DOMAIN pool[o] :
    /\ ~pool[o][i].closed
    /\ pool' = [pool EXCEPT ![o][i].closed = TRUE]
    /\ UNCHANGED <<conn, got, call, sends, route>>

-----------------------------------------------------------------------------
(* read_http_response.  What has been read decides what it does next.      *)

Interims == IF got # <<>> /\ got[1].token = "interim" THEN 1 ELSE 0
Answer == SubSeq(got, Interims + 1, Len(got))       \* after wire.drain
HaveHead == Answer # <<>>
TheHead == Answer[1]
BodyRead == SubSeq(Answer, 2, Len(Answer))
LastAt == {i \in DOMAIN BodyRead : BodyRead[i].token = "last"}

\* decode_chunked_body: the units before the last chunk, once it has arrived.
Chunks == LET end == CHOOSE i \in LastAt : TRUE IN SubSeq(BodyRead, 1, end - 1)

TooLong ==
  /\ HaveHead
  /\ \/ TheHead.framing = "length" /\ TheHead.len > BodyLimit
     \/ TheHead.framing = "chunked" /\ LastAt # {} /\ Len(Chunks) > BodyLimit
     \/ TheHead.framing = "eof" /\ Len(BodyRead) > BodyLimit

\* A fault: a body of stated length may end with the connection.
CompleteAtEnd ==
  /\ HaveHead
  /\ \/ TheHead.framing = "none"
     \/ TheHead.framing = "chunked" /\ LastAt # {}
     \/ TheHead.framing \in {"length", "eof"} /\ conn.wire = <<>> /\ conn.closed

Complete ==
  /\ HaveHead
  /\ \/ TheHead.framing = "none"
     \/ TheHead.framing = "length" /\ Len(BodyRead) >= TheHead.len
     \/ TheHead.framing = "chunked" /\ LastAt # {}
     \/ TheHead.framing = "eof" /\ conn.wire = <<>> /\ conn.closed

\* The body handed on, and how much of what was read belongs to it.
Body ==
  CASE TheHead.framing = "none"    -> <<>>
    [] TheHead.framing = "length"  -> [i \in 1..TheHead.len \cap DOMAIN BodyRead |-> BodyRead[i]]
    [] TheHead.framing = "chunked" -> Chunks
    [] OTHER                       -> BodyRead
Exact == Len(BodyRead) = Len(Body) + (IF TheHead.framing = "chunked" THEN 1 ELSE 0)

reusable ==
  /\ TheHead.keep
  /\ TheHead.framing = "none" \/ (TheHead.framing # "eof" /\ Exact)

(* One read(): part of what has arrived.  An empty read on a closed connection, a timeout   *)
(* and an expired deadline are errors.                                                      *)
Read ==
  /\ call.pc = "read" /\ ~Complete /\ ~TooLong
  /\ \/ \E n \in 1..Len(conn.wire) :
          /\ got' = got \o SubSeq(conn.wire, 1, n)
          /\ conn' = [conn EXCEPT !.wire = SubSeq(@, n + 1, Len(@))]
          /\ UNCHANGED call
     \/ Fail /\ UNCHANGED <<got, conn>>
  /\ UNCHANGED <<pool, sends, route>>

RefuseLong ==
  /\ call.pc = "read" /\ TooLong /\ Fail
  /\ UNCHANGED <<pool, conn, got, sends, route>>

\* Every stream is kept that was not read past its response, up to the two bounds.
http_pool_return(o) ==
  LET streams == IF o \in DOMAIN pool THEN pool[o] ELSE <<>> IN
  IF reusable /\ (Cardinality(DOMAIN pool) < MaxOrigins \/ o \in DOMAIN pool)
  THEN [x \in DOMAIN pool \union {o} |->
          IF x # o THEN pool[x]
          ELSE IF Len(streams) < MaxPerOrigin THEN Append(streams, conn) ELSE streams]
  ELSE pool

\* A fault: a request with a body is redirected like one without.
RedirectsAll == TheHead.target # NoTarget

Redirects == call.bare /\ TheHead.target # NoTarget
Downgrades == call.origin \in Secure /\ TheHead.target \notin Secure

(* A redirect: the connection goes back to the pool first, then the limit and the scheme    *)
(* are looked at.                                                                           *)
Follow ==
  /\ call.pc = "read" /\ Complete /\ ~TooLong /\ Redirects
  /\ pool' = http_pool_return(call.origin)
  /\ IF call.hops = RedirectLimit \/ Downgrades THEN Fail
     ELSE call' = [call EXCEPT !.pc = "open", !.hops = @ + 1, !.origin = TheHead.target]
  /\ UNCHANGED <<conn, got, sends, route>>

ReturnResponse ==
  /\ call.pc = "read" /\ Complete /\ ~TooLong /\ ~Redirects
  /\ pool' = http_pool_return(call.origin)
  /\ call' = [call EXCEPT !.pc = "done", !.result = "ok"]
  /\ UNCHANGED <<conn, got, sends, route>>

HttpNext ==
  \/ \E o \in Origin, bare \in BOOLEAN : Request(o, bare)
  \/ OpenConnection \/ SendRequest \/ ServerAnswers \/ ServerClosesIdle
  \/ Read \/ RefuseLong \/ Follow \/ ReturnResponse

HttpSpec == HttpInit /\ [][HttpNext]_http_vars

-----------------------------------------------------------------------------

(* A response that is handed to the program answers that very request, is complete in the   *)
(* framing its head states, and is within the limit: neither a reused connection nor one    *)
(* that was cut shows the program an earlier or a shortened body.  (A body that ends with   *)
(* the connection has no stated length.)                                                    *)
OwnWholeAnswer ==
  call.pc = "done" /\ call.result = "ok" =>
    /\ \A i \in DOMAIN got : got[i].id = call.id
    /\ TheHead.framing \in {"length", "chunked"} => Len(Body) = TheHead.len
    /\ Len(Body) <= BodyLimit

(* An idle connection holds no byte of an earlier response, so the next request reads its   *)
(* own; and the pool is bounded however many origins redirects lead to.                     *)
PoolClean ==
  /\ \A o \in DOMAIN pool : /\ Len(pool[o]) <= MaxPerOrigin
                            /\ \A i \in DOMAIN pool[o] : pool[o][i].wire = <<>>
  /\ Cardinality(DOMAIN pool) <= MaxOrigins

(* "non-replay redirects" (docs/compiler/README.md): a request with headers or a body is    *)
(* sent once, also when a stale pooled connection fails it; a bare one once per hop.        *)
SentOncePerHop ==
  call.id > 0 => /\ sends[call.id] <= call.hops + 1
                 /\ ~call.bare => sends[call.id] <= 1

(* "HTTPS-to-HTTP redirects are rejected": from the first https origin of a chain of        *)
(* redirects on, every origin that is sent anything is https.                               *)
StaysSecure ==
  \A i, j \in DOMAIN route : i < j /\ route[i] \in Secure => route[j] \in Secure

(* An answer is the request's own and whole, because an idle connection holds no byte of an *)
(* earlier one; the pool stays within its bounds.                                           *)
AnswersOwn == OwnWholeAnswer /\ PoolClean

(* Along a chain of redirects nothing is sent twice to a hop, and nothing to a plain origin *)
(* after a secure one.                                                                      *)
RedirectsSound == SentOncePerHop /\ StaysSecure
=============================================================================
