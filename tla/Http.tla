-------------------------------- MODULE Http --------------------------------
(***************************************************************************)
(* _BIDRetrieveDocument and _BIDPostDocument of the three HTTP back ends:  *)
(* bid_curlhttp.c, bid_cfhttp.c and bid_winhttp.c.  A document arrives in  *)
(* pieces, possibly after redirections, and is collected in a buffer that  *)
(* is made larger on the way; the headers say when it expires.             *)
(*                                                                         *)
(* The bytes of a body are the numbers of their places.  CFNetwork keeps   *)
(* the body itself; curl and WinHTTP write into the library's buffer.      *)
(***************************************************************************)
EXTENDS Integers, Sequences

CONSTANTS
    Backends,       \* back ends to look at
    MaxBody,        \* bound of the length of a body
    Bufsiz,         \* BUFSIZ, the first size of the buffer
    MaxRedirects,   \* bound of the redirections followed
    Dates,          \* times in headers
    Day,            \* 60 * 60 * 24
    None,
    Invalid         \* a header that is no date

HttpAssumption ==
    /\ Backends \subseteq {"curl", "cf", "winhttp"}
    /\ {MaxBody, MaxRedirects} \subseteq Nat /\ Bufsiz \in Nat \ {0}
    /\ Dates \subseteq Nat \ {0} /\ Day \in Nat
    /\ None # Invalid /\ {None, Invalid} \cap Dates = {}

VARIABLES
    backend, pc,
    get,          \* a document is retrieved, and its expiry wanted
    redirects,    \* redirections followed
    reply,        \* headers and status of the reply being received
    length,       \* length of its body
    headers,      \* what the back end has read of the headers
    got,          \* bytes received
    pieces,       \* history: in how many pieces
    data, size,   \* the buffer, and its Offset
    offset,
    err, doc, expiry

vars == <<backend, pc, get, redirects, reply, length, headers, got, pieces, data, size, offset, err, doc, expiry>>

HeaderValue == {None, Invalid} \cup Dates
Headers == [date : HeaderValue, expires : HeaderValue]
Reply == [status : {200, 304, 500}, date : HeaderValue, expires : HeaderValue]
NoHeaders == [date |-> None, expires |-> None]
Garbage == 0

Init ==
    /\ backend \in Backends
    /\ pc = "setup"
    /\ get \in BOOLEAN
    /\ redirects = 0
    /\ reply = None
    /\ length = 0
    /\ headers = NoHeaders
    /\ got = 0
    /\ pieces = 0
    /\ data = <<>>
    /\ size = 0
    /\ offset = 0
    /\ err = "OK"
    /\ doc = None
    /\ expiry = 0

Fails(e) == pc' = "return" /\ err' = e

-----------------------------------------------------------------------------
\* The handles, the URL and the request; curl allocates the buffer first.
Setup ==
    /\ pc = "setup"
    /\ \/ /\ pc' = "send"
          /\ size' = IF backend = "curl" THEN Bufsiz ELSE 0
          /\ data' = [i \in 1..size' |-> Garbage]
          /\ UNCHANGED err
       \/ \E e \in {"NO_MEMORY", "HTTP_ERROR"} : Fails(e) /\ UNCHANGED <<size, data>>
    /\ UNCHANGED <<backend, get, redirects, reply, length, headers, got, pieces, offset, doc, expiry>>

HeadersOfLast(r) == [date |-> r.date, expires |-> r.expires]

\* _BIDCurlHeaderCB is called for the headers of every reply: one that the last
\* reply does not have is left over from a redirection.  The other back ends ask
\* for the headers of the last reply.
HeadersAfter(r) ==
    IF backend # "curl" THEN HeadersOfLast(r)
    ELSE [date |-> IF r.date = None THEN headers.date ELSE r.date,
          expires |-> IF r.expires = None THEN headers.expires ELSE r.expires]

\* A redirection: its body is not given to the library.
Redirect ==
    /\ pc = "send" /\ redirects < MaxRedirects
    /\ \E r \in Headers : headers' = HeadersAfter(r)
    /\ redirects' = redirects + 1
    /\ UNCHANGED <<backend, pc, get, reply, length, got, pieces, data, size, offset, err, doc, expiry>>

Receive ==
    /\ pc = "send"
    /\ \E r \in Reply, n \in 0..MaxBody :
           reply' = r /\ length' = n /\ headers' = HeadersAfter(r)
    /\ pc' = "body"
    /\ UNCHANGED <<backend, get, redirects, got, pieces, data, size, offset, err, doc, expiry>>

\* The connection is lost, or the buffer cannot be made larger, of which only
\* WinHTTP learns the reason.
ConnectionFails ==
    /\ pc \in {"send", "body"}
    /\ \/ Fails("HTTP_ERROR")
       \/ pc = "body" /\ backend = "winhttp" /\ Fails("NO_MEMORY")
    /\ UNCHANGED <<backend, get, redirects, reply, length, headers, got, pieces, data, size, offset, doc, expiry>>

\* Of the divisors of a power of two only 1 is odd.
PowerOfTwo(n) == \A d, m \in 1..n : n = d * m => d = 1 \/ d % 2 = 0

\* Where the loop that doubles the size until it holds required bytes ends.
Doublings(from, required) == {from * n : n \in {m \in 1..(2 * required) : PowerOfTwo(m)}}
Doubled(from, required) ==
    CHOOSE s \in Doublings(from, required) :
        s >= required /\ \A t \in Doublings(from, required) : t >= required => s <= t

\* sizeRequired
Required(n) == offset + n + 1

\* _BIDCurlWriteCB and _BIDGrowHttpBuffer: the size after room is made for n
\* more bytes and a NUL.
Grown(n) ==
    IF Required(n) <= size THEN size
    ELSE Doubled(IF size = 0 THEN Bufsiz ELSE size, Required(n))

\* Wrong variant: every piece goes to the start of the buffer.
WriteAtStart(n) == 0

\* Where a piece is written: curl behind what is there, WinHTTP at the start.
WriteAt(n) == IF backend = "winhttp" THEN 0 ELSE offset

\* The buffer after the next n bytes of the body are written.
Written(n) ==
    [i \in 1..Grown(n) |->
        IF i \in (WriteAt(n) + 1)..(WriteAt(n) + n) THEN got + i - WriteAt(n)
        ELSE IF i <= size THEN data[i] ELSE Garbage]

\* A piece of the body.
Piece ==
    /\ pc = "body" /\ got < length
    /\ \E n \in 1..(length - got) :
           /\ got' = got + n
           /\ pieces' = pieces + 1
           /\ IF backend = "cf"
              THEN data' = data \o [i \in 1..n |-> got + i] /\ size' = size + n
              ELSE data' = Written(n) /\ size' = Grown(n)
           /\ offset' = offset + n
    /\ UNCHANGED <<backend, pc, get, redirects, reply, length, headers, err, doc, expiry>>

\* curl and WinHTTP go on after an unexpected status, CFNetwork does not.
Status ==
    /\ pc = "body" /\ got = length
    /\ \/ reply.status = 200 /\ pc' = "parse" /\ UNCHANGED err
       \/ reply.status = 304 /\ Fails("DOCUMENT_NOT_MODIFIED")
       \/ reply.status = 500 /\ backend = "cf" /\ Fails("HTTP_ERROR")
       \/ reply.status = 500 /\ backend # "cf" /\ pc' = "parse" /\ err' = "HTTP_ERROR"
    /\ size' = IF backend = "winhttp" /\ offset = size THEN Grown(1) ELSE size
    /\ data' = [i \in 1..size' |-> IF i <= size THEN data[i] ELSE Garbage]
    /\ UNCHANGED <<backend, get, redirects, reply, length, headers, got, pieces, offset, doc, expiry>>

\* curl_getdate returns -1 for what is no date.
CurlDate(v) == CASE v = None -> 0 [] v = Invalid -> -1 [] OTHER -> v

\* The expiry the headers give: "Expires", else a day after "Date".
HttpExpiry(h) ==
    IF backend = "curl"
    THEN IF CurlDate(h.expires) # 0 THEN CurlDate(h.expires) ELSE CurlDate(h.date) + Day
    ELSE IF h.expires \in Dates THEN h.expires ELSE IF h.date \in Dates THEN h.date + Day ELSE 0

\* json_loads of the buffer up to the NUL at Offset.
Parse ==
    /\ pc = "parse"
    /\ \/ /\ pc' = "return"
          /\ doc' = SubSeq(data, 1, offset)
          /\ expiry' = IF get /\ err = "OK" THEN HttpExpiry(headers) ELSE 0
          /\ UNCHANGED err
       \/ Fails("INVALID_JSON") /\ UNCHANGED <<doc, expiry>>
    /\ UNCHANGED <<backend, get, redirects, reply, length, headers, got, pieces, data, size, offset>>

Next ==
    \/ Setup \/ Redirect \/ Receive \/ ConnectionFails \/ Piece \/ Status \/ Parse

Spec == Init /\ [][Next]_vars

-----------------------------------------------------------------------------
(***************************************************************************)
(* Properties.                                                             *)
(***************************************************************************)

\* The request, the buffer and the result have their types.
TypeOK ==
    /\ pc \in {"setup", "send", "body", "parse", "return"}
    /\ redirects \in 0..MaxRedirects
    /\ reply \in Reply \cup {None}
    /\ headers \in Headers
    /\ 0 <= pieces /\ pieces <= got /\ got <= length /\ length <= MaxBody
    /\ data \in Seq(0..MaxBody) /\ Len(data) = size
    /\ err \in {"OK", "NO_MEMORY", "HTTP_ERROR", "DOCUMENT_NOT_MODIFIED", "INVALID_JSON"}
    /\ doc = None \/ doc \in Seq(0..MaxBody)
    /\ expiry \in Int

\* The buffer has room for the NUL behind the bytes received, in whichever pieces
\* they came (_BIDCurlWriteCB, _BIDGrowHttpBuffer, _BIDMakeHttpRequest).
RoomForNul == (pc = "parse" /\ backend # "cf") => offset < size

\* What is parsed is the body of the last reply, whole and in order, in whichever
\* pieces it came (_BIDCurlWriteCB, _BIDMakeHttpRequest); WinHTTP's body, every
\* piece of which is written to the start of the buffer, if it came in one piece.
WholeBody ==
    (err = "OK" /\ doc # None /\ (backend = "winhttp" => pieces <= 1)) =>
        doc = [i \in 1..length |-> i]

\* A document that was not redirected expires when its reply says, no later: at
\* "Expires" if there is one, else a day after "Date"; a document without either
\* is as good as expired (_BIDRetrieveDocument, _BIDGetHttpExpiry).
ExpiryOfDocument ==
    (err = "OK" /\ doc # None /\ get /\ (redirects = 0 \/ backend # "curl")) =>
        expiry <= CASE reply.expires \in Dates -> reply.expires
                    [] reply.expires \notin Dates /\ reply.date \in Dates -> reply.date + Day
                    [] OTHER -> Day
=============================================================================
