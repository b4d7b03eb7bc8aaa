------------------------------- MODULE Layout -------------------------------
(***************************************************************************)
(* How one protected message is laid out in buffers: gss_wrap_iov_length,  *)
(* gss_wrap_size_limit, gss_wrap, gss_wrap_iov and gss_get_mic on one side *)
(* of a context, gss_unwrap, gss_unwrap_iov and gss_verify_mic on the      *)
(* other.                                                                  *)
(*                                                                         *)
(* A byte is a pair of the region it was made for and its place there:     *)
(* "H" the GSS header, "K" the Kerberos header, "D" the data, "P" the      *)
(* extra count, "E" the encrypted copy of the header, "T" the Kerberos     *)
(* trailer, "C" the checksum.  Decryption succeeds if the regions handed   *)
(* to the Kerberos library hold, in its order, the bytes it has made.      *)
(* SIGN_ONLY buffers travel apart, and the receiver supplies the same.     *)
(***************************************************************************)
EXTENDS Integers, Sequences, FiniteSetsExt

CONSTANTS
    Enctypes,      \* lengths of an encryption type
    DataLengths,   \* lengths of a DATA buffer
    Rooms,         \* lengths of HEADER and TRAILER buffers a caller makes up
    OutputSizes    \* the req_output_size to ask gss_wrap_size_limit about

LayoutAssumption ==
    /\ Enctypes \subseteq [header : Nat, trailer : Nat, checksum : Nat \ {0}, padding : Nat, block : Nat]
    /\ (DataLengths \cup Rooms \cup OutputSizes) \subseteq Nat

VARIABLES
    pc,
    call,     \* etype, api, who sends, confidentiality and DCE style requested
    iov,      \* the sender's buffers
    asked,    \* their lengths are from gss_wrap_iov_length
    limit,    \* answer of gss_wrap_size_limit
    status,   \* status of wrapping
    token,    \* what the sender's buffers hold
    back      \* what the receiver gets

vars == <<pc, call, iov, asked, limit, status, token, back>>

Types == {"HEADER", "SIGN_ONLY", "DATA", "PADDING", "TRAILER"}
Buffer == [type : Types, allocate : BOOLEAN, allocated : BOOLEAN, length : Nat]
Buf(type, allocate, length) ==
    [type |-> type, allocate |-> allocate, allocated |-> FALSE, length |-> length]
Call == [etype : Enctypes, api : {"wrap", "wrap_iov", "mic"},
         from : {"initiator", "acceptor"}, conf : BOOLEAN, dce : BOOLEAN]
NoLimit == [req |-> 0, max |-> 0]
NoToken == [conf |-> FALSE, ec |-> 0, rrc |-> 0, header |-> <<>>, data |-> <<>>, trailer |-> <<>>,
            rotated |-> FALSE]
NoBack == [status |-> "NONE", data |-> <<>>, allocated |-> FALSE]

\* The buffers of the three ways to protect a message.
AtMostOne(set) == {<<>>} \cup {<<b>> : b \in set}
CallerBuffers(type) == {Buf(type, TRUE, 0)} \cup {Buf(type, FALSE, n) : n \in Rooms}
DataBuffers ==
    {<<>>} \cup {<<Buf("DATA", FALSE, n)>> : n \in DataLengths}
           \cup {<<Buf("DATA", FALSE, n), Buf("DATA", FALSE, 1)>> : n \in DataLengths}
Shapes(api) ==
    CASE api = "wrap" ->
            {<<Buf("HEADER", FALSE, 0), Buf("DATA", FALSE, n), Buf("PADDING", FALSE, 0),
               Buf("TRAILER", FALSE, 0)>> : n \in DataLengths}
      [] api = "mic" ->
            {<<Buf("DATA", FALSE, n), Buf("HEADER", TRUE, 0)>> : n \in DataLengths}
      [] api = "wrap_iov" ->
            {<<h>> \o s \o d \o p \o t :
                h \in CallerBuffers("HEADER"), s \in AtMostOne({Buf("SIGN_ONLY", FALSE, 3)}),
                d \in DataBuffers, p \in AtMostOne({Buf("PADDING", FALSE, 5)}),
                t \in AtMostOne(CallerBuffers("TRAILER"))}

Init ==
    /\ pc = "start"
    /\ call \in Call
    /\ call.api = "mic" => ~call.conf
    /\ iov \in Shapes(call.api)
    /\ asked = FALSE
    /\ limit = NoLimit
    /\ status = "NONE"
    /\ token = NoToken
    /\ back = NoBack

-----------------------------------------------------------------------------
\* gssBidLocateIov: two buffers of one type are as good as none.
LocateIov(v, type) ==
    LET found == {i \in DOMAIN v : v[i].type = type}
    IN  IF \E i \in found : found = {i} THEN CHOOSE i \in found : TRUE ELSE 0

\* gssBidIovMessageLength: the length of all data less that of what is only
\* signed.
ConfDataLength(v) ==
    MapThenSumSet(LAMBDA i : v[i].length, {i \in DOMAIN v : v[i].type = "DATA"})

IsIntegrityOnly(v) == \A i \in DOMAIN v : v[i].type # "DATA"

\* krbPaddingLength
PaddingLength(e, n) ==
    IF e.padding # 0 /\ (n + e.header) % e.padding # 0
    THEN e.padding - ((n + e.header) % e.padding)
    ELSE 0

\* Only the acceptor learns that DCE style was requested: it sets
\* GSS_C_DCE_STYLE from the claims, the initiator nowhere.
DceStyle(who) == who = "acceptor" /\ call.dce

\* Wrong variant: the block of DCE style is not counted.
IovLengthsWithoutBlock(e, dce, conf, n) ==
    [header |-> IF conf THEN 16 + e.header ELSE 16,
     trailer |-> IF conf THEN 16 + e.trailer + PaddingLength(e, n + 16) ELSE e.checksum]

\* The lengths gssBidWrapIovLength computes.
IovLengths(e, dce, conf, n) ==
    LET pad == PaddingLength(e, n + 16)
        ec == IF pad = 0 /\ dce THEN e.block ELSE pad
    IN  IF conf
        THEN [header |-> 16 + e.header, trailer |-> 16 + e.trailer + ec]
        ELSE [header |-> 16, trailer |-> e.checksum]

\* gssBidWrapIovLength
Measured(e, dce, conf, v) ==
    LET L == IovLengths(e, dce, conf /\ ~IsIntegrityOnly(v), ConfDataLength(v))
        noTrailer == LocateIov(v, "TRAILER") = 0
    IN  [i \in DOMAIN v |->
            CASE i = LocateIov(v, "HEADER") ->
                    [v[i] EXCEPT !.length = L.header + (IF noTrailer THEN L.trailer ELSE 0)]
              [] i = LocateIov(v, "TRAILER") -> [v[i] EXCEPT !.length = L.trailer]
              [] i = LocateIov(v, "PADDING") -> [v[i] EXCEPT !.length = 0]
              [] OTHER -> v[i]]

\* gss_wrap_iov_length
AskLength ==
    /\ pc = "start" /\ call.api = "wrap_iov" /\ ~asked
    /\ iov' = Measured(call.etype, DceStyle(call.from), call.conf, iov)
    /\ asked' = TRUE
    /\ UNCHANGED <<pc, call, limit, status, token, back>>

\* gss_wrap_size_limit, from the lengths for a message of the size requested
MaxInputSize(v, req) ==
    LET overhead == v[1].length + v[4].length
    IN  IF v[3].length = 0 /\ overhead < req THEN req - overhead ELSE 0

AskSizeLimit(req) ==
    /\ pc = "start" /\ call.api = "wrap" /\ limit = NoLimit
    /\ LET v == <<Buf("HEADER", FALSE, 0), Buf("DATA", FALSE, req), Buf("PADDING", FALSE, 0),
                  Buf("TRAILER", FALSE, 0)>>
       IN  limit' = [req |-> req,
                     max |-> MaxInputSize(Measured(call.etype, DceStyle(call.from), call.conf, v), req)]
    /\ UNCHANGED <<pc, call, iov, asked, status, token, back>>

-----------------------------------------------------------------------------
Bytes(region, n) == [i \in 1..n |-> <<region, i>>]
Blank(n) == Bytes("?", n)
Sub(bytes, at, n) == SubSeq(bytes, at + 1, at + n)
Put(bytes, at, region) ==
    [i \in DOMAIN bytes |-> IF i - at \in DOMAIN region THEN region[i - at] ELSE bytes[i]]

\* mapIov: where the Kerberos library finds its regions.  DCE style rotates
\* by EC + RRC.
Fits(e, dce, ec, rrc, noTrailer, headerLen, trailerLen) ==
    LET gssTrailer == ec + 16 + e.trailer
    IN  IF noTrailer
        THEN /\ rrc + (IF dce THEN ec ELSE 0) = gssTrailer
             /\ headerLen = 16 + e.header + gssTrailer
        ELSE trailerLen = gssTrailer /\ headerLen = 16 + e.header

\* What the library reads: the header, the data, the count and E(Header), and
\* its trailer.
Sealed(e, ec, noTrailer, header, data, trailer) ==
    LET at == IF noTrailer THEN 16 ELSE 0
        t == IF noTrailer THEN header ELSE trailer
    IN  Sub(header, Len(header) - e.header, e.header) \o data
        \o Sub(t, at, ec + 16) \o Sub(t, at + ec + 16, e.trailer)

Made(e, ec, data) ==
    Bytes("K", e.header) \o data \o Bytes("P", ec) \o Bytes("E", 16) \o Bytes("T", e.trailer)

\* What encryption leaves in the HEADER and TRAILER buffers.
EncryptedHeader(e, ec, noTrailer, n) ==
    LET plain == Put(Put(Blank(n), 0, Bytes("H", 16)), n - e.header, Bytes("K", e.header))
    IN  IF noTrailer
        THEN Put(plain, 16, Bytes("P", ec) \o Bytes("E", 16) \o Bytes("T", e.trailer))
        ELSE plain
EncryptedTrailer(e, ec, noTrailer, n) ==
    IF noTrailer THEN <<>>
    ELSE Put(Blank(n), 0, Bytes("P", ec) \o Bytes("E", 16) \o Bytes("T", e.trailer))

\* What gssBidSign leaves there.
SignedHeader(e, noTrailer, n) ==
    Put(Blank(n), 0, Bytes("H", 16) \o (IF noTrailer THEN Bytes("C", e.checksum) ELSE <<>>))
SignedTrailer(e, noTrailer, n) == IF noTrailer THEN <<>> ELSE Put(Blank(n), 0, Bytes("C", e.checksum))

\* gssBidAllocIov, or the check of the caller's buffer: the outcomes.
Taken(b, need) ==
    IF b.allocate
    THEN {[code |-> "OK", buf |-> [b EXCEPT !.length = need, !.allocated = TRUE]],
          [code |-> "ENOMEM", buf |-> [b EXCEPT !.length = 0]]}
    ELSE IF b.length < need
         THEN {[code |-> "WRONG_SIZE", buf |-> b]}
         ELSE {[code |-> "OK", buf |-> [b EXCEPT !.length = need]]}

\* gssBidReleaseIov
Released(v) ==
    [i \in DOMAIN v |-> IF v[i].allocated THEN [v[i] EXCEPT !.allocated = FALSE, !.length = 0] ELSE v[i]]

\* The token: EC and RRC, and what the buffers hold.
TokenOf(e, L, rrc, noTrailer, headerLen, trailerLen, data) ==
    [conf |-> call.conf, ec |-> L.ec, rrc |-> rrc, data |-> data, rotated |-> noTrailer,
     header |-> IF call.conf THEN EncryptedHeader(e, L.ec, noTrailer, headerLen)
                ELSE SignedHeader(e, noTrailer, headerLen),
     trailer |-> IF call.conf THEN EncryptedTrailer(e, L.ec, noTrailer, trailerLen)
                 ELSE SignedTrailer(e, noTrailer, trailerLen)]

\* The extra count and the lengths gssBidWrapOrGetMIC computes.
WrapLengths(e, dce, n) ==
    LET pad == PaddingLength(e, n + 16)
        ec == IF pad = 0 /\ dce THEN e.block ELSE pad
    IN  IF call.conf
        THEN [ec |-> ec, header |-> 16 + e.header, trailer |-> ec + 16 + e.trailer]
        ELSE [ec |-> e.checksum, header |-> 16, trailer |-> e.checksum]

\* The rotation of a message that has no TRAILER buffer.
RightRotation(L, dce, noTrailer) ==
    IF ~noTrailer THEN 0 ELSE L.trailer - (IF call.conf /\ dce THEN L.ec ELSE 0)

Failed(code, v) == status' = code /\ iov' = Released(v) /\ UNCHANGED token

\* gssBidWrapOrGetMIC
WrapOrGetMIC(v) ==
    LET e == call.etype
        dce == DceStyle(call.from)
        L == WrapLengths(e, dce, ConfDataLength(v))
        h == LocateIov(v, "HEADER")
        t == LocateIov(v, "TRAILER")
        p == LocateIov(v, "PADDING")
        u == IF p = 0 THEN v ELSE [v EXCEPT ![p].length = 0]
        rrc == RightRotation(L, dce, t = 0)
        data == Bytes("D", ConfDataLength(v))
    IN  \E r \in Taken(u[h], L.header + (IF t = 0 THEN L.trailer ELSE 0)) :
            LET w == [u EXCEPT ![h] = r.buf]
            IN  IF r.code # "OK" THEN Failed(r.code, w)
                ELSE IF t = 0
                THEN /\ status' = "COMPLETE" /\ iov' = w
                     /\ token' = TokenOf(e, L, rrc, TRUE, w[h].length, 0, data)
                ELSE \E s \in Taken(w[t], L.trailer) :
                        LET x == [w EXCEPT ![t] = s.buf]
                        IN  IF s.code # "OK" THEN Failed(s.code, x)
                            ELSE /\ status' = "COMPLETE" /\ iov' = x
                                 /\ token' = TokenOf(e, L, rrc, FALSE, x[h].length, x[t].length, data)

Protect(v) ==
    /\ WrapOrGetMIC(v)
    /\ pc' = IF status' = "COMPLETE" THEN "sent" ELSE "done"
    /\ UNCHANGED <<call, asked, limit, back>>

\* gss_wrap makes its buffers as long as gssBidWrapIovLength says.
Wrap ==
    /\ pc = "start" /\ call.api = "wrap"
    /\ Protect(Measured(call.etype, DceStyle(call.from), call.conf, iov))

\* gss_wrap_iov
WrapIov == pc = "start" /\ call.api = "wrap_iov" /\ Protect(iov)

\* gss_get_mic
GetMIC == pc = "start" /\ call.api = "mic" /\ Protect(iov)

-----------------------------------------------------------------------------
Receiver == IF call.from = "initiator" THEN "acceptor" ELSE "initiator"

\* gssBidChecksum, verifying
ChecksumValid(e, rrc, noTrailer, header, data, trailer) ==
    /\ IF noTrailer
       THEN rrc = e.checksum /\ Len(header) = 16 + e.checksum
       ELSE Len(trailer) = e.checksum
    /\ data = token.data
    /\ (IF noTrailer THEN Sub(header, 16, e.checksum) ELSE trailer) = Bytes("C", e.checksum)

\* The rotation unwrapToken insists on.
Desired(e, dce, conf, ec, noTrailer) ==
    IF ~noTrailer THEN 0
    ELSE IF ~conf THEN e.checksum
    ELSE e.trailer + 16 + (IF dce THEN 0 ELSE ec)

\* unwrapToken for a message wrapped
UnwrapToken(noTrailer, rrc, header, data, trailer) ==
    LET e == call.etype
        dce == DceStyle(Receiver)
    IN  IF rrc # Desired(e, dce, token.conf, token.ec, noTrailer) THEN "DEFECTIVE_TOKEN"
        ELSE IF token.conf
        THEN IF /\ Fits(e, dce, token.ec, rrc, noTrailer, Len(header), Len(trailer))
                /\ Sealed(e, token.ec, noTrailer, header, data, trailer) = Made(e, token.ec, token.data)
             THEN "COMPLETE" ELSE "BAD_SIG"
        ELSE IF token.ec # e.checksum THEN "DEFECTIVE_TOKEN"
        ELSE IF ChecksumValid(e, rrc, noTrailer, header, data, trailer) THEN "COMPLETE" ELSE "BAD_SIG"

\* Wrong variant: to the right.
rotateRight(bytes, rc) ==
    LET r == IF bytes = <<>> THEN 0 ELSE Len(bytes) - (rc % Len(bytes))
    IN  SubSeq(bytes, r + 1, Len(bytes)) \o SubSeq(bytes, 1, r)

rotateLeft(bytes, rc) ==
    LET r == IF bytes = <<>> THEN 0 ELSE rc % Len(bytes)
    IN  SubSeq(bytes, r + 1, Len(bytes)) \o SubSeq(bytes, 1, r)

\* What the receiver has after the call: the data of an allocated buffer is
\* given back when the call fails.
Unwrapped(outcome, data, allocate) ==
    [status |-> outcome, data |-> IF outcome = "COMPLETE" THEN data ELSE <<>>,
     allocated |-> allocate /\ outcome = "COMPLETE"]

\* unwrapStream cuts the message into header, data and trailer.
UnwrapStream(allocate) ==
    LET e == call.etype
        message == token.header \o token.data \o token.trailer
        stream == Sub(message, 0, 16) \o rotateLeft(Sub(message, 16, Len(message) - 16), token.rrc)
        h == 16 + (IF token.conf THEN e.header ELSE 0)
        t == IF token.conf THEN token.ec + 16 + e.trailer ELSE e.checksum
        n == Len(stream) - h - t
    IN  IF n < 0 THEN {Unwrapped("DEFECTIVE_TOKEN", <<>>, FALSE)}
        ELSE {Unwrapped(UnwrapToken(FALSE, 0, Sub(stream, 0, h), Sub(stream, h, n), Sub(stream, h + n, t)),
                        Sub(stream, h, n), allocate)}
             \cup {Unwrapped("ENOMEM", <<>>, a) : a \in {allocate} \cap {TRUE}}

\* gss_unwrap
Unwrap ==
    /\ pc = "sent" /\ call.api # "mic"
    /\ back' \in UnwrapStream(TRUE)
    /\ pc' = "done"
    /\ UNCHANGED <<call, iov, asked, limit, status, token>>

\* gss_unwrap_iov with a STREAM buffer, whose data stays in place
UnwrapIovStream ==
    /\ pc = "sent" /\ call.api # "mic"
    /\ back' \in UnwrapStream(FALSE)
    /\ pc' = "done"
    /\ UNCHANGED <<call, iov, asked, limit, status, token>>

\* gss_unwrap_iov with the sender's buffers
UnwrapIov ==
    /\ pc = "sent" /\ call.api # "mic"
    /\ back' = Unwrapped(UnwrapToken(token.rotated, token.rrc, token.header, token.data, token.trailer),
                         token.data, FALSE)
    /\ pc' = "done"
    /\ UNCHANGED <<call, iov, asked, limit, status, token>>

\* gss_verify_mic: the rotation is what the token has after its header.
VerifyMIC ==
    /\ pc = "sent" /\ call.api = "mic"
    /\ back' = Unwrapped(IF ChecksumValid(call.etype, Len(token.header) - 16, TRUE, token.header,
                                          token.data, <<>>)
                         THEN "COMPLETE" ELSE "BAD_SIG", token.data, FALSE)
    /\ pc' = "done"
    /\ UNCHANGED <<call, iov, asked, limit, status, token>>

Next ==
    \/ AskLength
    \/ \E req \in OutputSizes : AskSizeLimit(req)
    \/ Wrap
    \/ WrapIov
    \/ GetMIC
    \/ Unwrap
    \/ UnwrapIovStream
    \/ UnwrapIov
    \/ VerifyMIC

Spec == Init /\ [][Next]_vars

-----------------------------------------------------------------------------
\* Types; and a header never holds a byte that nobody has written: the regions
\* mapIov lays into a buffer fill it.
TypeOK ==
    /\ pc \in {"start", "sent", "done"}
    /\ call \in Call
    /\ \A i \in DOMAIN iov : iov[i] \in Buffer
    /\ asked \in BOOLEAN
    /\ limit.req \in Nat /\ limit.max \in Nat
    /\ status \in {"NONE", "COMPLETE", "ENOMEM", "WRONG_SIZE"}
    /\ \A i \in DOMAIN token.header : token.header[i][1] # "?"
    /\ \A i \in DOMAIN token.trailer : token.trailer[i][1] # "?"
    /\ back.status \in {"NONE", "COMPLETE", "DEFECTIVE_TOKEN", "BAD_SIG", "ENOMEM"}

\* gssBidWrapOrGetMIC finds room in buffers of the lengths that
\* gss_wrap_iov_length has said, whatever the padding: two functions compute
\* them.  Without a DATA buffer the first silently drops confidentiality, the
\* second does not.
LengthsSuffice ==
    (asked \/ call.api = "wrap") /\ ~(call.conf /\ IsIntegrityOnly(iov)) => status # "WRONG_SIZE"

\* A call that fails half way, after the header is allocated and before the
\* trailer is, leaves no allocated buffer to a caller that does not expect one.
NothingLeftOnFailure ==
    /\ status \in {"ENOMEM", "WRONG_SIZE"} => \A i \in DOMAIN iov : ~iov[i].allocated
    /\ back.status # "COMPLETE" => ~back.allocated

\* What one side wraps the other unwraps, in whatever buffers, to the same
\* data; except a confidential message of a DCE context that is rotated and
\* has an extra count, which unwrapToken refuses as TOKEN | DATA although its
\* comment says that it is sent so.
RoundTrip ==
    /\ back.status \notin {"NONE", "ENOMEM"}
    /\ ~(call.dce /\ token.conf /\ token.rotated /\ token.ec # 0)
    => back.status = "COMPLETE" /\ back.data = token.data

\* A message of the size gss_wrap_size_limit has answered fits the output size
\* asked about; where the encryption type pads it may be larger by less than a
\* block, because the padding is that of a message of the output size.
SizeLimitHolds ==
    pc = "sent" /\ limit.max > 0 /\ Len(token.data) <= limit.max =>
        Len(token.header) + Len(token.data) + Len(token.trailer)
            <= limit.req + (IF call.etype.padding = 0 THEN 0 ELSE call.etype.padding - 1)
=============================================================================
