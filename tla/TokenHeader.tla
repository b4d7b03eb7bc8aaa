----------------------------- MODULE TokenHeader -----------------------------
(***************************************************************************)
(* The header of context tokens (mech_browserid/util_token.c, with the     *)
(* callers gssBidMakeToken and gssBidVerifyToken of util_context.c): the   *)
(* DER tag 0x60 and length and the mechanism's OID, in the initial token   *)
(* only, then two bytes of token type.                                     *)
(*                                                                         *)
(* One token is made, carried, possibly cut short or continued by          *)
(* something else, and verified.  Of a token the bytes of the header are   *)
(* kept, and the number of bytes of the rest.                              *)
(***************************************************************************)
EXTENDS Integers, Sequences, SequencesExt

CONSTANTS
    BodySizes,  \* the sizes of inner tokens
    OidSizes,   \* the lengths of mechanism OIDs
    TokTypes,   \* the token types, 16 bit numbers
    Damages     \* how many bytes are lost (negative) or added

TokenHeaderAssumption ==
    /\ BodySizes \subseteq Nat /\ OidSizes \subseteq 1 .. 127
    /\ TokTypes \subseteq 1 .. 2 ^ 16 - 1
    /\ Damages \subseteq Int \ {0}

VARIABLES
    phase,      \* "make", "carried" or "verified"
    sent,       \* what the sender asked for: body size, OID length, type
    token,      \* the bytes of the header that are there, and the whole size
    damaged,    \* whether the token was cut or continued
    result      \* what verifyTokenHeader returned

vars == <<phase, sent, token, damaged, result>>

\* A token without a mechanism (GSS_C_NO_OID).
NoOid == 0

-----------------------------------------------------------------------------
(***************************************************************************)
(* Writing                                                                 *)
(***************************************************************************)

\* Wrong variant: 128 is taken for a short length.
DerLengthSizeLate(length) ==
    IF length <= 2 ^ 7 THEN 1
    ELSE IF length < 2 ^ 8 THEN 2
    ELSE IF length < 2 ^ 16 THEN 3
    ELSE IF length < 2 ^ 24 THEN 4
    ELSE 5

der_length_size(length) ==
    IF length < 2 ^ 7 THEN 1
    ELSE IF length < 2 ^ 8 THEN 2
    ELSE IF length < 2 ^ 16 THEN 3
    ELSE IF length < 2 ^ 24 THEN 4
    ELSE 5

\* The k bytes of a number, most significant first.
Bytes(number, k) == [i \in 1 .. k |-> (number \div 2 ^ (8 * (k - i))) % 256]

\* The condition on length before each byte of der_write_length.
WrittenBytes(length) ==
    IF length >= 2 ^ 24 THEN 4
    ELSE IF length >= 2 ^ 16 THEN 3
    ELSE IF length >= 2 ^ 8 THEN 2
    ELSE 1

der_write_length(length) ==
    IF length < 2 ^ 7
    THEN <<length>>
    ELSE <<der_length_size(length) + 127>> \o Bytes(length, WrittenBytes(length))

tokenSize(oid, body) ==
    LET contents == body + 2 + (IF oid = NoOid THEN 0 ELSE 2 + oid)
    IN  IF oid = NoOid THEN contents ELSE contents + 1 + der_length_size(contents)

\* The bytes of the OID, of which only the number matters.
OidBytes(oid) == [i \in 1 .. oid |-> 43]

makeTokenHeader(oid, body, tokType) ==
    (IF oid = NoOid THEN <<>>
     ELSE <<96>> \o der_write_length(4 + oid + body) \o <<6, oid>> \o OidBytes(oid))
    \o Bytes(tokType, 2)

-----------------------------------------------------------------------------
(***************************************************************************)
(* Reading.  A cursor is the position of the next byte and the number of   *)
(* bytes that the reader believes are left; a failed read has left < 0.    *)
(***************************************************************************)

\* The byte at a position; behind the token and in its body it is unknown, and
\* Body stands for it.
Body == 256
ByteAt(tok, pos) == IF pos \in DOMAIN tok.bytes THEN tok.bytes[pos] ELSE Body

Failed == [pos |-> 0, left |-> -1, value |-> -1]

\* der_read_length: the length and the cursor behind it, or Failed.
der_read_length(tok, pos, left) ==
    LET sf == ByteAt(tok, pos)
        k == sf - 128
    IN  IF left < 1 \/ sf = Body
        THEN Failed
        ELSE IF sf < 128
        THEN [pos |-> pos + 1, left |-> left - 1, value |-> sf]
        ELSE IF k > left - 2 \/ k > 4
        THEN Failed
        ELSE [pos |-> pos + 1 + k,
              left |-> left - 1 - k,
              value |-> FoldLeft(LAMBDA acc, b : acc * 256 + b, 0,
                                 [i \in 1 .. k |-> ByteAt(tok, pos + i)])]

Refused == [status |-> "DEFECTIVE_TOKEN"]

\* The end of verifyTokenHeader, from the token type on.
VerifiedType(tok, pos, left, oid) ==
    IF left - 2 < 0
    THEN Refused
    ELSE [status |-> "COMPLETE",
          oid |-> oid,
          tokType |-> 256 * ByteAt(tok, pos) + ByteAt(tok, pos + 1),
          body |-> left - 2]

\* seqsize != toksize of verifyTokenHeader.
SequenceFits(value, left) == value = left

\* verifyTokenHeader of a token that begins with the mechanism.
VerifiedMech(tok) ==
    LET len == der_read_length(tok, 2, tok.size - 1)
        oid == ByteAt(tok, len.pos + 1)
    IN  IF \/ tok.size < 1
           \/ ByteAt(tok, 1) # 96
           \/ len.value < 0
           \/ ~SequenceFits(len.value, len.left)
           \/ len.left - 2 < 0
           \/ ByteAt(tok, len.pos) # 6
           \/ len.left - 2 - oid < 0
        THEN Refused
        ELSE IF oid = 0
        THEN [status |-> "BAD_MECH"]
        ELSE VerifiedType(tok, len.pos + 2 + oid, len.left - 2 - oid, oid)

verifyTokenHeader(tok, wrapped) ==
    IF wrapped THEN VerifiedMech(tok) ELSE VerifiedType(tok, 1, tok.size, NoOid)

-----------------------------------------------------------------------------
(***************************************************************************)
(* A token's way                                                           *)
(***************************************************************************)

NoToken == [bytes |-> <<>>, size |-> 0]
NoResult == [status |-> "none"]

Init ==
    /\ phase = "make"
    /\ sent \in [oid : OidSizes \cup {NoOid}, body : BodySizes, tokType : TokTypes]
    /\ token = NoToken
    /\ damaged = FALSE
    /\ result = NoResult

\* gssBidMakeToken allocates tokenSize bytes and writes the header and the body.
Make ==
    /\ phase = "make"
    /\ token' = [bytes |-> makeTokenHeader(sent.oid, sent.body, sent.tokType),
                 size |-> tokenSize(sent.oid, sent.body)]
    /\ phase' = "carried"
    /\ UNCHANGED <<sent, damaged, result>>

\* The transport, which is the application's, loses the end of the token or
\* adds bytes to it.
Damage ==
    /\ phase = "carried"
    /\ ~damaged
    /\ \E d \in Damages :
          /\ token.size + d >= 0
          /\ token' = [bytes |-> SubSeq(token.bytes, 1,
                                        IF token.size + d < Len(token.bytes)
                                        THEN token.size + d ELSE Len(token.bytes)),
                       size |-> token.size + d]
    /\ damaged' = TRUE
    /\ UNCHANGED <<phase, sent, result>>

\* gssBidVerifyToken, which expects the mechanism in the first token of a
\* context only.
Verify ==
    /\ phase = "carried"
    /\ result' = verifyTokenHeader(token, sent.oid # NoOid)
    /\ phase' = "verified"
    /\ UNCHANGED <<sent, token, damaged>>

Next == Make \/ Damage \/ Verify

Spec == Init /\ [][Next]_vars

-----------------------------------------------------------------------------
(***************************************************************************)
(* Properties                                                              *)
(***************************************************************************)

\* The header consists of bytes, and all of it is in the token.
TypeOK ==
    /\ phase \in {"make", "carried", "verified"}
    /\ token.size \in Nat
    /\ \A i \in DOMAIN token.bytes : token.bytes[i] \in 0 .. 255
    /\ Len(token.bytes) <= token.size
    /\ damaged \in BOOLEAN

\* tokenSize, which gssBidMakeToken allocates by, and makeTokenHeader with the
\* copy of the body, which fill the buffer, agree to the byte: "The buffer is
\* assumed to be the right size" (util_token.c).
SizeExact ==
    phase = "carried" /\ ~damaged => token.size = Len(token.bytes) + sent.body

\* A token that arrives as it was sent is accepted, with the mechanism, the
\* token type and the body that the sender put in, whatever form the length has.
HeaderRoundTrip ==
    phase = "verified" /\ ~damaged =>
        result = [status |-> "COMPLETE", oid |-> sent.oid, tokType |-> sent.tokType,
                  body |-> sent.body]

\* An initial token that lost its end or was continued by other bytes is
\* refused by verifyTokenHeader, before anything of its body is read.
DamagedRefused ==
    phase = "verified" /\ damaged /\ sent.oid # NoOid => result = Refused
=============================================================================
