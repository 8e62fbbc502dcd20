-------------------------------- MODULE QmiIdl --------------------------------
(***************************************************************************)
(* Encoding and decoding of QMI messages (encdec/qmi_idl_lib.c).            *)
(*                                                                         *)
(* A message is a sequence of TLVs: a type, a length of two bytes, a value. *)
(* Both ends work from tables of the IDL compiler.  The tables of the two   *)
(* ends may be of different versions of a service, the TLVs of a message    *)
(* come in the order of the sender's encoder, and a message may be          *)
(* malformed.  The buffer of the encoder is as large as the largest message *)
(* of its table (qmi_cci_common.c:838), so that its checks of room never    *)
(* fail.                                                                    *)
(***************************************************************************)
EXTENDS Integers, Sequences, SequencesExt

CONSTANTS
  Table,      \* Table[v]: the TLVs of version v of a message, in order
  Structs,    \* Structs[v]: the C structures a program fills in for it
  Responses,  \* the versions that are responses
  Links,      \* pairs of a sender's and a receiver's version
  WrongBytes  \* what a byte of a malformed message may be

(* An element describes a member of a C structure:                           *)
(*   name      the member                                                    *)
(*   type      "generic", "enum", "string", "utf16" or "aggregate"           *)
(*   w         bytes of an item on the wire                                  *)
(*   array     "one", "fixed" or "var"                                       *)
(*   max, sz   most items of an array, bytes of their number                 *)
(*   part      "all", "length" or "data" (the number and the items of an     *)
(*             array are apart), "lengthless" (the number is not sent)       *)
(*   unsigned  of an enumeration                                             *)
(*   sub       the elements of an aggregate                                  *)
(* An element of a table is [t, opt, e]: the T of its TLV, whether that is    *)
(* optional, and the element.  A member of a structure is an item or a       *)
(* sequence of items; an optional one that is not valid is absent.           *)
(* Items of generic type are byte strings (memcpy), enumerations numbers.    *)

ASSUME LinkAssumption == \A l \in Links : {l[1], l[2]} \subseteq DOMAIN Table \cap DOMAIN Structs

Text == {"string", "utf16"}

\* The little-endian bytes of a number, and the number of a byte string.
LE(n, w) == [i \in 1..w |-> (n \div 256^(i-1)) % 256]
LEVal(b) == FoldRight(LAMBDA x, n : x + 256 * n, b, 0)

\* A program reads a text up to its first null character.
Null(e) == IF e.type = "utf16" THEN <<0, 0>> ELSE <<0>>
Cut(e, s) == LET ends == {i \in DOMAIN s : s[i] = Null(e)}
             IN IF ends = {} THEN s
                ELSE SubSeq(s, 1, (CHOOSE i \in ends : \A j \in ends : i <= j) - 1)

-----------------------------------------------------------------------------
(* Three walks over a table: each must advance by what an element occupies.  *)

MaxLen(e) == IF e.array = "one" THEN 0 ELSE e.sz
RefLen(e) == IF e.type = "aggregate" THEN 2 ELSE 0

\* What encoding and decoding an element read after its flags and its offset:
\* the maximum, the place of the number of items, the aggregate's type.
DescLen(e) ==
  MaxLen(e) + (IF e.array = "var" /\ e.type \notin Text THEN 1 ELSE 0) + RefLen(e)

\* mutant: the search forgets that aggregates name their type.
NextLen_NoRef(e) ==
  MaxLen(e) + (IF e.array = "var" /\ e.type # "string" THEN 1 ELSE 0)

\* qmi_idl_next_element: a place for the number of items of UTF16 texts as well.
NextLen(e) ==
  MaxLen(e) + (IF e.array = "var" /\ e.type # "string" THEN 1 ELSE 0) + RefLen(e)

\* The encoder's way past an optional TLV that is not valid: two bytes for a
\* maximum of four.
SkipLen(e) ==
  (IF e.array # "one" /\ e.sz >= 2 THEN 2 ELSE MaxLen(e))
    + (IF e.array = "var" /\ e.type \notin Text THEN 1 ELSE 0) + RefLen(e)

\* The searches see TLV i only if they advanced rightly over those before it.
Reached(v, i) == \A j \in 1..(i-1) : NextLen(Table[v][j].e) = DescLen(Table[v][j].e)

\* The place of T in the table, 0 if it is not found.
FindTlv(v, t) ==
  LET at == {i \in DOMAIN Table[v] : Table[v][i].t = t /\ Reached(v, i)}
  IN IF at = {} THEN 0 ELSE CHOOSE i \in at : TRUE

\* The mandatory TLVs, which come before all optional ones.
Mandatory(v) ==
  {Table[v][i].t : i \in {k \in DOMAIN Table[v] :
                            \A j \in 1..k : ~Table[v][j].opt /\ Reached(v, j)}}

-----------------------------------------------------------------------------
(* Encoding                                                                 *)

\* The items of an array or text are not more than its maximum.
RECURSIVE Fits(_, _)
Fits(e, s) ==
  LET x == s[e.name] IN
  /\ e.array = "var" => Len(x) <= e.max
  /\ e.type = "aggregate" =>
       \A y \in IF e.array = "one" THEN {x} ELSE ToSet(x) :
         \A i \in DOMAIN e.sub : Fits(e.sub[i], y)

\* Whether the number of items is on the wire: a text of the top level has the
\* length of its TLV.
HasNumber(e, top) ==
  /\ e.array = "var" /\ e.part \notin {"data", "lengthless"}
  /\ ~(e.type = "string" /\ top)

\* qmi_idl_encode_length
EncodeLength(e, n) == LE(n, e.sz)

\* qmi_idl_encode_element
RECURSIVE EncodeElement(_, _, _)
EncodeElement(e, s, top) ==
  LET x     == IF e.array = "one" THEN <<s[e.name]>> ELSE s[e.name]
      items == IF e.type \in Text THEN Cut(e, x) ELSE x
      Item(y) == CASE e.type = "enum"      -> LE(y, e.w)
                   [] e.type = "aggregate" ->
                        FlattenSeq([i \in DOMAIN e.sub |-> EncodeElement(e.sub[i], y, FALSE)])
                   [] OTHER                -> y
  IN (IF HasNumber(e, top) THEN EncodeLength(e, Len(items)) ELSE <<>>)
       \o (IF e.part = "length" THEN <<>>
           ELSE FlattenSeq([i \in DOMAIN items |-> Item(items[i])]))

\* qmi_idl_message_encode_v6: the TLVs of the members that are valid.
Valid(tlv, s) == tlv.opt => tlv.e.name \in DOMAIN s

EncodeMessage(v, s) ==
  LET tlvs == SelectSeq(Table[v], LAMBDA tlv : Valid(tlv, s)) IN
  [i \in DOMAIN tlvs |-> [t |-> tlvs[i].t, v |-> EncodeElement(tlvs[i].e, s, TRUE)]]

\* The error it returns: an array too big, or no meaning at all after a wrong step
\* over a TLV left out.
EncodeError(v, s) ==
  CASE \E i \in 1..(Len(Table[v]) - 1) :
         /\ ~Valid(Table[v][i], s)
         /\ SkipLen(Table[v][i].e) # DescLen(Table[v][i].e) -> "lost"
    [] \E i \in DOMAIN Table[v] : Valid(Table[v][i], s) /\ ~Fits(Table[v][i].e, s) -> "too_big"
    [] OTHER -> "none"

Wire(tlvs) ==
  FlattenSeq([i \in DOMAIN tlvs |-> <<tlvs[i].t>> \o LE(Len(tlvs[i].v), 2) \o tlvs[i].v])

-----------------------------------------------------------------------------
(* Decoding: a result is the error, the bytes left and the structure so far. *)

Result(err, rest, s) == [err |-> err, rest |-> rest, s |-> s]
Put(s, name, x) == [n \in DOMAIN s \cup {name} |-> IF n = name THEN x ELSE s[n]]
Drop(b, n) == SubSeq(b, n + 1, Len(b))

\* How many items follow.
Number(e, b, s, top) ==
  CASE e.array = "one"   -> 1
    [] e.array = "fixed" -> e.max
    [] e.type = "string" /\ top -> Len(b)
    [] e.part = "data"       -> Len(s[e.name])
    [] e.part = "lengthless" -> Len(b) \div e.w
    [] OTHER -> IF Len(b) < e.sz THEN 0
                ELSE LEVal(SubSeq(b, 1, IF e.sz = 1 THEN 1 ELSE 2))

NumberLen(e, top) == IF HasNumber(e, top) THEN e.sz ELSE 0

\* mutant: texts have no maximum.
TooMany_NotText(e, n) == e.array = "var" /\ e.type \notin Text /\ n > e.max

TooMany(e, n) == e.array = "var" /\ n > e.max

EnumVal(e, b) == LET n == LEVal(b) IN
                 IF ~e.unsigned /\ n >= 2^(8 * e.w - 1) THEN n - 2^(8 * e.w) ELSE n

\* qmi_idl_decode_element
RECURSIVE DecodeElement(_, _, _, _)
DecodeElement(e, b, s, top) ==
  LET n     == Number(e, b, s, top)
      data  == Drop(b, NumberLen(e, top))
      Part(i) == SubSeq(data, (i-1) * e.w + 1, i * e.w)
      Item(i) == IF e.type = "enum" THEN EnumVal(e, Part(i)) ELSE Part(i)
      Zero  == [i \in 1..e.w |-> 0]
      Value(x) == IF e.array = "one" THEN x[1] ELSE x
      Member(r, sub) == IF r.err # "none" THEN r ELSE DecodeElement(sub, r.rest, r.s, FALSE)
      Next1(r, i) ==     \* one aggregate more
        IF r.err # "none" THEN r ELSE
        LET m == FoldLeft(Member, Result("none", r.rest, <<>>), e.sub)
        IN Result(m.err, m.rest, Append(r.s, m.s))
      all == FoldLeft(Next1, Result("none", data, <<>>), [i \in 1..n |-> i])
  IN CASE Len(b) < NumberLen(e, top) -> Result("length", b, s)
       [] TooMany(e, n)              -> Result("too_big", b, s)
       [] e.part = "length"          -> Result("none", data, Put(s, e.name, [i \in 1..n |-> Zero]))
       [] e.type = "aggregate"       ->
            Result(all.err, all.rest, IF all.err = "none" THEN Put(s, e.name, Value(all.s)) ELSE s)
       [] n * e.w > Len(data)        -> Result("length", data, s)
       [] OTHER -> Result("none", Drop(data, n * e.w), Put(s, e.name, Value([i \in 1..n |-> Item(i)])))

-----------------------------------------------------------------------------
(* qmi_idl_message_decode_v6, one step of its loop at a time.                *)

\* The decoder's variables: the bytes to come, the TLVs found, the structure, the
\* result byte of a response, the error, and whether it has returned.
NoMessage == [src |-> <<>>, found |-> {}, s |-> <<>>, resp_error |-> 0,
              err |-> "none", done |-> FALSE]
Start(b) == [NoMessage EXCEPT !.src = b]
Return(rx, err) == [rx EXCEPT !.err = err, !.done = TRUE]

SkipTlv(rx, t, rest) ==
  IF t < 16 THEN Return(rx, "unknown_mandatory") ELSE [rx EXCEPT !.src = rest]

TakeTlv(v, rx, i, val, rest) ==
  LET t == Table[v][i].t
      r == DecodeElement(Table[v][i].e, val, rx.s, TRUE)
  IN CASE t \in rx.found    -> Return(rx, "duplicated")
       [] r.err # "none"    -> Return(rx, r.err)
       [] r.rest # <<>>     -> Return(rx, "length")
       [] OTHER -> [rx EXCEPT !.src = rest, !.found = @ \cup {t}, !.s = r.s,
                              !.resp_error = IF v \in Responses /\ t = 2 THEN val[1] ELSE @]

\* Missing TLVs do not matter in a response that reports an error.
Finish(v, rx) ==
  Return(rx, IF rx.resp_error = 0 /\ ~(Mandatory(v) \subseteq rx.found) THEN "missing" ELSE "none")

DecodeStep(v, rx) ==
  LET len  == LEVal(SubSeq(rx.src, 2, 3))
      body == Drop(rx.src, 3)
      i    == FindTlv(v, rx.src[1])
  IN CASE rx.src = <<>>    -> Finish(v, rx)
       [] Len(rx.src) < 3  -> Return(rx, "length")
       [] len > Len(body)  -> Return(rx, "length")
       [] i = 0            -> SkipTlv(rx, rx.src[1], Drop(body, len))
       [] OTHER -> TakeTlv(v, rx, i, SubSeq(body, 1, len), Drop(body, len))

RECURSIVE Decode(_, _)
Decode(v, rx) == IF rx.done THEN rx ELSE Decode(v, DecodeStep(v, rx))

-----------------------------------------------------------------------------
VARIABLES
  link,   \* the versions of the two ends
  sent,   \* what was sent: a structure, or that the request failed
  tlvs,   \* the message on its way
  wire,   \* its bytes as they arrive
  sound,  \* FALSE if the message is malformed
  pc,     \* what comes next: "send", "transfer", "receive", "decode" or "end"
  rx      \* the decoder

vars == <<link, sent, tlvs, wire, sound, pc, rx>>

NoStruct == [kind |-> "none", s |-> <<>>]

Init ==
  /\ link \in Links /\ sent = NoStruct /\ tlvs = <<>> /\ wire = <<>>
  /\ sound = TRUE /\ pc = "send" /\ rx = NoMessage

\* A program's structure is encoded; an array over its maximum is refused.
Send ==
  /\ pc = "send"
  /\ \E s \in Structs[link[1]] :
       LET err == EncodeError(link[1], s) IN
       /\ sent' = [kind |-> "struct", s |-> s]
       /\ tlvs' = IF err = "none" THEN EncodeMessage(link[1], s) ELSE <<>>
       /\ pc' = IF err = "none" THEN "transfer" ELSE "end"
  /\ UNCHANGED <<link, wire, sound, rx>>

\* qmi_idl_encode_resp_tlv: the service library answers a request that it or the
\* service refuses with the standard response and nothing else.
SendError ==
  /\ pc = "send" /\ link[1] \in Responses
  /\ tlvs' = <<[t |-> 2, v |-> LE(1, 2) \o LE(3, 2)]>>
  /\ sent' = [kind |-> "error", s |-> <<>>] /\ pc' = "transfer"
  /\ UNCHANGED <<link, wire, sound, rx>>

\* Another encoder may write the TLVs in another order.
Transfer ==
  /\ pc = "transfer"
  /\ \E order \in {f \in [DOMAIN tlvs -> DOMAIN tlvs] : IsInjective(f)} :
       wire' = Wire([i \in DOMAIN tlvs |-> tlvs[order[i]]])
  /\ pc' = "receive"
  /\ UNCHANGED <<link, sent, tlvs, sound, rx>>

\* A message that its sender cut short, or repeated a TLV in, or wrote a wrong byte
\* of.
Malform ==
  /\ pc = "receive" /\ sound
  /\ \/ \E n \in 0..(Len(wire) - 1) : wire' = SubSeq(wire, 1, n)
     \/ \E i \in DOMAIN tlvs : wire' = wire \o Wire(<<tlvs[i]>>)
     \/ \E i \in DOMAIN wire, b \in WrongBytes : wire' = [wire EXCEPT ![i] = b]
  /\ sound' = FALSE
  /\ UNCHANGED <<link, sent, tlvs, pc, rx>>

Receive ==
  /\ pc = "receive"
  /\ rx' = Start(wire) /\ pc' = "decode"
  /\ UNCHANGED <<link, sent, tlvs, wire, sound>>

DecodeLoop ==
  /\ pc = "decode"
  /\ rx' = DecodeStep(link[2], rx)
  /\ pc' = IF rx'.done THEN "end" ELSE "decode"
  /\ UNCHANGED <<link, sent, tlvs, wire, sound>>

Next == Send \/ SendError \/ Transfer \/ Malform \/ Receive \/ DecodeLoop

Spec == Init /\ [][Next]_vars

-----------------------------------------------------------------------------
Types(v)   == {Table[v][i].t : i \in DOMAIN Table[v]}
Required(v) == {Table[v][i].t : i \in {j \in DOMAIN Table[v] : ~Table[v][j].opt}}
Written    == IF sent.kind = "error" THEN {2}
              ELSE {Table[link[1]][i].t : i \in {j \in DOMAIN Table[link[1]] : Valid(Table[link[1]][j], sent.s)}}

\* The message is a response that reports a failure.
Failure ==
  sent.kind = "error" \/ (link[1] \in Responses /\ sent.s.resp.result # 0)

\* What a program sends is what the other end's program gets, whatever the versions
\* of the two and the order of the TLVs: the members both know, the optional ones
\* among them absent or present as at the sender; a TLV that only the receiver does
\* not know is refused if it is mandatory and passed over if it is optional, and a
\* message without a TLV the receiver requires is refused unless it reports a failure.
\* A structure is refused at the sender only if an array in it is over its maximum.
Delivered ==
  /\ pc = "end" /\ ~rx.done =>
       \E i \in DOMAIN Table[link[1]] :
         Valid(Table[link[1]][i], sent.s) /\ ~Fits(Table[link[1]][i].e, sent.s)
  /\ rx.done /\ sound =>
    LET common == Written \cap Types(link[2])
        members == {Table[link[2]][i].e.name : i \in {j \in DOMAIN Table[link[2]] : Table[link[2]][j].t \in common}}
    IN IF \E t \in Written \ Types(link[2]) : t < 16 THEN rx.err = "unknown_mandatory"
       ELSE IF ~Failure /\ ~(Required(link[2]) \subseteq Written) THEN rx.err = "missing"
       ELSE /\ rx.err = "none" /\ rx.found = common
            /\ sent.kind = "struct" => rx.s = [n \in members |-> sent.s[n]]

\* Whatever bytes arrive, a structure that the decoder passes to the program is one
\* a program could have sent: no array or text is over its maximum, and the message
\* it is encoded to is decoded to a structure with the same encoding.
Accepted ==
  rx.done /\ rx.err = "none" =>
    LET v == link[2] IN
    /\ \A i \in DOMAIN Table[v] : Table[v][i].t \in rx.found => Fits(Table[v][i].e, rx.s)
    /\ rx.resp_error = 0 =>
         LET message == EncodeMessage(v, rx.s)
             again   == Decode(v, Start(Wire(message)))
         IN again.err = "none" /\ EncodeMessage(v, again.s) = message
=============================================================================
