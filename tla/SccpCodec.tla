------------------------------ MODULE SccpCodec ------------------------------
(***************************************************************************)
(* The TCAP part of an SCCP unit data (SccpAculabHandler.cc): what         *)
(* EncodeSccpUnitData writes for a message of the application, and what    *)
(* DecodeUnitData makes of a unit data of the stack.  A unit data is the   *)
(* sequence of its bytes; parts of it are nested, each after a tag and its *)
(* length in one byte, or in two when it is above 127.                     *)
(*                                                                         *)
(* Messages are those whose unit data is at most MaxUnitData bytes long:   *)
(* the code counts in single bytes and does not look for more.  Left out   *)
(* are messages whose decoding reads past their end: results without       *)
(* parameters, and all without a component but the aborts.  Of what other  *)
(* systems may send, dialogue portions of indefinite length are left out   *)
(* and so are the tags that only differ in a permission or in not being    *)
(* the last, which are read as the ones here.                              *)
(***************************************************************************)
EXTENDS Integers, Sequences

CONSTANTS
  DataLengths,   (* the lengths of the parameters a component may have       *)
  OpCodes,       (* operation codes                                          *)
  TransIds       (* transaction ids, 0: none                                 *)

MaxUnitData == 255

(* An operation code or a transaction id: four bytes.                       *)
Number == {v \in Nat : v \div (256 * 256 * 256) < 256}

ASSUME CodecAssumption ==
  DataLengths \subseteq Nat /\ OpCodes \subseteq Number /\ TransIds \subseteq Number

PkgTag  == [BEGIN |-> 226, END |-> 228, CONTINUE |-> 229,
            UNIDIRECTIONAL |-> 232, ABORT |-> 246]
CompTag == [INVOKE |-> 233, RESULT |-> 234, ERROR |-> 235, REJECT |-> 236]

DlgPortion == 107
CompPortion == 232
TransId == 199
InvokeId == 207
LinkedId == 218
ParamSequence == 242
ParamSet == 243
NationalOp == 208
PrivateOp == 209
NationalErr == 211
PrivateErr == 212
UAbort == 107      (* the tag of the dialogue portion as well                *)
PAbort == 74

(* A component; code is an error's code, or a reject's problem, codeType the *)
(* kind of either.                                                           *)
Comp == [kind |-> "NONE", invokeId |-> 0, linkedId |-> 0, isPrivate |-> FALSE,
         op |-> 0, codeType |-> 0, code |-> << >>, data |-> << >>]

Invoke(id, linked, private, op, data) ==
  [Comp EXCEPT !.kind = "INVOKE", !.invokeId = id, !.linkedId = linked,
               !.isPrivate = private, !.op = op, !.data = data]
Result(id, private, op, data) ==
  [Comp EXCEPT !.kind = "RESULT", !.invokeId = id, !.isPrivate = private,
               !.op = op, !.data = data]
Error(id, type, code, data) ==
  [Comp EXCEPT !.kind = "ERROR", !.invokeId = id, !.codeType = type,
               !.code = code, !.data = data]
Reject(id, type, code) ==
  [Comp EXCEPT !.kind = "REJECT", !.invokeId = id, !.codeType = type,
               !.code = << code >>]

(* The abort part, of the network or of the user.  Only the decoder fills it *)
(* in: what the application puts there is not written.                       *)
Abort(type, reason) == [type |-> type, reason |-> reason]
NoAbort == Abort("NULL", << >>)

Message(pkg, orig, dest, dlgPdu, comp) ==
  [pkg |-> pkg, orig |-> orig, dest |-> dest, dlgPdu |-> dlgPdu, comp |-> comp,
   abort |-> NoAbort]

-----------------------------------------------------------------------------
(* A number in n bytes, the highest first, and back: at most four are read.  *)
Unit == << 1, 256, 256 * 256, 256 * 256 * 256 >>
BytesOf(v, n) == [i \in 1 .. n |-> (v \div Unit[n - i + 1]) % 256]

Shift(v, bytes, i) == IF i > Len(bytes) THEN v ELSE v * 256 + bytes[i]
ValueOf(bytes) == Shift(Shift(Shift(Shift(0, bytes, 1), bytes, 2), bytes, 3), bytes, 4)

Shortest(v) == IF v > 16777215 THEN 4 ELSE IF v > 65535 THEN 3 ELSE IF v > 255 THEN 2 ELSE 1

WithLength(s) ==
  (IF Len(s) > 127 THEN << 129, Len(s) >> ELSE << Len(s) >>) \o s

EncodeOp(c) ==
  << IF c.isPrivate THEN PrivateOp ELSE NationalOp, Shortest(c.op) >>
    \o BytesOf(c.op, Shortest(c.op))

(* What follows the ids of a component.  The length of a result's parameters *)
(* is written in one byte, for an operation code of two.                     *)
EncodeBody(c) ==
  CASE c.kind = "INVOKE" -> EncodeOp(c) \o c.data
    [] c.kind = "RESULT" ->
         << ParamSequence, Len(c.data) + 4 >> \o EncodeOp(c) \o c.data
    [] c.kind = "ERROR"  -> << NationalErr, 1, c.code[1] >> \o c.data
    [] c.kind = "REJECT" -> << c.codeType, 1, c.code[1] >>

EncodeComponent(c) ==
  << CompPortion >> \o WithLength(<< CompTag[c.kind] >> \o WithLength(
    << InvokeId, 1, c.invokeId >>
      \o (IF c.kind = "INVOKE" /\ c.linkedId # 0 THEN << LinkedId, 1, c.linkedId >> ELSE << >>)
      \o EncodeBody(c)))

EncodeTransIds(m) ==
  CASE m.pkg = "CONTINUE" -> << 8 >> \o BytesOf(m.orig, 4) \o BytesOf(m.dest, 4)
    [] m.pkg \in {"END", "ABORT"} ->
         << 4 >> \o BytesOf(IF m.dest # 0 THEN m.dest ELSE m.orig, 4)
    [] OTHER -> << 4 >> \o BytesOf(m.orig, 4)

EncodeSccpUnitData(m) ==
  << PkgTag[m.pkg] >> \o WithLength(
    << TransId >> \o EncodeTransIds(m)
      \o (IF m.dlgPdu = << >> THEN << >> ELSE << DlgPortion >> \o m.dlgPdu)
      \o (IF m.comp.kind = "NONE" THEN << >> ELSE EncodeComponent(m.comp)))

-----------------------------------------------------------------------------
From(s, i) == SubSeq(s, i, Len(s))
NamedBy(tags, tag) == CHOOSE name \in DOMAIN tags : tags[name] = tag

Discarded == [pkg |-> "none"]

(* What follows the length at the head of s, and the part it is the length   *)
(* of.  128 stands for a part that ends with two bytes of 0.                 *)
PastLength(s) == From(s, IF s[1] = 129 THEN 3 ELSE 2)
AfterLength(s) == IF s[1] = 128 THEN SubSeq(s, 2, Len(s) - 2) ELSE PastLength(s)
PartShort(s) ==        (* a slip: the second length byte counts as content  *)
  CASE s[1] = 129 -> SubSeq(s, 3, s[2] + 1)
    [] s[1] = 128 -> AfterLength(s)
    [] OTHER      -> SubSeq(s, 2, s[1] + 1)

Part(s) ==
  CASE s[1] = 129 -> SubSeq(s, 3, s[2] + 2)
    [] s[1] = 128 -> AfterLength(s)
    [] OTHER      -> SubSeq(s, 2, s[1] + 1)

(* An operation code, and what follows it.                                   *)
HasOp(s) == s # << >> /\ s[1] \in {NationalOp, PrivateOp}
DecodeOp(c, s) ==
  [c EXCEPT !.isPrivate = s[1] = PrivateOp, !.op = ValueOf(SubSeq(s, 3, s[2] + 2)),
            !.data = From(s, s[2] + 3)]

DecodeResult(c, s) ==
  IF s[1] \notin {ParamSequence, ParamSet} THEN c
  ELSE LET params == PastLength(Tail(s)) IN
       IF HasOp(params) THEN DecodeOp(c, params) ELSE [c EXCEPT !.data = params]

DecodeBody(c, s) ==
  CASE c.kind = "INVOKE" -> IF HasOp(s) THEN DecodeOp(c, s) ELSE Comp
    [] c.kind = "RESULT" -> DecodeResult(c, s)
    [] c.kind = "ERROR"  -> IF s[1] \in {NationalErr, PrivateErr}
                            THEN [c EXCEPT !.codeType = s[1], !.code = SubSeq(s, 3, s[2] + 2),
                                           !.data = From(s, s[2] + 3)]
                            ELSE Comp
    [] c.kind = "REJECT" -> [c EXCEPT !.codeType = s[1], !.code = << s[3] >>]

(* A tag, the length 1 and an id, if it is there.                            *)
HasId(s, tag) == s # << >> /\ s[1] = tag
IdOf(s, tag) == IF HasId(s, tag) THEN s[3] ELSE 0
PastId(s, tag) == IF HasId(s, tag) THEN From(s, 4) ELSE s

DecodeComponent(s) ==
  LET comp == AfterLength(s)
      ids == Part(Tail(comp))
      linked == PastId(ids, InvokeId)
  IN IF \A kind \in DOMAIN CompTag : CompTag[kind] # comp[1] THEN Comp
     ELSE DecodeBody([Comp EXCEPT !.kind = NamedBy(CompTag, comp[1]),
                                  !.invokeId = IdOf(ids, InvokeId),
                                  !.linkedId = IdOf(linked, LinkedId)],
                     PastId(linked, LinkedId))

(* The transaction ids are four bytes each: one, which is the peer's of the  *)
(* package only in a response, or both.                                      *)
DecodeTransIds(m, s) ==
  LET first == ValueOf(SubSeq(s, 2, 5)) IN
  CASE s[1] = 8         -> [m EXCEPT !.orig = first, !.dest = ValueOf(SubSeq(s, 6, 9))]
    [] m.pkg = "END"    -> [m EXCEPT !.dest = first]
    [] OTHER            -> [m EXCEPT !.orig = first]

DecodeDlg(m, s) ==
  IF s[1] # DlgPortion THEN m
  ELSE [m EXCEPT !.dlgPdu = SubSeq(s, 1, IF s[2] = 129 THEN s[3] + 3 ELSE s[2] + 2)]

(* What follows the ids of an abort: the reason of the network is one byte,  *)
(* that of the user has its length in one byte.                              *)
DecodeAbort(m, s) ==
  LET tag == IF s = << >> THEN 0 ELSE s[1]
  IN [m EXCEPT !.abort = IF tag = UAbort THEN Abort("U", SubSeq(s, 3, s[2] + 2))
                         ELSE IF tag = PAbort THEN Abort("P", << s[3] >>)
                         ELSE NoAbort]

(* What follows the ids of any other package: a dialogue portion, a          *)
(* component, or one after the other.                                        *)
DecodePortions(m, s) ==
  LET dlg == DecodeDlg(m, s)
      next == From(s, Len(dlg.dlgPdu) + 1)
      comp == DecodeComponent(Tail(next))
  IN IF next[1] = CompPortion
     THEN IF comp = Comp THEN Discarded ELSE [dlg EXCEPT !.comp = comp]
     ELSE IF s[1] = DlgPortion THEN dlg ELSE Discarded

DecodeUnitData(s) ==
  LET content == AfterLength(Tail(s))
      ids == Tail(content)
      pkg == NamedBy(PkgTag, s[1])
      m == DecodeTransIds(Message(pkg, 0, 0, << >>, Comp), ids)
      rest == From(ids, ids[1] + 2)
  IN IF \/ \A name \in DOMAIN PkgTag : PkgTag[name] # s[1]
        \/ content[1] # TransId \/ ids[1] \notin {4, 8}
     THEN Discarded
     ELSE IF pkg = "ABORT" THEN DecodeAbort(m, rest) ELSE DecodePortions(m, rest)

-----------------------------------------------------------------------------
(* The messages the application may give: components of four kinds, with any *)
(* parameters, and a dialogue portion or none; an abort may have no component.*)
Octet == 0 .. 255
Octets == Seq(Octet)

AnyComponent ==
  {Invoke(id, linked, private, op, data) :
     id \in Octet, linked \in Octet, private \in BOOLEAN, op \in Number, data \in Octets}
  \cup {Result(id, private, op, data) :
     id \in Octet, private \in BOOLEAN, op \in Number, data \in Octets \ {<< >>}}
  \cup {Error(id, type, code, data) :
     id \in Octet, type \in {NationalErr, PrivateErr}, code \in Octets \ {<< >>}, data \in Octets}
  \cup {Reject(id, type, code) :
     id \in Octet, type \in Octet \ {LinkedId}, code \in Octet}

Fits(m) ==
  /\ Len(EncodeSccpUnitData(m)) <= MaxUnitData
  /\ m.comp # Comp \/ m.pkg = "ABORT"

AnyMessage ==
  {m \in {Message(pkg, orig, dest, dlgPdu, comp) :
            pkg \in DOMAIN PkgTag, orig \in Number, dest \in Number,
            dlgPdu \in {<< >>} \cup {WithLength(s) : s \in Octets},
            comp \in AnyComponent \cup {Comp}} : Fits(m)}

(* Some of them, at every length the parameters may have.                    *)
Filled(n) == [i \in 1 .. n |-> 85]
Data == {Filled(n) : n \in DataLengths}

Components ==
  {Invoke(1, linked, private, op, data) :
     linked \in {0, 2}, private \in BOOLEAN, op \in OpCodes, data \in Data}
  \cup {Result(1, private, op, data) :
     private \in BOOLEAN, op \in OpCodes, data \in Data \ {<< >>}}
  \cup {Error(1, type, code, data) :
     type \in {NationalErr, PrivateErr}, code \in {<< 4 >>, << 4, 5 >>}, data \in Data}
  \cup {Reject(1, 213, 6)}

Messages ==
  {m \in {Message(pkg, orig, dest, dlgPdu, comp) :
            pkg \in DOMAIN PkgTag, orig \in TransIds, dest \in TransIds,
            dlgPdu \in {<< >>} \cup {WithLength(Filled(n)) : n \in {2, 127, 128}},
            comp \in Components \cup {Comp}} : Fits(m)}

(* What arrives of a message is not all that was given.  Lost are the id its *)
(* package does not carry, the component of an abort, all of an error code   *)
(* but its first byte, and that an error was private.  Moved are the id of   *)
(* an abort, which arrives as the sender's, and its dialogue portion, which  *)
(* arrives as the reason of the user.  Any other dialogue portion arrives    *)
(* with the tag it was given without.                                        *)
ArrivingComp(c) ==
  IF c.kind = "ERROR"
  THEN [c EXCEPT !.codeType = NationalErr, !.code = << c.code[1] >>] ELSE c

PeerId(m) == IF m.dest # 0 THEN m.dest ELSE m.orig

ArrivingAbort(m) ==
  IF m.dlgPdu = << >> THEN NoAbort ELSE Abort("U", PastLength(m.dlgPdu))

Arriving(m) ==
  IF m.pkg = "ABORT"
  THEN [Message("ABORT", PeerId(m), 0, << >>, Comp) EXCEPT !.abort = ArrivingAbort(m)]
  ELSE Message(m.pkg,
               IF m.pkg = "END" THEN 0 ELSE m.orig,
               IF m.pkg = "END" THEN PeerId(m) ELSE IF m.pkg = "CONTINUE" THEN m.dest ELSE 0,
               IF m.dlgPdu = << >> THEN << >> ELSE << DlgPortion >> \o m.dlgPdu,
               ArrivingComp(m.comp))

(* A result with 125 bytes of parameters has their length written as 129,    *)
(* which reads as the head of a length in two bytes.                         *)
LooksLong(m) == m.pkg # "ABORT" /\ m.comp.kind = "RESULT" /\ Len(m.comp.data) = 125

(* A dialogue portion of an abort, when its length is in two bytes: 129, the *)
(* first of them, is read as the length and the other as part of the reason. *)
(* That comes out right only if all its bytes are alike.                     *)
LongAbort(m) ==
  /\ m.pkg = "ABORT" /\ Len(m.dlgPdu) > 128
  /\ \E i \in 2 .. Len(m.dlgPdu) : m.dlgPdu[i] # m.dlgPdu[i - 1]

(* A unit data decodes to what arrives of its message, at every length of    *)
(* its parts; results that look long and long aborts, and no other messages, *)
(* are decoded wrongly.                                                      *)
ReadAsWritten(m) == DecodeUnitData(EncodeSccpUnitData(m)) = Arriving(m)
Misread(m) == LooksLong(m) \/ LongAbort(m)

ReadUnlessMisread == \A m \in Messages : ReadAsWritten(m) <=> ~Misread(m)
=============================================================================
