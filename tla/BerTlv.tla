------------------------------- MODULE BerTlv -------------------------------
(***************************************************************************)
(* BER as the codecs of this code use it. A PDU is a tree: a TLV has the   *)
(* octets of its identifier and a content, which is a sequence of TLVs     *)
(* when the TLV is constructed and a value when it is primitive. Integers  *)
(* and identifiers are kept as octets, names and other payloads as they    *)
(* are, and lengths are the nesting of the tree.                           *)
(*                                                                         *)
(* What a reader returns is a sequence: empty when it fails, else with the *)
(* value as its only element. An optional value has the same form.         *)
(***************************************************************************)
EXTENDS Integers, Sequences, SequencesExt

Failed == <<>>
Ok(v) == <<v>>
Then(r, F(_)) == IF r = Failed THEN Failed ELSE F(r[1])

-----------------------------------------------------------------------------
(* Identifiers (tag.rs): from 31 on the number has octets of its own, seven *)
(* bits each, and every octet but the last says that one more follows.      *)

Tag(class, number, constructed) ==
  [class |-> class, number |-> number, constructed |-> constructed]
Universal(n) == Tag(0, n, FALSE)
Application(n) == Tag(1, n, TRUE)
Constr(n) == Tag(2, n, TRUE)
Prim(n) == Tag(2, n, FALSE)
SEQUENCE == Tag(0, 16, TRUE)
INTEGER == Universal(2)
OID == Universal(6)
VisibleString == Universal(26)

Base128[n \in Nat] == IF n < 128 THEN <<n>> ELSE Base128[n \div 128] \o <<n % 128>>

EncodeTag(t) ==
  LET first == 64 * t.class + (IF t.constructed THEN 32 ELSE 0)
      number == Base128[t.number]
  IN  IF t.number < 31 THEN <<first + t.number>>
      ELSE <<first + 31>>
             \o [i \in DOMAIN number |-> number[i] + IF i < Len(number) THEN 128 ELSE 0]

DecodeTag(id) ==
  LET first == Head(id)
  IN  Tag(first \div 64,
          IF first % 32 # 31 THEN first % 32
          ELSE FoldLeft(LAMBDA n, o : 128 * n + (o % 128), 0, Tail(id)),
          (first \div 32) % 2 = 1)

-----------------------------------------------------------------------------
(* Integers (prim.rs): the shortest two's complement; an unsigned one gets  *)
(* a zero in front when it would read as negative. MaxOctets stands for     *)
(* eight.                                                                   *)
MaxOctets == 3

Octets(v, n) == [i \in 1..n |-> (v \div 256 ^ (n - i)) % 256]

EncodeInteger(v) ==
  LET n == CHOOSE n \in 1..MaxOctets :
             /\ -(256 ^ n \div 2) <= v /\ v < 256 ^ n \div 2
             /\ n = 1 \/ ~(-(256 ^ (n - 1) \div 2) <= v /\ v < 256 ^ (n - 1) \div 2)
  IN  Octets(v, n)

DecodeInteger(os) ==
  IF os = <<>> \/ Len(os) > MaxOctets THEN Failed
  ELSE LET first == IF Head(os) >= 128 THEN Head(os) - 256 ELSE Head(os)
       IN  Ok(FoldLeft(LAMBDA n, o : 256 * n + o, first, Tail(os)))

EncodeUnsigned(v) ==
  LET n == CHOOSE n \in 1..MaxOctets : v < 256 ^ n /\ (n = 1 \/ v >= 256 ^ (n - 1))
      os == Octets(v, n)
  IN  IF Head(os) >= 128 THEN <<0>> \o os ELSE os

DecodeUnsigned(os) ==
  LET trimmed == IF os # <<>> /\ Head(os) = 0 /\ Len(os) > 1 THEN Tail(os) ELSE os
  IN  IF trimmed = <<>> \/ Len(trimmed) > MaxOctets THEN Failed
      ELSE Ok(FoldLeft(LAMBDA n, o : 256 * n + o, 0, trimmed))

-----------------------------------------------------------------------------
(* The writer (writer.rs).                                                  *)
Tlv(t, content) == [id |-> EncodeTag(t), content |-> content]
Optional(t, o) == IF o = <<>> THEN <<>> ELSE <<Tlv(t, o[1])>>
WriteInteger(t, v) == Tlv(t, EncodeInteger(v))
WriteUnsigned(t, v) == Tlv(t, EncodeUnsigned(v))
WriteNull(t) == Tlv(t, <<>>)

-----------------------------------------------------------------------------
(* The reader (reader.rs). Fields reads TLVs one after the other: one that  *)
(* must come next (expect), or one that may (read_if). What follows is left *)
(* alone. The result has, for every field, its content as an optional value.*)
Must(t) == [tag |-> t, optional |-> FALSE]
May(t) == [tag |-> t, optional |-> TRUE]

NextField(acc, f) ==
  CASE acc.failed -> acc
    [] acc.rest # <<>> /\ DecodeTag(Head(acc.rest).id) = f.tag ->
         [acc EXCEPT !.rest = Tail(@), !.got = Append(@, <<Head(acc.rest).content>>)]
    [] OTHER -> IF f.optional THEN [acc EXCEPT !.got = Append(@, <<>>)]
                ELSE [acc EXCEPT !.failed = TRUE]

Fields(content, spec, F(_)) ==
  LET acc == FoldLeft(NextField, [failed |-> FALSE, rest |-> content, got |-> <<>>], spec)
  IN  IF acc.failed THEN Failed ELSE F(acc.got)

(* The content of the first TLV, of the first in that, and so on.           *)
Inside(content, tags, F(_)) ==
  Then(FoldLeft(LAMBDA r, t : Then(r, LAMBDA c : Fields(c, <<Must(t)>>, LAMBDA f : f[1])),
                Ok(content), tags), F)

(* Every TLV of a list, read by F: one that fails fails the list.           *)
Each(content, F(_)) ==
  LET rs == [i \in DOMAIN content |-> F(content[i])]
  IN  IF \E i \in DOMAIN rs : rs[i] = Failed THEN Failed
      ELSE Ok([i \in DOMAIN rs |-> rs[i][1]])

(* The contents of all the TLVs of a list that have the tag.                *)
Tagged(content, t) ==
  LET found == SelectSeq(content, LAMBDA c : DecodeTag(c.id) = t)
  IN  [i \in DOMAIN found |-> found[i].content]
(* The content of the first one, when there is one (find_child).            *)
FindChild(content, t) ==
  LET found == Tagged(content, t) IN IF found = <<>> THEN <<>> ELSE <<Head(found)>>

(* An optional value that is read by F when it is there.                    *)
IfThere(o, F(_)) ==
  IF o = <<>> THEN Ok(<<>>) ELSE Then(F(o[1]), LAMBDA v : Ok(<<v>>))
OrElse(o, v) == IF o = <<>> THEN v ELSE o[1]
=============================================================================
