------------------------------- MODULE Packet -------------------------------
(***************************************************************************)
(* How the fields of a message are put into bytes and taken out again      *)
(* (include/core/packet.h): nothing but the order and the widths that      *)
(* writer and reader go by says where a field begins.                      *)
(*                                                                         *)
(* The value of an integer is its bytes, that of a string its characters,  *)
(* that of a list the sequence of its items.  Strings and lists are taken  *)
(* to be shorter than 32768, and Pack's buffer of 8096 bytes to suffice.   *)
(***************************************************************************)
EXTENDS Naturals, Sequences, SequencesExt

Int32(n) == [name |-> n, kind |-> "int", width |-> 4]
Int16(n) == [name |-> n, kind |-> "int", width |-> 2]
Str(n) == [name |-> n, kind |-> "string"]
Ints(n) == [name |-> n, kind |-> "list", items |-> <<Int32("uid")>>]
\* UserMiniInfo::marshallList
Users(n) == [name |-> n, kind |-> "list", items |-> <<Int32("uid"), Str("nickname")>>]

\* A byte that nobody wrote: it lies behind the end of a message, or in a
\* member that is sent without having been set.
Stray == 256
Unset(width) == [i \in 1 .. width |-> Stray]

Bytes(n, width) == [i \in 1 .. width |-> (n \div 256 ^ (width - i)) % 256]

-----------------------------------------------------------------------------
(* Pack *)

PushScalar(field, val) ==
    IF field.kind = "int" THEN val ELSE Bytes(Len(val), 2) \o val

PushScalars(fields, vals) ==
    FlattenSeq([i \in DOMAIN fields |-> PushScalar(fields[i], vals[fields[i].name])])

Push(field, val) ==
    IF field.kind = "list"
    THEN Bytes(Len(val), 2) \o FlattenSeq([i \in DOMAIN val |-> PushScalars(field.items, val[i])])
    ELSE PushScalar(field, val)

\* What marshall() puts behind the header.
Marshall(class, vals) ==
    FlattenSeq([i \in DOMAIN class.writes |->
                    Push(class.writes[i], vals[class.writes[i].name])])

-----------------------------------------------------------------------------
(* Unpack: each pop gives what it took and the place behind it *)

PopInt(body, at, width) ==
    LET Taken(i) == IF at + i - 1 <= Len(body) THEN body[at + i - 1] ELSE Stray
    IN  [val |-> [i \in 1 .. width |-> Taken(i)], at |-> at + width]

\* popInt16 of a length.  Bytes behind the end are taken for a length of 0.
PopLength(body, at) ==
    LET two == PopInt(body, at, 2).val
    IN  IF Stray \in {two[1], two[2]} THEN 0 ELSE 256 * two[1] + two[2]

\* popString: a length beyond what remains gives the empty string.
PopString(body, at) ==
    LET len == PopLength(body, at)
        fits == len <= Len(body) - (at + 1)
    IN  [val |-> IF fits THEN SubSeq(body, at + 2, at + 1 + len) ELSE <<>>,
         at |-> IF fits THEN at + 2 + len ELSE at + 2]

PopScalar(body, at, field) ==
    IF field.kind = "int" THEN PopInt(body, at, field.width) ELSE PopString(body, at)

\* The members that are read one after the other, by Pop.
PopEach(body, at, fields, Pop(_, _, _)) ==
    FoldLeft(LAMBDA r, f : LET p == Pop(body, r.at, f)
                           IN  [val |-> r.val @@ (f.name :> p.val), at |-> p.at],
             [val |-> <<>>, at |-> at], fields)

\* unmarshallList
PopList(body, at, field) ==
    FoldLeft(LAMBDA r, f : LET p == PopEach(body, r.at, f, PopScalar)
                           IN  [val |-> Append(r.val, p.val), at |-> p.at],
             [val |-> <<>>, at |-> at + 2],
             [i \in 1 .. PopLength(body, at) |-> field.items])

PopField(body, at, field) ==
    IF field.kind = "list" THEN PopList(body, at, field) ELSE PopScalar(body, at, field)

\* What unmarshall() makes of the bytes behind the header.
Unmarshall(class, body) == PopEach(body, 1, class.reads, PopField).val
=============================================================================
