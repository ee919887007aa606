------------------------------- MODULE Codec -------------------------------
(***************************************************************************)
(* What the Wiring and Unwiring impls write and read, for the types of     *)
(* wire.rs and unwire.rs and for those the derive macros generate          *)
(* (wiring-derive): a type is a tree of records, a value a tree of         *)
(* numbers, and every size and layout the code derives from the type is    *)
(* an operator on the tree.  Around them, one exchange: a program wires    *)
(* some values, the bytes may be cut short (the writer dies, the buffer    *)
(* is truncated), and the other program unwires them, as the same types or *)
(* as others of the same layout (a &str as a String, pairs as a HashMap).  *)
(*                                                                         *)
(* A program writes with sync_wiring to a Vec<u8>, with sync_wiring to a   *)
(* Cursor<&mut [u8]> that takes so many bytes and no more, or with the     *)
(* async wiring, and reads with sync_unwiring from a slice, asynchronously *)
(* from a stream, or with BufUnWire, whose reader does not check bounds.   *)
(***************************************************************************)
EXTENDS Integers, Sequences, SequencesExt

CONSTANT
  Uses \* [write: sync | slice | async, room, read: slice | async | buffer,
       \*  types and values written, as and reads: the types and values to be read]

VARIABLES
  use,      \* who writes and reads, and what
  next,     \* the next value to write
  buf,      \* the bytes written
  cut,      \* bytes were lost at the end
  full,     \* a write failed: the cursor has no room for it
  slices,   \* sync_wiring_slice: capacity reserved and bytes written without a check
  pos, got, \* bytes consumed and values read
  end       \* "none", "error" or "overrun": the reader went past the buffer

vars == <<use, next, buf, cut, full, slices, pos, got, end>>

-----------------------------------------------------------------------------
\* Types
Prim(n)      == [kind |-> "prim", name |-> n]
Unit         == [kind |-> "unit"]
UnitStruct   == [kind |-> "unit_struct"]
Str          == [kind |-> "string"]
Option(T)    == [kind |-> "option", elem |-> T]
Vec(T)       == [kind |-> "vec", elem |-> T]
BoxSlice(T)  == [kind |-> "box_slice", elem |-> T]
HashSet(T)   == [kind |-> "set", elem |-> T, table |-> 48]
BTreeSet(T)  == [kind |-> "set", elem |-> T, table |-> 24]
HashMap(K, W)  == [kind |-> "map", of |-> <<K, W>>, table |-> 48]
BTreeMap(K, W) == [kind |-> "map", of |-> <<K, W>>, table |-> 24]
Url          == [kind |-> "url"]
Arc(T)       == [kind |-> "arc", elem |-> T]
Array(T, n)  == [kind |-> "array", elem |-> T, len |-> n]
Tuple(ts)    == [kind |-> "tuple", of |-> ts]
\* The fields of each range <<first, last>> are written in one piece (#[fixed] on the first).
Struct(ts, fixed) == [kind |-> "struct", of |-> ts, fixed |-> fixed]
\* One sequence of field types for each variant; tag is the width of the discriminant.
Enum(vs, tag) == [kind |-> "enum", of |-> vs, tag |-> tag]

ConnectInfo == Enum(<<<<Str>>, <<Url>>>>, 1)
WireInfo    == Struct(<<Prim("u64"), Prim("u128"), ConnectInfo>>, {})

PrimSize == [u8 |-> 1, bool |-> 1, u16 |-> 2, u32 |-> 4, f32 |-> 4, u64 |-> 8, f64 |-> 8, u128 |-> 16,
             i8 |-> 1, i16 |-> 2, i32 |-> 4, i64 |-> 8, i128 |-> 16, char |-> 4, usize |-> 8]
Signed == {"i8", "i16", "i32", "i64", "i128"}

Total(s) == FoldLeft(LAMBDA a, n : a + n, 0, s)
Const(n, x) == [i \in 1..n |-> x]

-----------------------------------------------------------------------------
\* Writing

AtMost(n, m) == IF n < m THEN n ELSE m

\* to_be_bytes.  The numbers of the model fit three bytes, with their sign.
ToBytesNoMask(n, size) == [i \in 1..size |-> n \div 256^AtMost(size - i, 3)]
ToBytes(n, size) == [i \in 1..size |-> (n \div 256^AtMost(size - i, 3)) % 256]

\* The length that precedes a slice, a vector, a set or a string: usize as u64.
Length(n) == ToBytes(n, 8)

RECURSIVE WireFixedSize(_)
\* Wiring::FIXED_SIZE
WireFixedSize(T) ==
  CASE T.kind = "prim" -> IF T.name = "char" THEN 0 ELSE PrimSize[T.name]
    [] T.kind = "unit_struct" -> 1
    [] T.kind = "array" -> WireFixedSize(T.elem) * T.len
    [] T.kind \in {"tuple", "struct"} -> Total([i \in DOMAIN T.of |-> WireFixedSize(T.of[i])])
    [] T.kind = "enum" -> T.tag
    [] OTHER -> 0

RECURSIVE WireMixedAll(_)
WireMixedAll(T) ==
  CASE T.kind = "prim" -> T.name \in {"f64", "char", "usize"}
    [] T.kind = "unit_struct" -> FALSE
    [] T.kind = "array" -> WireMixedAll(T.elem)
    [] T.kind = "struct" -> \A i \in DOMAIN T.of : WireMixedAll(T.of[i])
    [] OTHER -> TRUE

RECURSIVE WireMixed(_)
\* Wiring::MIXED.  f64, char and usize do not set it; a pair asks its first part twice.
WireMixed(T) ==
  CASE T.kind = "prim" -> T.name \in {"f64", "char", "usize"}
    [] T.kind = "unit_struct" -> FALSE
    [] T.kind = "array" -> WireMixed(T.elem)
    [] T.kind = "tuple" /\ Len(T.of) = 2 -> WireMixed(T.of[1])
    [] T.kind = "struct" -> \E i \in DOMAIN T.of : WireMixed(T.of[i])
    [] OTHER -> TRUE

RECURSIVE ConcatArray(_, _)
\* concat_array: what is left in a zeroed buffer of FIXED_SIZE bytes.  A type that
\* does not implement it, and an enum variant with fields, leave the zeros.
ConcatArray(T, v) ==
  CASE T.kind = "prim" -> ToBytes(v, WireFixedSize(T))
    [] T.kind = "unit_struct" -> <<1>>
    [] T.kind = "array" -> FlattenSeq([i \in DOMAIN v |-> ConcatArray(T.elem, v[i])])
    [] T.kind \in {"tuple", "struct"} ->
         FlattenSeq([i \in DOMAIN v |-> ConcatArray(T.of[i], v[i])])
    [] T.kind = "enum" /\ T.of[v.variant] = <<>> -> ToBytes(v.variant - 1, T.tag)
    [] OTHER -> Const(WireFixedSize(T), 0)

\* A range of fields under #[fixed]: the async code wires the buffer as a slice, so
\* its length goes first.
FixedPart(how, ts, vs) ==
  LET a == FlattenSeq([i \in DOMAIN vs |-> ConcatArray(ts[i], vs[i])])
  IN IF how = "async" THEN Length(Len(a)) \o a ELSE a

RECURSIVE Wiring(_, _, _)
Each(how, T, v) == FlattenSeq([i \in DOMAIN v |-> Wiring(how, T, v[i])])
Fields(how, ts, v) == FlattenSeq([i \in DOMAIN v |-> Wiring(how, ts[i], v[i])])

\* What field i of a struct adds: the last one of a range adds the range.
Piece(how, T, v, i) ==
  IF \E f \in T.fixed : f[1] <= i /\ i < f[2] THEN <<>>
  ELSE IF \E f \in T.fixed : i = f[2] THEN
    LET first == (CHOOSE f \in T.fixed : i = f[2])[1]
    IN FixedPart(how, SubSeq(T.of, first, i), SubSeq(v, first, i))
  ELSE Wiring(how, T.of[i], v[i])

\* wiring and sync_wiring of a value of type T.  A set is written in the order its
\* hasher gives; any order will do, the reader makes a set of it again.
Wiring(how, T, v) ==
  CASE T.kind = "prim" -> ToBytes(v, PrimSize[T.name])
    [] T.kind \in {"unit", "unit_struct"} -> <<0>>
    [] T.kind \in {"string", "url"} -> Length(Len(v)) \o v
    [] T.kind \in {"vec", "box_slice"} -> Length(Len(v)) \o Each(how, T.elem, v)
    [] T.kind = "set" -> LET s == SetToSeq(v) IN Length(Len(s)) \o Each(how, T.elem, s)
    [] T.kind = "array" -> Each(how, T.elem, v)
    [] T.kind = "arc" -> Wiring(how, T.elem, v)
    [] T.kind = "option" -> IF v = <<>> THEN <<0>> ELSE <<1>> \o Wiring(how, T.elem, v[1])
    [] T.kind = "tuple" -> Fields(how, T.of, v)
    [] T.kind = "struct" -> FlattenSeq([i \in DOMAIN v |-> Piece(how, T, v, i)])
    [] T.kind = "enum" ->
         ToBytes(v.variant - 1, T.tag)
           \o Fields(how, T.of[v.variant], v.fields)

\* sync_wiring_slice: elements that are not MIXED are written without a check into the
\* capacity of the Vec<u8> that their FIXED_SIZE says they need; a cursor checks all the
\* same.  u8 has a slice impl of its own.
Unchecked(how, T) ==
  /\ how = "sync"
  /\ T.kind \in {"vec", "box_slice"}
  /\ ~WireMixed(T.elem)
  /\ T.elem # Prim("u8")

\* What the call for a value of type T wires by further calls, in order.  The fields of
\* a #[fixed] range are not: their bytes are collected first.
Parts(T, v) ==
  CASE T.kind \in {"vec", "box_slice", "array", "option"} -> [i \in DOMAIN v |-> <<T.elem, v[i]>>]
    [] T.kind = "set" -> LET s == SetToSeq(v) IN [i \in DOMAIN s |-> <<T.elem, s[i]>>]
    [] T.kind = "arc" -> <<<<T.elem, v>>>>
    [] T.kind = "tuple" -> [i \in DOMAIN v |-> <<T.of[i], v[i]>>]
    [] T.kind = "struct" ->
         FlattenSeq([i \in DOMAIN v |->
           IF \E f \in T.fixed : i \in f[1]..f[2] THEN <<>> ELSE <<<<T.of[i], v[i]>>>>])
    [] T.kind = "enum" -> [i \in DOMAIN v.fields |-> <<T.of[v.variant][i], v.fields[i]>>]
    [] OTHER -> <<>>

RECURSIVE UncheckedSlices(_, _, _)
\* The unchecked slices of a value, with the capacity each reserves and what all that is
\* in it writes.
UncheckedSlices(how, T, v) ==
  IF Unchecked(how, T)
  THEN <<[reserved |-> Len(v) * WireFixedSize(T.elem), written |-> Len(Each(how, T.elem, v))]>>
  ELSE LET parts == Parts(T, v)
       IN FlattenSeq([i \in DOMAIN parts |-> UncheckedSlices(how, parts[i][1], parts[i][2])])

-----------------------------------------------------------------------------
\* Reading.  A result is a value with the bytes left, or a failure: the input ended,
\* or its data are not those of the type.
Ok(v, rest) == [ok |-> TRUE, val |-> v, rest |-> rest]
Fail(why)   == [ok |-> FALSE, val |-> why, rest |-> <<>>]
Chain(r, Then(_, _)) == IF r.ok THEN Then(r.val, r.rest) ELSE r

Bytes(b, n) == SubSeq(b, 1, n)
Skip(b, n)  == SubSeq(b, n + 1, Len(b))
\* from_be_bytes.  Every larger number is as good as 2^24: no input is that long.
FromBytes(b) ==
  LET high == Len(b) - AtMost(Len(b), 3)
  IN IF \E i \in 1..high : b[i] # 0 THEN 256^3
     ELSE FoldLeft(LAMBDA a, x : 256 * a + x, 0, Skip(b, high))

\* from_be_bytes of the signed integers; bool is any byte but 0.
FromBe(name, b) ==
  CASE name = "bool" -> AtMost(FromBytes(b), 1)
    [] name \in Signed /\ b[1] >= 128 -> -1 - FromBytes([i \in DOMAIN b |-> 255 - b[i]])
    [] OTHER -> FromBytes(b)

\* read_exact
ReadExactShort(b, n) == Ok([i \in 1..AtMost(n, 16) |-> IF i <= Len(b) THEN b[i] ELSE 0], Skip(b, n))
ReadExact(b, n) == IF Len(b) < n THEN Fail("end") ELSE Ok(Bytes(b, n), Skip(b, n))

\* sync_unwire_u8 .. sync_unwire_u64, read_u8 .. read_u128
Number(b, size) == Chain(ReadExact(b, size), LAMBDA v, rest : Ok(FromBytes(v), rest))

\* The async String takes what there is of the length: read_to_string ends at the end
\* of the stream without an error.  The others read exactly.
StringBytes(how, b, n) ==
  IF how = "async" /\ Len(b) < n THEN Ok(b, <<>>) ELSE ReadExact(b, n)

\* Url::from_str takes what starts with a scheme: there is a ":" past the first byte.
IsUrl(v) == \E i \in 2..Len(v) : v[i] = 58

\* insert: the last of the pairs with a key stays.
AsMap(v) == {v[i] : i \in {i \in DOMAIN v : \A j \in DOMAIN v : j > i => v[j][1] # v[i][1]}}

\* The discriminant, read with the width of the tag.
UnwireTagU16(T, b) == Number(b, 2)
UnwireTag(T, b) == Number(b, T.tag)

RECURSIVE Unwiring(_, _, _)
UnwireFields(how, ts, b) ==
  FoldLeft(LAMBDA r, T : Chain(r, LAMBDA v, rest :
             Chain(Unwiring(how, T, rest), LAMBDA x, left : Ok(Append(v, x), left))),
           Ok(<<>>, b), ts)

\* unwiring_vec, sync_unwiring_vec.  An element has a byte at least, so what does not
\* fit the input need not be counted out.
UnwireVec(how, T, b) ==
  Chain(Number(b, 8), LAMBDA n, rest : UnwireFields(how, Const(AtMost(n, Len(rest) + 1), T), rest))

\* unwiring and sync_unwiring
Unwiring(how, T, b) ==
  CASE T.kind = "prim" ->
         Chain(ReadExact(b, PrimSize[T.name]), LAMBDA v, rest : Ok(FromBe(T.name, v), rest))
    [] T.kind \in {"unit", "unit_struct"} ->
         Chain(Number(b, 1), LAMBDA n, rest : IF n = 0 THEN Ok(<<>>, rest) ELSE Fail("data"))
    [] T.kind = "string" -> Chain(Number(b, 8), LAMBDA n, rest : StringBytes(how, rest, n))
    [] T.kind = "url" ->
         Chain(Unwiring(how, Str, b), LAMBDA v, rest : IF IsUrl(v) THEN Ok(v, rest) ELSE Fail("data"))
    [] T.kind \in {"vec", "box_slice"} -> UnwireVec(how, T.elem, b)
    [] T.kind = "set" -> Chain(UnwireVec(how, T.elem, b), LAMBDA v, rest : Ok(ToSet(v), rest))
    [] T.kind = "map" -> Chain(UnwireVec(how, Tuple(T.of), b), LAMBDA v, rest : Ok(AsMap(v), rest))
    [] T.kind = "array" -> UnwireFields(how, Const(T.len, T.elem), b)
    [] T.kind = "arc" -> Unwiring(how, T.elem, b)
    [] T.kind = "option" ->
         Chain(Number(b, 1), LAMBDA n, rest :
           CASE n = 0 -> Ok(<<>>, rest)
             [] n = 1 -> UnwireFields(how, <<T.elem>>, rest)
             [] OTHER -> Fail("data"))
    [] T.kind \in {"tuple", "struct"} -> UnwireFields(how, T.of, b)
    [] T.kind = "enum" ->
         Chain(UnwireTag(T, b), LAMBDA n, rest :
           IF n >= Len(T.of) THEN Fail("data")
           ELSE Chain(UnwireFields(how, T.of[n + 1], rest), LAMBDA v, left :
                  Ok([variant |-> n + 1, fields |-> v], left)))

-----------------------------------------------------------------------------
\* The size of a value in a buffer, which BufUnWire computes before it reads

RECURSIVE UnwireFixedSize(_)
\* Unwiring::FIXED_SIZE.  bool, f32 and f64 do not set it.
UnwireFixedSize(T) ==
  CASE T.kind = "prim" -> IF T.name \in {"bool", "f32", "f64"} THEN 0 ELSE PrimSize[T.name]
    [] T.kind = "unit_struct" -> 1
    [] T.kind = "array" -> UnwireFixedSize(T.elem) * T.len
    [] T.kind \in {"tuple", "struct"} -> Total([i \in DOMAIN T.of |-> UnwireFixedSize(T.of[i])])
    [] OTHER -> 0

RECURSIVE UnwireMixedAll(_)
UnwireMixedAll(T) ==
  CASE T.kind = "prim" -> T.name = "bool"
    [] T.kind = "unit_struct" -> FALSE
    [] T.kind = "array" -> UnwireMixedAll(T.elem)
    [] T.kind \in {"tuple", "struct"} -> \A i \in DOMAIN T.of : UnwireMixedAll(T.of[i])
    [] OTHER -> TRUE

RECURSIVE UnwireMixed(_)
\* Unwiring::MIXED.  bool does not set it; a tuple is mixed if all of its parts are.
UnwireMixed(T) ==
  CASE T.kind = "prim" -> T.name = "bool"
    [] T.kind = "unit_struct" -> FALSE
    [] T.kind = "array" -> UnwireMixed(T.elem)
    [] T.kind = "tuple" -> \A i \in DOMAIN T.of : UnwireMixed(T.of[i])
    [] T.kind = "struct" -> \E i \in DOMAIN T.of : UnwireMixed(T.of[i])
    [] OTHER -> TRUE

\* advance_position of a slice, and the length it adds.
Advance(b, n) == IF n > Len(b) THEN Fail("end") ELSE Ok(n, Skip(b, n))
Plus(n, r) == Chain(r, LAMBDA m, rest : Ok(n + m, rest))

RECURSIVE BytesLength(_, _, _)
SumLengths(ts, b) ==
  FoldLeft(LAMBDA r, T : Chain(r, LAMBDA n, rest : Plus(n, BytesLength(T, rest, 1))),
           Ok(0, b), ts)

\* One round of the loop in bytes_length of the types that have one.
ItemLength(T, b) ==
  CASE T.kind = "string" -> Plus(8, Chain(Number(b, 8), LAMBDA n, rest : Advance(rest, n)))
    [] T.kind = "vec" ->
         Plus(8, Chain(Number(b, 8), LAMBDA n, rest :
           IF UnwireMixed(T.elem) THEN BytesLength(T.elem, rest, n)
           ELSE Advance(rest, UnwireFixedSize(T.elem) * n)))
    [] T.kind = "option" ->
         Plus(1, Chain(Number(b, 1), LAMBDA n, rest :
           IF n = 1 THEN BytesLength(T.elem, rest, 1) ELSE Ok(0, rest)))
    [] T.kind \in {"tuple", "struct"} -> SumLengths(T.of, b)
    [] T.kind = "enum" ->
         Plus(T.tag, Chain(UnwireTag(T, b), LAMBDA n, rest :
           IF n >= Len(T.of) THEN Fail("data") ELSE SumLengths(T.of[n + 1], rest)))

\* Unwiring::bytes_length.  By default it is size_of, which is that of a pointer for
\* Arc and Box, of the table for the sets and the maps, and of the parsed Url.
BytesLength(T, b, count) ==
  CASE T.kind = "prim" -> Advance(b, PrimSize[T.name] * count)
    [] T.kind \in {"unit", "unit_struct"} -> Advance(b, count)
    [] T.kind = "arc" -> Advance(b, 8 * count)
    [] T.kind \in {"set", "map"} -> Advance(b, T.table * count)
    [] T.kind = "url" -> Advance(b, 88 * count)
    [] T.kind = "array" -> BytesLength(T.elem, b, T.len * count)
    [] T.kind = "box_slice" -> BytesLength(T.elem, b, count)
    [] OTHER -> FoldLeft(LAMBDA r, i : Chain(r, LAMBDA n, rest : Plus(n, ItemLength(T, rest))),
                         Ok(0, b), Const(AtMost(count, Len(b) + 1), 0))

-----------------------------------------------------------------------------
\* The exchange

Init ==
  /\ use \in Uses
  /\ next = 1 /\ buf = <<>> /\ cut = FALSE /\ full = FALSE
  /\ slices = {}
  /\ pos = 0 /\ got = <<>> /\ end = "none"

Written == full \/ next > Len(use.types)
Encoded == Wiring(use.write, use.types[next], use.values[next])
Fits == use.write = "slice" => Len(buf \o Encoded) <= use.room

\* A value is wired.
Wire ==
  /\ ~Written /\ Fits
  /\ buf' = buf \o Encoded
  /\ slices' = slices \cup ToSet(UncheckedSlices(use.write, use.types[next], use.values[next]))
  /\ next' = next + 1
  /\ UNCHANGED <<use, cut, full, pos, got, end>>

\* write_all fills the cursor and fails; what is there of the value stays.
WireFails ==
  /\ ~Written /\ ~Fits
  /\ buf' = Bytes(buf \o Encoded, use.room)
  /\ full' = TRUE
  /\ UNCHANGED <<use, next, cut, slices, pos, got, end>>

\* The end of what was written never arrives.
Cut ==
  /\ Written /\ ~cut /\ got = <<>> /\ end = "none"
  /\ \E k \in 0..(Len(buf) - 1) : buf' = Bytes(buf, k)
  /\ cut' = TRUE
  /\ UNCHANGED <<use, next, full, slices, pos, got, end>>

\* UnsafeReader::sync_unwire: the length is taken from the start of the buffer, on a
\* copy of the slice, and compared with what is left from the position on.
CanRead(T) ==
  LET r == BytesLength(T, buf, 1) IN r.ok /\ pos + r.val <= Len(buf)

Reading == Written /\ end = "none" /\ Len(got) < Len(use.as)
Type == use.as[Len(got) + 1]
Result == Unwiring(use.read, Type, Skip(buf, pos))

\* A value is unwired.
Unwire ==
  /\ Reading
  /\ use.read = "buffer" => CanRead(Type)
  /\ Result.ok
  /\ got' = Append(got, Result.val)
  /\ pos' = Len(buf) - Len(Result.rest)
  /\ UNCHANGED <<use, next, buf, cut, full, slices, end>>

\* BufUnWire does not start on a value that it finds too long.
Reject ==
  /\ Reading
  /\ use.read = "buffer" /\ ~CanRead(Type)
  /\ end' = "error"
  /\ UNCHANGED <<use, next, buf, cut, full, slices, pos, got>>

\* Reading fails; UnsafeReader does not notice the end of the buffer, it reads on.
UnwireFails ==
  /\ Reading
  /\ use.read = "buffer" => CanRead(Type)
  /\ ~Result.ok
  /\ end' = IF use.read = "buffer" /\ Result.val = "end" THEN "overrun" ELSE "error"
  /\ UNCHANGED <<use, next, buf, cut, full, slices, pos, got>>

Next == Wire \/ WireFails \/ Cut \/ Unwire \/ Reject \/ UnwireFails

Spec == Init /\ [][Next]_vars

-----------------------------------------------------------------------------
\* The bytes are bytes, and the reader is within them.
TypeOK ==
  /\ use \in Uses
  /\ next \in 1..(Len(use.types) + 1)
  /\ \A i \in DOMAIN buf : buf[i] \in 0..255
  /\ cut \in BOOLEAN /\ full \in BOOLEAN
  /\ \A s \in slices : s.reserved \in Nat /\ s.written \in Nat
  /\ pos \in 0..Len(buf)
  /\ Len(got) <= Len(use.as)
  /\ end \in {"none", "error", "overrun"}

\* What is wired is unwired: every value of the uses given comes back equal, in order,
\* for each way of writing and of reading they name; nothing fails before a write did,
\* and no byte of one value is left for the next.  (wiring / sync_wiring against
\* unwiring / sync_unwiring / bytes_length, and concat_array under #[fixed].)  It is not
\* true of every type the code takes: MCCodec says which are left to which run.
RoundTrip ==
  ~cut => /\ IsPrefix(got, use.reads)
          /\ end # "none" => full /\ Len(got) = next - 1
          /\ Len(got) = Len(use.reads) => pos = Len(buf)

RECURSIVE EndsInString(_)
EndsInString(T) ==
  CASE T.kind \in {"string", "url"} -> TRUE
    [] T.kind \in {"option", "vec", "box_slice", "set", "arc", "array"} -> EndsInString(T.elem)
    [] T.kind \in {"tuple", "struct", "map"} -> EndsInString(Last(T.of))
    [] T.kind = "enum" -> \E i \in DOMAIN T.of : T.of[i] # <<>> /\ EndsInString(Last(T.of[i]))
    [] OTHER -> FALSE

\* A value whose last bytes are lost, or found no room, is never delivered, in full or
\* in part: the values before it are, and then the reader fails.  An async String is exempt (and a
\* type that ends in one): unwiring a String takes what there is for the whole.
TornIsSeen ==
  (cut \/ full) /\ ~(use.read = "async" /\ \E i \in DOMAIN use.as : EndsInString(use.as[i]))
    => IsStrictPrefix(got, use.reads)

\* The reader without bounds checks stays inside the buffer, also when the buffer is
\* cut short: for the types of the uses given, those whose sizes the code states right,
\* bytes_length never says less than sync_unwiring reads (UnsafeReader::sync_unwire).
ReadsWithin == end # "overrun"

\* What sync_wiring_slice writes without a check fits the capacity it reserved for it, for
\* every slice of the values wired, however deep inside them (wire.rs, sync_wiring_slice).
ReserveIsEnough == \A s \in slices : s.written <= s.reserved
=============================================================================
