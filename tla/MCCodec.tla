------------------------------ MODULE MCCodec ------------------------------
(***************************************************************************)
(* Types and values for Codec.  Every kind of type is there, alone and     *)
(* inside others, with values of no, one and two elements.                 *)
(***************************************************************************)
EXTENDS Codec

u8 == Prim("u8")
u32 == Prim("u32")

\* The structs of src/wiring/src/test.rs, whose sizes were once got wrong.
Point == Struct(<<u32, u32>>, {<<1, 2>>})
Named == Struct(<<Point, Point, Str>>, {<<1, 2>>})
Unamed == Struct(<<Str, Prim("u128")>>, {})
Syncopated == Struct(<<u8, Prim("u64")>>, {})
Several == Struct(<<Vec(Syncopated)>>, {})

Shape == Enum(<<<<>>, <<u8>>, <<u32, Str>>>>, 1)
Wide == Enum(<<<<>>, <<>>, <<>>>>, 2)
Units == Enum(<<<<>>, <<>>>>, 4)
Entry == Struct(<<u8, Str>>, {})
Header == Struct(<<u8, Wide, UnitStruct>>, {})
Packed == Struct(<<Str, Array(Prim("u16"), 2), Tuple(<<u8, u32>>), Prim("bool"), Units, u8>>, {<<2, 5>>})
Ranges == Struct(<<u8, Prim("i16"), Str, Prim("usize"), u8, Prim("i64")>>, {<<1, 2>>, <<4, 6>>})
RangesRead == Struct(<<u8, Prim("i16"), Str, Prim("u64"), u8, Prim("i64")>>, {})
Deep == Struct(<<Vec(Array(u32, 2)), Enum(<<<<>>, <<Vec(Entry), Vec(u32)>>>>, 1)>>, {})

Hi == <<72, 105>>
V(n, fields) == [variant |-> n, fields |-> fields]

\* Types whose sizes the code states right, with a value or two of each.
Exact == {
  <<Prim("u16"), 258>>, <<Prim("bool"), 1>>, <<Prim("f32"), 70000>>, <<Prim("f64"), 70000>>,
  <<Prim("i8"), -128>>, <<Prim("i16"), -2>>, <<Prim("i32"), -70000>>, <<Prim("i64"), -1>>,
  <<Vec(Prim("i128")), <<-1, 70000>>>>, <<Unit, <<>>>>, <<UnitStruct, <<>>>>, <<Str, <<>>>>, <<Str, Hi>>,
  <<Option(u32), <<>>>>, <<Option(u32), <<70000>>>>, <<Option(Option(Unit)), <<<<<<>>>>>>>>,
  <<Array(u32, 2), <<1, 2>>>>, <<Array(Str, 2), <<Hi, <<>>>>>>,
  <<Tuple(<<u8, Str>>), <<7, Hi>>>>, <<Tuple(<<Str, u8, Unit>>), <<Hi, 7, <<>>>>>>,
  <<Vec(u8), <<>>>>, <<Vec(u8), <<1, 255>>>>, <<Vec(u32), <<1, 2>>>>,
  <<Vec(Str), <<Hi, <<>>>>>>, <<Vec(Vec(u32)), <<<<1>>, <<>>>>>>,
  <<Vec(Array(u32, 2)), <<<<1, 2>>>>>>, <<Vec(Option(u8)), <<<<3>>, <<>>>>>>,
  <<Vec(Tuple(<<u8, u32>>)), <<<<1, 2>>, <<3, 4>>>>>>,
  <<Vec(Prim("bool")), <<0, 1>>>>, <<Vec(UnitStruct), <<<<>>, <<>>>>>>, <<Vec(Unit), <<<<>>, <<>>>>>>,
  <<Unamed, <<Hi, 70000>>>>, <<Several, <<<<<<1, 2>>, <<3, 70000>>>>>>>>,
  <<Vec(Entry), <<<<1, Hi>>, <<2, <<>>>>>>>>, <<Vec(Wide), <<V(3, <<>>), V(1, <<>>)>>>>,
  <<Header, <<9, V(2, <<>>), <<>>>>>>, <<Vec(Shape), <<V(3, <<5, Hi>>), V(1, <<>>)>>>>,
  <<Deep, <<<<<<1, 2>>, <<3, 4>>>>, V(2, <<<<<<1, Hi>>>>, <<5>>>>)>>>>,
  <<Shape, V(2, <<8>>)>>, <<Shape, V(3, <<70000, Hi>>)>>, <<Units, V(2, <<>>)>>}

\* Types with fields under #[fixed]: right when they are written with sync_wiring.
Fixed == {
  <<Point, <<1, 70000>>>>, <<Named, <<<<1, 2>>, <<3, 4>>, Hi>>>>,
  <<Vec(Point), <<<<1, 2>>, <<3, 4>>>>>>,
  <<Packed, <<Hi, <<1, 258>>, <<3, 4>>, 1, V(2, <<>>), 6>>>>}

\* Types for which bytes_length, FIXED_SIZE or MIXED is wrong: not for BufUnWire, and
\* (Vec of a pair of which only the second part is dynamic) not for sync_wiring.
Inexact == {
  <<Arc(u32), 70000>>, <<Arc(Shape), V(2, <<8>>)>>, <<HashSet(u32), {1, 2}>>,
  <<HashSet(Str), {}>>, <<BoxSlice(u32), <<1, 2>>>>, <<BoxSlice(Str), <<Hi, <<>>>>>>,
  <<Vec(Prim("f32")), <<1, 2>>>>, <<Vec(Prim("f64")), <<1, 2>>>>}
Pairs == {<<Vec(Tuple(<<u8, Str>>)), <<<<1, Hi>>, <<2, <<>>>>>>>>}

\* A value written as one type and read as another: what is only written (char, usize,
\* str), what is only read (the maps, BTreeSet), and owners of the same thing.
Web == <<104, 58, 47>>
Recast == {
  <<Prim("char"), 233, u32, 233>>, <<Prim("usize"), 70000, Prim("u64"), 70000>>,
  <<Vec(Prim("char")), <<104, 233>>, Vec(u32), <<104, 233>>>>,
  <<Arc(u32), 70000, u32, 70000>>, <<Vec(Str), <<Hi>>, BoxSlice(Str), <<Hi>>>>,
  <<Array(u8, 4), <<0, 1, 1, 1>>, u32, 65793>>,
  <<HashSet(u32), {1, 2}, BTreeSet(u32), {1, 2}>>, <<Vec(u8), <<3, 3, 1>>, BTreeSet(u8), {1, 3}>>,
  <<Vec(Tuple(<<u8, u32>>)), <<<<1, 2>>, <<3, 4>>>>, HashMap(u8, u32), {<<1, 2>>, <<3, 4>>}>>,
  <<Vec(Tuple(<<u8, u32>>)), <<<<1, 2>>, <<3, 4>>, <<1, 5>>>>, BTreeMap(u8, u32), {<<3, 4>>, <<1, 5>>}>>,
  <<HashSet(Tuple(<<u8, u8>>)), {<<1, 2>>}, HashMap(u8, u8), {<<1, 2>>}>>,
  <<Vec(Tuple(<<Str, Str>>)), <<<<Hi, Hi>>>>, HashMap(Str, Str), {<<Hi, Hi>>}>>,
  <<Url, Web, Url, Web>>, <<Url, Web, Str, Web>>}

\* The wires' own messages, which are read asynchronously only.
Infos == {<<WireInfo, <<1, 70000, V(1, <<Hi>>)>>>>, <<WireInfo, <<2, 3, V(2, <<Web>>)>>>>,
          <<Option(Tuple(<<Prim("u64"), Prim("u128")>>)), <<<<5, 70000>>>>>>}

As(write, read, types, values, as, reads) ==
  [write |-> write, room |-> 0, read |-> read, types |-> types, values |-> values,
   as |-> as, reads |-> reads]
Same(write, read, types, values) == As(write, read, types, values, types, values)
One(write, read, tvs) == {Same(write, read, <<tv[1]>>, <<tv[2]>>) : tv \in tvs}
Two(write, read, tv1, tv2) == Same(write, read, <<tv1[1], tv2[1]>>, <<tv1[2], tv2[2]>>)

\* A cursor over ten bytes: some of the types fit, once, and some do not.
Bounded(u) == [u EXCEPT !.write = "slice", !.room = 10]

MCUses ==
  One("sync", "buffer", Exact \cup Fixed)
    \cup UNION {One("sync", r, Exact \cup Fixed \cup Inexact) : r \in {"slice", "async"}}
    \cup UNION {One("async", r, Exact \cup Inexact \cup Pairs) : r \in {"slice", "async"}}
    \cup {Two(w, r, <<Vec(Shape), <<V(3, <<5, Hi>>), V(1, <<>>)>>>>, <<Option(u32), <<1>>>>) :
            w \in {"sync", "async"}, r \in {"slice", "async"}}
    \cup {Two("sync", "buffer", <<u32, 1>>, <<u32, 70000>>)}
    \cup {As(w, r, <<c[1]>>, <<c[2]>>, <<c[3]>>, <<c[4]>>) :
            w \in {"sync", "async"}, r \in {"slice", "async"}, c \in Recast}
    \cup {As("sync", r, <<Ranges>>, <<<<7, -2, Hi, 70000, 8, -1>>>>,
                       <<RangesRead>>, <<<<7, -2, Hi, 70000, 8, -1>>>>) :
            r \in {"slice", "async", "buffer"}}
    \cup UNION {One(w, "async", Infos) : w \in {"sync", "async"}}
    \cup {Bounded(u) :
            u \in One("sync", "buffer", Exact \cup Fixed)
                           \cup One("sync", "slice", Exact \cup Fixed \cup Inexact)
                           \cup {Two("sync", "slice", <<Option(u8), <<3>>>>, <<Str, Hi>>)}
                           \cup {Two("sync", r, <<Prim("u64"), 1>>, <<Prim("u64"), 2>>) :
                                   r \in {"slice", "buffer"}}}

\* Structs with fields under #[fixed], written asynchronously.
AsyncFixedUses == One("async", "async", Fixed)
=============================================================================
