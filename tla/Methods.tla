------------------------------ MODULE Methods ------------------------------
(***************************************************************************)
(* Arrays, structs and the methods of arrays and strings                   *)
(* (src/src/data/array.cpp, src/src/data/string.cpp).  The heap is the     *)
(* sequence of the objects made so far; an array stores its elements by    *)
(* their kind, and keeps for compiled code a copy of its length that not   *)
(* every method refreshes.  A piece of a string counts as one character.   *)
(***************************************************************************)
EXTENDS Opcodes, SequencesExt

ArrayObject(kind, items) ==
  [object |-> "Array", elem |-> kind, items |-> items, view |-> Len(items)]
StructObject(fields) == [object |-> "Struct", fields |-> fields]

\* A value as it comes out of an array of the given kind it was put into.
Stored(kind, v) ==
  CASE kind = "Ref"     -> v
    [] kind = "Byte"    -> FromInt(v.int % 2^ByteBits)
    [] kind = "Int"     -> FromInt(v.int)
    [] kind = "LongInt" -> FromLong(AsI64(v))
    [] kind = "Float32" -> FromFloat32(AsDouble(v))
    [] kind = "Float64" -> FromFloat(AsDouble(v))
    [] kind = "Decimal" -> FromDecimal(v.dec)
Filled(kind, n) == [i \in 1..n |-> Stored(kind, FromInt(0))]

IsArrayRef(heap, v)  == v.kind = "Ref" /\ v.ref # 0 /\ heap[v.ref].object = "Array"
IsStructRef(heap, v) == v.kind = "Ref" /\ v.ref # 0 /\ heap[v.ref].object = "Struct"

\* The elements replaced, with or without the length that compiled code sees.
Holding(heap, r, items) == [heap EXCEPT ![r].items = items]
Synced(heap, r, items)  == [heap EXCEPT ![r].items = items, ![r].view = Len(items)]

\* What a method returns: a value or an error, and the heap.
Returns(v, heap)   == [value |-> v, error |-> "", heap |-> heap]
Refuses(msg, heap) == [value |-> None, error |-> msg, heap |-> heap]
Allocates(obj, heap) == Returns(FromRef(Len(heap) + 1), Append(heap, obj))

-----------------------------------------------------------------------------
(* Arrays.                                                                  *)

\* valueEqual: values of two kinds are different.
Same(a, b) ==
  /\ a.kind = b.kind
  /\ a.int = b.int /\ a.long = b.long /\ a.float = b.float /\ a.dec = b.dec
  /\ a.str = b.str /\ a.ref = b.ref
Places(items, v) == {i \in DOMAIN items : Same(items[i], v)}
Least(S) == CHOOSE i \in S : \A j \in S : i <= j

Push(heap, r, v) ==
  LET a == heap[r]
  IN  Returns(FromInt(Len(a.items)), Synced(heap, r, Append(a.items, Stored(a.elem, v))))
Pop(heap, r) ==
  LET items == heap[r].items
  IN  IF items = << >> THEN Refuses("pop on empty array", heap)
      ELSE Returns(Last(items), Synced(heap, r, Front(items)))
InsertElement(heap, r, i, v) ==
  LET a == heap[r]
  IN  IF i < 0 \/ i > Len(a.items) THEN Refuses("insert out of bounds", heap)
      ELSE Returns(FromInt(i), Synced(heap, r, InsertAt(a.items, i + 1, Stored(a.elem, v))))
RemoveElement(heap, r, i) ==
  LET items == heap[r].items
  IN  IF i < 0 \/ i >= Len(items) THEN Refuses("remove out of bounds", heap)
      ELSE Returns(items[i + 1], Synced(heap, r, RemoveAt(items, i + 1)))

\* A new array of the elements from..to-1, brought within the array.
Slice(heap, r, from, to) ==
  LET a     == heap[r]
      first == IF from < 0 THEN 0 ELSE from
      last  == IF to > Len(a.items) THEN Len(a.items) ELSE to
  IN  Allocates(ArrayObject(a.elem, SubSeq(a.items, first + 1, last)), heap)
Concat(heap, r, q) ==
  IF heap[r].elem # heap[q].elem THEN Refuses("element kind mismatch", heap)
  ELSE Allocates(ArrayObject(heap[r].elem, heap[r].items \o heap[q].items), heap)

IndexIn(items, v) == IF Places(items, v) = {} THEN None
                     ELSE FromInt(Least(Places(items, v)) - 1)

ArrayMethod(m, args, heap) ==
  LET r     == args[1].ref
      items == heap[r].items
  IN  IF ~IsArrayRef(heap, args[1]) THEN Refuses("expected array", heap)
      ELSE CASE m = "length"   -> Returns(FromInt(Len(items)), heap)
             [] m = "push"     -> Push(heap, r, args[2])
             [] m = "pop"      -> Pop(heap, r)
             [] m = "insert"   -> IF args[2].kind # "Int" THEN Refuses("index must be int", heap)
                                  ELSE InsertElement(heap, r, args[2].int, args[3])
             [] m = "remove"   -> IF args[2].kind # "Int" THEN Refuses("index must be int", heap)
                                  ELSE RemoveElement(heap, r, args[2].int)
             [] m = "slice"    -> Slice(heap, r, IF args[2].kind = "Int" THEN args[2].int ELSE 0,
                                        IF args[3].kind = "Int" THEN args[3].int ELSE Len(items))
             [] m = "reverse"  -> Returns(args[1], Holding(heap, r, Reverse(items)))
             [] m = "concat"   -> IF ~IsArrayRef(heap, args[2]) THEN Refuses("expected array", heap)
                                  ELSE Concat(heap, r, args[2].ref)
             [] m = "contains" -> Returns(FromBool(Places(items, args[2]) # {}), heap)
             [] m = "indexOf"  -> Returns(IndexIn(items, args[2]), heap)
             [] m = "clear"    -> Returns(None, Holding(heap, r, << >>))

-----------------------------------------------------------------------------
(* Strings.                                                                 *)

\* The first place at or behind `from' where p is found in s, or 0.
PlacesOf(p, s, from) ==
  {i \in from..(Len(s) - Len(p) + 1) : SubSeq(s, i, i + Len(p) - 1) = p}
Find(p, s, from) == IF PlacesOf(p, s, from) = {} THEN 0 ELSE Least(PlacesOf(p, s, from))

\* The parts of s between the places where sep is found from left to right.
RECURSIVE SplitBy(_, _)
SplitBy(s, sep) ==
  LET at == Find(sep, s, 1)
  IN  IF at = 0 THEN <<s>>
      ELSE <<SubSeq(s, 1, at - 1)>> \o SplitBy(SubSeq(s, at + Len(sep), Len(s)), sep)
Split(s, sep) == IF sep = << >> THEN [i \in DOMAIN s |-> <<s[i]>>] ELSE SplitBy(s, sep)

RECURSIVE Joined(_, _)
Joined(parts, by) ==
  IF Len(parts) = 1 THEN parts[1] ELSE Head(parts) \o by \o Joined(Tail(parts), by)
RECURSIVE Repeated(_, _)
Repeated(s, n) == IF n <= 0 THEN << >> ELSE s \o Repeated(s, n - 1)

Blanks == {Word(" ")}
Trimmed(s) ==
  LET solid == {i \in DOMAIN s : s[i] \notin Blanks}
  IN  IF solid = {} THEN << >>
      ELSE SubSeq(s, Least(solid), CHOOSE i \in solid : \A j \in solid : j <= i)

Substring(s, from, len, heap) ==
  IF from < 0 \/ from > Len(s) THEN Refuses("substring out of bounds", heap)
  ELSE Returns(FromString(SubSeq(s, from + 1, IF len < 0 THEN from
                                 ELSE IF from + len > Len(s) THEN Len(s) ELSE from + len)), heap)
CharAt(s, i, heap) ==
  IF i < 0 \/ i >= Len(s) THEN Refuses("charAt out of bounds", heap)
  ELSE Returns(FromString(<<s[i + 1]>>), heap)

\* The arguments that have to be strings; the others are read as numbers.
TextArgs(m) ==
  CASE m = "replace" -> 1..3
    [] m \in {"split", "indexOf", "contains", "startsWith", "endsWith"} -> 1..2
    [] OTHER -> {1}

StringMethod(m, args, heap) ==
  LET s == args[1].str
      p == args[2].str
      Text(t)  == Returns(FromString(t), heap)
      Truth(b) == Returns(FromBool(b), heap)
  IN  IF \E i \in TextArgs(m) : args[i].kind # "String" THEN Refuses("expected string", heap)
      ELSE CASE m = "length"     -> Returns(FromInt(Len(s)), heap)
             [] m = "trim"       -> Text(Trimmed(s))
             [] m = "split"      -> Allocates(ArrayObject("Ref", [i \in DOMAIN Split(s, p) |->
                                                 FromString(Split(s, p)[i])]), heap)
             [] m = "substring"  -> Substring(s, AsI64(args[2]), AsI64(args[3]), heap)
             [] m = "replace"    -> Text(IF p = << >> THEN s ELSE Joined(SplitBy(s, p), args[3].str))
             [] m = "repeat"     -> Text(Repeated(s, AsI64(args[2])))
             [] m = "charAt"     -> CharAt(s, AsI64(args[2]), heap)
             [] m = "indexOf"    -> Returns(IF Find(p, s, 1) = 0 THEN None
                                            ELSE FromInt(Find(p, s, 1) - 1), heap)
             [] m = "contains"   -> Truth(Find(p, s, 1) # 0)
             [] m = "startsWith" -> Truth(Len(p) <= Len(s) /\ SubSeq(s, 1, Len(p)) = p)
             [] m = "endsWith"   -> Truth(Len(p) <= Len(s)
                                          /\ SubSeq(s, Len(s) - Len(p) + 1, Len(s)) = p)

MethodResult(category, m, args, heap) ==
  CASE category = "array"  -> ArrayMethod(m, args, heap)
    [] category = "string" -> StringMethod(m, args, heap)

-----------------------------------------------------------------------------
(* Elements and fields.                                                     *)

\* The index is read as an int, whatever it is.
ElementRead(heap, a, i) ==
  IF a.kind # "Ref" \/ a.ref = 0 THEN Refuses("expected array", heap)
  ELSE IF i.int < 0 \/ i.int >= Len(heap[a.ref].items) THEN Refuses("index out of bounds", heap)
  ELSE Returns(heap[a.ref].items[i.int + 1], heap)
ElementWritten(heap, a, i, v) ==
  IF a.kind # "Ref" \/ a.ref = 0 THEN Refuses("expected array", heap)
  ELSE IF i.int < 0 \/ i.int >= Len(heap[a.ref].items) THEN Refuses("index out of bounds", heap)
  ELSE Returns(None, [heap EXCEPT ![a.ref].items[i.int + 1] = Stored(heap[a.ref].elem, v)])

\* The fields of a new struct: null where they may be, else 0.
NewFields(name) == [f \in DOMAIN Layout[name] |->
                      IF Layout[name][f].nullable THEN None ELSE FromInt(0)]
FieldRead(heap, o, f) ==
  IF ~IsStructRef(heap, o) THEN Refuses("not a struct", heap)
  ELSE Returns(heap[o.ref].fields[f], heap)
FieldWritten(heap, o, f, v) ==
  IF ~IsStructRef(heap, o) THEN Refuses("not a struct", heap)
  ELSE Returns(None, [heap EXCEPT ![o.ref].fields[f] = v])
=============================================================================
