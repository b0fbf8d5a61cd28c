---------------------------- MODULE ValueMachine ----------------------------
(***************************************************************************)
(* The virtual machine's run of a program (src/src/vm/interpreter.cpp):    *)
(* frames of slots, the global variables, the heap, and what the program   *)
(* has printed.  Errors end the run here; the module ControlVm has the     *)
(* handlers that can catch them.                                           *)
(***************************************************************************)
EXTENDS Methods

\* What print writes: the value's text, a floating one with a point in it.
PointZero == Word(".0")
Shown(v) ==
  CASE v.kind = "Int"     -> <<WholeText(v.int)>>
    [] v.kind \in {"LongInt", "Date"} -> <<WholeText(v.long)>>
    [] v.kind = "Decimal" -> <<NumberText(v.dec)>>
    [] IsFloaty(v)        -> IF v.float % 2 = 0 THEN <<HalvesText(v.float), PointZero>>
                                                ELSE <<HalvesText(v.float)>>
    [] v.kind = "String"  -> v.str
    [] v.kind = "Ref"     -> <<Word("<ref>")>>
    [] v.kind = "Null"    -> <<Word("null")>>

\* A frame of the function fn with the values args in its first slots.
NewFrame(prog, fn, args, dest) ==
  [fn |-> fn, ip |-> 1, dest |-> dest,
   slots |-> [s \in 0..(prog[fn].count - 1) |-> IF s < Len(args) THEN args[s + 1] ELSE FromInt(0)]]

\* initForDebug.
Started(prog, globals) ==
  [frames |-> <<NewFrame(prog, "main", << >>, -1)>>, heap |-> << >>, out |-> << >>, error |-> "",
   globals |-> [n \in globals |-> FromInt(0)]]

Top(m)        == Last(m.frames)
Finished(m)   == m.frames = << >> \/ m.error # ""
AtEnd(prog, m)  == Top(m).ip > Len(prog[Top(m).fn].code)
Current(prog, m) == prog[Top(m).fn].code[Top(m).ip]

Raise(m, msg) == [m EXCEPT !.error = msg]
SetTop(m, f)  == [m EXCEPT !.frames[Len(m.frames)] = f]
Goto(m, ip)   == [m EXCEPT !.frames[Len(m.frames)].ip = ip]
Advance(m)    == Goto(m, Top(m).ip + 1)
Put(m, dest, v) == IF dest < 0 THEN m ELSE [m EXCEPT !.frames[Len(m.frames)].slots[dest] = v]

\* The result of a computation, of a method or of an access to an object.
Take(m, dest, o)    == IF o.error # "" THEN Raise(m, o.error) ELSE Put(Advance(m), dest, o.value)
TakeHeap(m, dest, o) == Take([m EXCEPT !.heap = o.heap], dest, o)

\* The caller goes on with the value v in the slot of the call.
Leave(m, v) ==
  LET below == [m EXCEPT !.frames = Front(@)]
  IN  IF below.frames = << >> THEN below ELSE Put(below, Top(m).dest, v)

CallHost(m, ins, args) ==
  IF ins.name = "print"
  THEN Advance([m EXCEPT !.out = Append(@, Shown(args[1]))])
  ELSE TakeHeap(m, ins.dest, MethodResult(ins.category, ins.name, args, m.heap))

Allocate(m, dest, obj) == TakeHeap(m, dest, Allocates(obj, m.heap))

VmExecute(prog, m, ins, s) ==
  CASE Computes(ins) ->
         Take(m, ins.dest, Outcome(ins, IF ins.left < 0 THEN None ELSE s[ins.left],
                                        IF ins.right < 0 THEN None ELSE s[ins.right],
                                        IF ins.src < 0 THEN None ELSE s[ins.src]))
    [] ins.op = "JMP"          -> Goto(m, ins.target)
    [] ins.op = "JIF_FALSE"    -> IF IsTruthy(s[ins.cond]) THEN Advance(m) ELSE Goto(m, ins.target)
    [] ins.op = "JIF_TRUE"     -> IF IsTruthy(s[ins.cond]) THEN Goto(m, ins.target) ELSE Advance(m)
    [] ins.op = "CALL"         ->
         [Advance(m) EXCEPT !.frames = Append(@, NewFrame(prog, ins.name,
                              [i \in DOMAIN ins.args |-> s[ins.args[i]]], ins.dest))]
    [] ins.op = "RETURN"       -> Leave(m, s[ins.src])
    [] ins.op = "CALLHOST"     -> CallHost(m, ins, [i \in DOMAIN ins.args |-> s[ins.args[i]]])
    [] ins.op = "LOAD_GLOBAL"  -> Put(Advance(m), ins.dest, m.globals[ins.name])
    [] ins.op = "STORE_GLOBAL" -> Advance([m EXCEPT !.globals[ins.name] = s[ins.src]])
    [] ins.op = "ARRAY_NEW"    ->
         Allocate(m, ins.dest, ArrayObject(ins.name, Filled(ins.name, ins.index)))
    [] ins.op = "ARRAY_GET"    ->
         TakeHeap(m, ins.dest, ElementRead(m.heap, s[ins.left], s[ins.right]))
    [] ins.op = "ARRAY_SET"    ->
         TakeHeap(m, -1, ElementWritten(m.heap, s[ins.dest], s[ins.left], s[ins.right]))
    [] ins.op = "STRUCT_NEW"   -> Allocate(m, ins.dest, StructObject(NewFields(ins.name)))
    [] ins.op = "FIELD_GET"    -> TakeHeap(m, ins.dest, FieldRead(m.heap, s[ins.src], ins.name))
    [] ins.op = "FIELD_SET"    ->
         TakeHeap(m, -1, FieldWritten(m.heap, s[ins.dest], ins.name, s[ins.right]))

\* A function whose code ends without a RETURN leaves 0.
VmStep(prog, m) ==
  IF AtEnd(prog, m) THEN Leave(m, FromInt(0))
  ELSE VmExecute(prog, m, Current(prog, m), Top(m).slots)
=============================================================================
