---------------------------- MODULE PrettyPrint ----------------------------
(***************************************************************************)
(* What a dump says of the data in scope.                                  *)
(*                                                                         *)
(* printVariables (AutoDump.py) prints the variables of the frame one by   *)
(* one.  gdb formats a struct with GenericPrinter, whose generator passes  *)
(* every member to printer(); printer() follows a pointer into the heap    *)
(* and yields what it points to, which gdb formats in turn.  The data may  *)
(* be cyclic and shared: address_dict remembers the addresses that were    *)
(* visited, and a pointer to one of them is shown as <PRINTED>.            *)
(*                                                                         *)
(* The program is stopped, so its data does not change during a dump.      *)
(* Every area holds one kind of element, structs or pointers to structs,   *)
(* and the pointers to it are of that type.  Everything that printer()     *)
(* shows without following it (numbers, null, char and void pointers,      *)
(* pointers outside the heap) is Plain.                                    *)
(***************************************************************************)
EXTENDS Naturals, Sequences, FiniteSets

CONSTANTS
  Area,        \* areas of the heap
  MaxElems,    \* bound on the elements of an area
  NumVars,     \* variables in scope, in the order of their names
  NumFields,   \* members of a struct
  Limits,      \* values of BINARYDUMP, in elements of one byte
  Refs,        \* whether structs may have members that are C++ references
  Opaque,      \* whether there are pointers to incomplete types
  Behind,      \* whether there are pointers just behind the end of an area
  MayFail,     \* whether gdb may fail to read or to parse
  MaxDepth,    \* generators that fit on the stack of gdb
  MaxDumps     \* bound on the dumps

ASSUME SizeAssumption == {MaxElems, NumVars, NumFields} \subseteq Nat \ {0}
ASSUME LimitAssumption == Limits \cup {MaxDumps} \subseteq Nat
ASSUME DepthAssumption == MaxDepth \in Nat \ {0}
ASSUME SwitchAssumption == {Refs, Opaque, Behind, MayFail} \subseteq BOOLEAN
ASSUME AreaAssumption == Area \cap (1..NumVars) = {}

VARIABLES
  MAX_SIZE_PP, \* BINARYDUMP; 0 is no limit
  kind,    \* what an area or a variable holds: structs or pointers
  len,     \* number of elements of an area
  link,    \* the members of each element
  dict,    \* address_dict
  var,     \* the next variable to print
  frames,  \* the generators under way, the innermost first
  out,     \* the dump
  files,   \* areas written to a file by heap_dump
  dumps    \* dumps so far

\* What does not change while the program is stopped.
program == <<MAX_SIZE_PP, kind, len, link>>
vars == <<MAX_SIZE_PP, kind, len, link, dict, var, frames, out, files, dumps>>

Var == 1..NumVars
Field == 1..NumFields

\* An element of an area, or a variable.  A pointer just behind an area points
\* to an element that does not exist.
HeapLoc == Area \X (1..(MaxElems + 1))
Loc == HeapLoc \cup (Var \X {1})

Plain == [by |-> "plain"]
Ways == {"ptr"} \cup (IF Refs THEN {"ref"} ELSE {})
                \cup (IF Opaque THEN {"opaque"} ELSE {})
Value == {Plain} \cup [by : Ways, to : HeapLoc]

Exists(l) == l[1] \in Var \/ l[2] <= len[l[1]]

Elem == {l \in Loc : Exists(l)}

\* A struct has its members, an element that is a pointer is its own.
Members(l) == IF Exists(l) THEN link[l] ELSE <<>>

\* What the generators have still to do: pass a value to printer(), wait for gdb
\* to format the element they have yielded, or leave the loop that follows the
\* pointers in an area; the loop is inside the try of the pointer to the area.
Task == [do : {"printer"}, val : Value] \cup [do : {"format", "leave"}, at : Loc]

Visit(v) == [do |-> "printer", val |-> v]
Format(l) == [do |-> "format", at |-> l]
Leave(l) == [do |-> "leave", at |-> l]

\* A line of the dump: a struct, a variable that is a pointer, a pointer that
\* printer() has followed, or one of its remarks; "error" is the trace of a
\* python exception, "crash" the end of gdb.
Remark == {"<PRINTED>", "<BINARYDUMP>", "<INVALID>"}

Item == [tag : {"struct", "variable", "pointer"} \cup Remark, at : Loc]
          \cup [tag : {"error", "crash"}]

Init ==
  /\ MAX_SIZE_PP \in Limits
  /\ kind \in [Area \cup Var -> {"struct", "pointer"}]
  /\ len \in [Area -> 1..MaxElems]
  /\ LET Target == {Plain} \cup
                   [by : Ways, to : {l \in HeapLoc : Exists(l) \/
                                       (Behind /\ l[2] = len[l[1]] + 1)}]
     IN  link \in [Elem -> [Field -> Target] \cup [{1} -> Target]]
  /\ \A l \in Elem : IF kind[l[1]] = "struct" THEN DOMAIN link[l] = Field
                     ELSE DOMAIN link[l] = {1}
  /\ \A l \in HeapLoc \cap Elem :
       kind[l[1]] = "pointer" =>
         \/ link[l][1].by \in {"plain", "opaque"}
         \/ link[l][1].by = "ptr" /\ kind[link[l][1].to[1]] = "struct"
  /\ dict = {}
  /\ var = 1
  /\ frames = <<>>
  /\ out = <<>>
  /\ files = {}
  /\ dumps = 0

----------------------------------------------------------------------------
(* dump_call                                                               *)

Finished == frames = <<>> /\ var > NumVars

\* heap_dump
FilesOf(S) ==
  IF MAX_SIZE_PP = 0 THEN {} ELSE {a \in S : len[a] > MAX_SIZE_PP}

\* Mutant: address_dict={} is forgotten.
NewDumpKeepsDict ==
  /\ dumps < MaxDumps
  /\ dumps = 0 \/ Finished
  /\ dumps' = dumps + 1
  /\ files' = FilesOf(Area)
  /\ var' = 1
  /\ out' = <<>>
  /\ UNCHANGED <<program, dict, frames>>

\* Mutant: the variables are counted from zero.
NewDumpFromZero ==
  /\ dumps < MaxDumps
  /\ dumps = 0 \/ Finished
  /\ dumps' = dumps + 1
  /\ dict' = {}
  /\ files' = FilesOf(Area)
  /\ var' = 0
  /\ out' = <<>>
  /\ UNCHANGED <<program, frames>>

\* python address_dict={}, heap_dump, printVariables
NewDump ==
  /\ dumps < MaxDumps
  /\ dumps = 0 \/ Finished
  /\ dumps' = dumps + 1
  /\ dict' = {}
  /\ files' = FilesOf(Area)
  /\ var' = 1
  /\ out' = <<>>
  /\ UNCHANGED <<program, frames>>

Line(tag, l) == [tag |-> tag, at |-> l]

\* Mutant: a pointer is printed, and what it points to is not.
PrintPointerOnly ==
  /\ dumps > 0
  /\ frames = <<>>
  /\ var \in Var
  /\ kind[var] = "pointer"
  /\ var' = var + 1
  /\ out' = Append(out, Line("variable", <<var, 1>>))
  /\ UNCHANGED <<program, dict, frames, files, dumps>>

\* print v: gdb formats it, printer() is not asked.
PrintStruct ==
  /\ dumps > 0
  /\ frames = <<>>
  /\ var \in Var
  /\ kind[var] = "struct"
  /\ var' = var + 1
  /\ frames' = << <<Format(<<var, 1>>)>> >>
  /\ UNCHANGED <<program, dict, out, files, dumps>>

\* print v and print *v, or print v for a reference, of which gdb shows the
\* address and what is there.
PrintPointer ==
  /\ dumps > 0
  /\ frames = <<>>
  /\ var \in Var
  /\ kind[var] = "pointer"
  /\ var' = var + 1
  /\ out' = Append(out, Line("variable", <<var, 1>>))
  /\ LET v == link[<<var, 1>>][1]
     IN  frames' = IF v.by \in {"ptr", "ref"} THEN << <<Format(v.to)>> >> ELSE <<>>
  /\ UNCHANGED <<program, dict, files, dumps>>

\* except RuntimeError in printVariables: print v fails ...
VariableInvalid ==
  /\ MayFail
  /\ dumps > 0
  /\ frames = <<>>
  /\ var \in Var
  /\ var' = var + 1
  /\ out' = Append(out, Line("<INVALID>", <<var, 1>>))
  /\ UNCHANGED <<program, dict, frames, files, dumps>>

\* ... or print *v does, as it has to for null and for void.
TargetInvalid ==
  /\ dumps > 0
  /\ frames = <<>>
  /\ var \in Var
  /\ kind[var] = "pointer"
  /\ \/ link[<<var, 1>>][1].by = "plain"
     \/ MayFail /\ link[<<var, 1>>][1].by # "ref"
  /\ var' = var + 1
  /\ out' = Append(Append(out, Line("variable", <<var, 1>>)), Line("<INVALID>", <<var, 1>>))
  /\ UNCHANGED <<program, dict, frames, files, dumps>>

----------------------------------------------------------------------------
(* The generators.                                                         *)

Top == Head(frames)
Task1 == Head(Top)
HasTask == frames # <<>> /\ Top # <<>>

\* The task at the top is replaced by others.
ReplaceBy(ts) == frames' = <<ts \o Tail(Top)>> \o Tail(frames)

\* printer() is called for each of the values; it leaves a reference to gdb.
TasksFor(vs) ==
  [i \in DOMAIN vs |->
     IF vs[i].by = "ref" THEN Format(vs[i].to) ELSE Visit(vs[i])]

Emit(tag, l) == out' = Append(out, Line(tag, l))

\* The generator at the top is exhausted.
EndOfGenerator ==
  /\ frames # <<>>
  /\ Top = <<>>
  /\ frames' = Tail(frames)
  /\ UNCHANGED <<program, dict, var, out, files, dumps>>

\* Mutant: to_string returns the pointer itself, and gdb formats that again.
FormatPointerAgain ==
  /\ HasTask
  /\ Task1.do = "format"
  /\ kind[Task1.at[1]] = "pointer"
  /\ UNCHANGED vars

\* gdb formats an element: a pointer is shown by PointerPrinter and nothing
\* else, a struct gets a GenericPrinter, which marks its address, seen before
\* or not, and a generator over its members.
FormatPointer ==
  /\ HasTask
  /\ Task1.do = "format"
  /\ kind[Task1.at[1]] = "pointer"
  /\ ReplaceBy(<<>>)
  /\ UNCHANGED <<program, dict, var, out, files, dumps>>

FormatStruct ==
  /\ HasTask
  /\ Len(frames) < MaxDepth
  /\ Task1.do = "format"
  /\ kind[Task1.at[1]] = "struct"
  /\ dict' = dict \cup {Task1.at}
  /\ Emit("struct", Task1.at)
  /\ frames' = <<TasksFor(Members(Task1.at)), Tail(Top)>> \o Tail(frames)
  /\ UNCHANGED <<program, var, files, dumps>>

\* gdb formats by recursion, without a limit of its own.
GdbDies ==
  /\ HasTask
  /\ Task1.do = "format"
  /\ kind[Task1.at[1]] = "struct"
  /\ Len(frames) = MaxDepth
  /\ out' = Append(out, [tag |-> "crash"])
  /\ frames' = <<>>
  /\ var' = NumVars + 1
  /\ dumps' = MaxDumps
  /\ UNCHANGED <<program, dict, files>>

\* printer(key, val) for a value that is shown and not followed.
ShowPlain ==
  /\ HasTask
  /\ Task1.do = "printer"
  /\ Task1.val.by = "plain"
  /\ ReplaceBy(<<>>)
  /\ UNCHANGED <<program, dict, var, out, files, dumps>>

\* The loop over the pointers in an area is at its end.
EndOfLoop ==
  /\ HasTask
  /\ Task1.do = "leave"
  /\ ReplaceBy(<<>>)
  /\ UNCHANGED <<program, dict, var, out, files, dumps>>

\* printer(key, val) for a pointer into the area a of the heap.
Follows(a) ==
  /\ HasTask
  /\ Task1.do = "printer"
  /\ Task1.val.by = "ptr"
  /\ Task1.val.to[1] = a

\* Mutant: address_dict is asked about arrays only.
SeenArray(a) == len[a] > 1 /\ <<a, 1>> \in dict

Seen(a) == <<a, 1>> \in dict
Mark(a) == dict' = dict \cup {<<a, 1>>}

\* "The heap area has already been dereferenced and dumped"
FollowSeen(a) ==
  /\ Follows(a)
  /\ Seen(a)
  /\ Emit("<PRINTED>", Task1.val.to)
  /\ ReplaceBy(<<>>)
  /\ UNCHANGED <<program, dict, var, files, dumps>>

Pretty(a) == MAX_SIZE_PP = 0 \/ len[a] <= MAX_SIZE_PP

\* All of the area that l points into: gdb formats an array of structs; if the
\* elements are pointers, printer() is called for each of them.
ArrayTasks(l) ==
  LET a == l[1]
  IN  IF kind[a] = "struct" THEN [i \in 1..len[a] |-> Format(<<a, i>>)]
      ELSE TasksFor([i \in 1..len[a] |-> link[<<a, i>>][1]]) \o <<Leave(l)>>

SingleTasks(l) ==
  IF kind[l[1]] = "struct" THEN <<Format(l)>>
  ELSE TasksFor(Members(l)) \o <<Leave(l)>>

\* Mutant: the area is not entered in address_dict.
FollowArrayUnmarked(a) ==
  /\ Follows(a)
  /\ ~Seen(a)
  /\ len[a] > 1
  /\ Pretty(a)
  /\ Emit("pointer", Task1.val.to)
  /\ ReplaceBy(ArrayTasks(Task1.val.to))
  /\ UNCHANGED <<program, dict, var, files, dumps>>

\* Mutant: the array begins at the element that the pointer points to.
FollowArrayFromPointer(a) ==
  /\ Follows(a)
  /\ ~Seen(a)
  /\ len[a] > 1
  /\ Pretty(a)
  /\ Mark(a)
  /\ Emit("pointer", Task1.val.to)
  /\ ReplaceBy(IF kind[a] = "struct"
                 THEN [i \in 1..(len[a] + 1 - Task1.val.to[2]) |->
                         Format(<<a, Task1.val.to[2] + i - 1>>)]
                 ELSE ArrayTasks(Task1.val.to))
  /\ UNCHANGED <<program, var, files, dumps>>

\* An array: all of it, whichever element the pointer points to.
FollowArray(a) ==
  /\ Follows(a)
  /\ ~Seen(a)
  /\ len[a] > 1
  /\ Pretty(a)
  /\ Mark(a)
  /\ Emit("pointer", Task1.val.to)
  /\ ReplaceBy(ArrayTasks(Task1.val.to))
  /\ UNCHANGED <<program, var, files, dumps>>

FollowBinary(a) ==
  /\ Follows(a)
  /\ ~Seen(a)
  /\ len[a] > 1
  /\ ~Pretty(a)
  /\ Mark(a)
  /\ Emit("<BINARYDUMP>", Task1.val.to)
  /\ ReplaceBy(<<>>)
  /\ UNCHANGED <<program, var, files, dumps>>

\* One element: printer('*'+key, val.dereference(), True)
FollowSingle(a) ==
  /\ Follows(a)
  /\ ~Seen(a)
  /\ len[a] = 1
  /\ Mark(a)
  /\ Emit("pointer", Task1.val.to)
  /\ ReplaceBy(SingleTasks(Task1.val.to))
  /\ UNCHANGED <<program, var, files, dumps>>

\* RuntimeError: when val is dereferenced, before the area is marked, or when
\* the expression for the array is parsed, after that.
FollowInvalid(a) ==
  /\ MayFail
  /\ Follows(a)
  /\ \/ UNCHANGED dict
     \/ ~Seen(a) /\ len[a] > 1 /\ Pretty(a) /\ Mark(a)
  /\ Emit("<INVALID>", Task1.val.to)
  /\ ReplaceBy(<<>>)
  /\ UNCHANGED <<program, var, files, dumps>>

\* RuntimeError when printer() looks whether val is null, which is outside its
\* own try.  In the loop over the pointers in an area, the try of the pointer to
\* the area gets it: the other elements are not followed ...
ElementInvalid ==
  /\ MayFail
  /\ HasTask
  /\ Task1.do = "printer"
  /\ \E n \in DOMAIN Top :
       /\ Top[n].do = "leave"
       /\ Emit("<INVALID>", Top[n].at)
       /\ frames' = <<SubSeq(Top, n + 1, Len(Top))>> \o Tail(frames)
  /\ UNCHANGED <<program, dict, var, files, dumps>>

\* ... and nobody gets it for a member of a struct: its generator ends.
MemberInvalid ==
  /\ MayFail
  /\ HasTask
  /\ Task1.do = "printer"
  /\ \A n \in DOMAIN Top : Top[n].do # "leave"
  /\ out' = Append(out, [tag |-> "error"])
  /\ frames' = Tail(frames)
  /\ UNCHANGED <<program, dict, var, files, dumps>>

\* ZeroDivisionError: the type has no size.  Nothing but RuntimeError is
\* caught, so the generator ends and gdb goes on behind its struct.
FollowOpaque ==
  /\ HasTask
  /\ Task1.do = "printer"
  /\ Task1.val.by = "opaque"
  /\ out' = Append(out, [tag |-> "error"])
  /\ frames' = Tail(frames)
  /\ UNCHANGED <<program, dict, var, files, dumps>>

Ended == dumps = MaxDumps /\ Finished /\ UNCHANGED vars

Next ==
  \/ NewDump
  \/ PrintStruct
  \/ PrintPointer
  \/ VariableInvalid
  \/ TargetInvalid
  \/ EndOfGenerator
  \/ FormatPointer
  \/ FormatStruct
  \/ GdbDies
  \/ ShowPlain
  \/ EndOfLoop
  \/ \E a \in Area :
       \/ FollowSeen(a)
       \/ FollowArray(a)
       \/ FollowBinary(a)
       \/ FollowSingle(a)
       \/ FollowInvalid(a)
  \/ ElementInvalid
  \/ MemberInvalid
  \/ FollowOpaque
  \/ Ended

Spec == Init /\ [][Next]_vars

\* gdb is sequential and goes on as long as there is something to print.
FairSpec == Spec /\ WF_vars(Next)

----------------------------------------------------------------------------
(* Properties.                                                             *)

TypeOK ==
  /\ MAX_SIZE_PP \in Limits
  /\ kind \in [Area \cup Var -> {"struct", "pointer"}]
  /\ len \in [Area -> 1..MaxElems]
  /\ link \in [Elem -> [Field -> Value] \cup [{1} -> Value]]
  /\ dict \subseteq Loc
  /\ var \in 1..(NumVars + 1)
  /\ frames \in Seq(Seq(Task)) /\ Len(frames) <= MaxDepth
  /\ out \in Seq(Item)
  /\ files \subseteq Area
  /\ dumps \in 0..MaxDumps

Items == {out[i] : i \in DOMAIN out}
Tags == {x.tag : x \in Items}

Shows(tag, l) == Line(tag, l) \in Items

StructShown(l) == Shows("struct", l)

Mentioned(tag, a) == \E x \in Items : x.tag = tag /\ x.at[1] = a

Undisturbed == Finished /\ Tags \cap {"<INVALID>", "error", "crash"} = {}

\* The elements whose pointers printer() has to follow.
Followed ==
  {x.at : x \in {y \in Items : y.tag = "struct"}}
    \cup {l \in HeapLoc : /\ kind[l[1]] = "pointer" /\ Exists(l)
                          /\ Mentioned("pointer", l[1])}

\* The first element of the area is in the dump, or all of the area in a file.
Begun(a) ==
  \/ kind[a] = "struct" /\ StructShown(<<a, 1>>)
  \/ kind[a] = "pointer" /\ Mentioned("pointer", a)
  \/ Mentioned("<BINARYDUMP>", a) /\ a \in files

\* All of the area is in the dump, or in a file.
Dumped(a) ==
  \/ kind[a] = "struct" /\ \A i \in 1..len[a] : StructShown(<<a, i>>)
  \/ kind[a] = "pointer" /\ Mentioned("pointer", a)
  \/ a \in files

\* A reference, or a variable that is a pointer, leads to the element: gdb
\* formats it without the rest of its area.
Alone(l) ==
  \E e \in Elem : \E f \in DOMAIN link[e] :
    /\ \/ link[e][f].by = "ref"
       \/ link[e][f].by = "ptr" /\ e[1] \in Var /\ kind[e[1]] = "pointer"
    /\ link[e][f].to = l

\* The rest of such an area is lost when that element is its first one, since
\* the mark of the element is the mark of the area.
CutShort(a) == kind[a] = "struct" /\ len[a] > 1 /\ Alone(<<a, 1>>)

\* Every area that a pointer in a printed object leads into is in the dump, from
\* its first to its last element, or in a file: sharing and cycles hide nothing,
\* and nothing is left out because an earlier dump had it.  Of an array that may
\* be cut short, no more is sure than its first element; the element that the
\* pointer leads to may be missing.
NothingDropped ==
  Undisturbed =>
    \A l \in Followed : \A f \in DOMAIN Members(l) :
      Members(l)[f].by = "ptr" =>
        LET a == Members(l)[f].to[1]
        IN  IF CutShort(a) THEN Begun(a) ELSE Dumped(a)

\* The dump is linear in the size of the data, whatever is shared or cyclic: a
\* line for each variable that is a pointer, and one for each struct and each of
\* its members, as often as there are variables and elements.
OutputBounded ==
  Len(out) <= NumVars + (NumVars + Cardinality(Area) * MaxElems) * (1 + NumFields)

\* The recursion of gdb is as deep as there are areas, and no deeper.
DepthBounded == Len(frames) <= Cardinality(Area) + 2

\* "The heap area has already been dereferenced and dumped": every element.
PrintedWasDumped ==
  Undisturbed => \A a \in Area : Mentioned("<PRINTED>", a) => Dumped(a)

\* CutShort is the only way for <PRINTED> to be false: the remark is right for
\* every area that cannot be cut short, whatever the order in which its elements
\* are reached.
PrintedIsTrue ==
  Undisturbed =>
    \A a \in Area : Mentioned("<PRINTED>", a) /\ ~CutShort(a) => Dumped(a)

\* A struct is printed once, however many pointers lead to it: only what gdb
\* formats without asking address_dict may come again.
ShownOnce ==
  \A i, j \in DOMAIN out :
    out[i].tag = "struct" /\ out[j] = out[i] /\ i # j => Alone(out[i].at)

\* What a variable that is a pointer or a reference leads to.
Target(v) == {l \in HeapLoc : link[<<v, 1>>][1] \in [by : {"ptr", "ref"}, to : {l}]}

\* The struct is in the dump, or the pointer and the struct it leads to.
VariableShown(v) ==
  IF kind[v] = "struct" THEN StructShown(<<v, 1>>)
  ELSE /\ Shows("variable", <<v, 1>>)
       /\ \A l \in Target(v) : kind[l[1]] = "struct" => StructShown(l)

\* Whatever goes wrong with one variable, the others are printed: an exception
\* costs the rest of one struct, or what one pointer leads to, and <INVALID> says
\* of which variable.  Only gdb itself can end a dump.
VariablesPrinted ==
  Finished /\ dumps > 0 /\ "crash" \notin Tags =>
    \A v \in Var : VariableShown(v) \/ Shows("<INVALID>", <<v, 1>>)

\* Every dump comes to an end, over cyclic data too.
DumpEnds == [](dumps > 0 => <>Finished)
============================================================================
