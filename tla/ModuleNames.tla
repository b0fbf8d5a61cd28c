----------------------------- MODULE ModuleNames -----------------------------
(***************************************************************************)
(* What a program of several files means after ModuleLoading: the symbol   *)
(* collector gives every name a declaration and every file its imports     *)
(* (SymbolCollector::collectModuleGraph), the generator gives every global *)
(* a slot, and main stores the initial values before its body              *)
(* (IRGenerator::generateModuleGraph).  All of them keep one flat map by   *)
(* name for the whole program, filled in the order of graph.units.         *)
(*                                                                         *)
(* A file is its imports and its declarations.  A declaration is a         *)
(* function or a global with an initialiser, and reads some names.         *)
(***************************************************************************)
EXTENDS ModuleLoading, Integers

CONSTANTS
  Names,     \* names of functions and globals
  Texts,     \* the programs: what is in each file
  Unset      \* a slot nothing was stored in, a name nothing declares


\* An import asks a file for a name and gives it another; `ends' are the files
\* whose path ends with the text of the import.
Import == [from : Files, ends : SUBSET Files, name : Names, as : Names]
Declaration ==
  [kind : {"function", "global"}, name : Names, exported : BOOLEAN, reads : SUBSET Names]

ASSUME ModuleNamesAssumption ==
  /\ Unset \notin Files
  /\ Texts \subseteq [Files -> [imports : Seq(Import), decls : Seq(Declaration)]]

VARIABLES
  text,          \* the program
  pass,          \* "load", then the pass of the compiler, "main" or "rejected"
  unit,          \* where the loops of the pass are: the number of the unit and,
  item,          \* in it, of the import or declaration that comes next
  symbols,       \* SymbolTable's global scope: the file of a name's declaration
  visible,       \* moduleImports_: the names each file has imported
  errors,        \* the diagnostics: [code, file, name]
  globalOf,      \* nameToGlobal_, with -1 for a name that is no global
  nextGlobal,    \* globalCount_
  allGlobalVars, \* allGlobalVars, as many as program.globalCount: places of declarations
  slots,         \* the globals of the VM: the place whose initial value is stored
  reads          \* history: the reads of the initialisers: [by, name, got]

loops   == <<unit, item>>
tables  == <<symbols, visible, errors>>
numbers == <<globalOf, nextGlobal, allGlobalVars>>
run     == <<slots, reads>>
names   == <<text, pass, loops, tables, numbers, run>>

\* A place is the number of a unit and of a declaration in it.
DeclAt(p) == text[units[p[1]]].decls[p[2]]
Here      == <<unit, item>>

Unit  == units[unit]
Items == IF pass = "imports" THEN text[Unit].imports ELSE text[Unit].decls
Item  == Items[item]

NamesInit ==
  /\ text \in Texts
  /\ imports = [f \in Files |-> {text[f].imports[i].from : i \in DOMAIN text[f].imports}]
  /\ Init
  /\ pass = "load" /\ unit = 1 /\ item = 1
  /\ symbols = [n \in Names |-> Unset] /\ visible = [f \in Files |-> {}] /\ errors = {}
  /\ globalOf = [n \in Names |-> -1] /\ nextGlobal = 0 /\ allGlobalVars = << >>
  /\ slots = << >> /\ reads = {}

Load == pass = "load" /\ Next /\ UNCHANGED names

\* The loader is over: its errors end the compilation.
Loaded ==
  /\ pass = "load" /\ Over
  /\ pass' = IF cycles # {} \/ notFound # << >> THEN "rejected" ELSE "register"
  /\ UNCHANGED <<vars, text, loops, tables, numbers, run>>

Walks == {"register", "imports", "bodies", "number"}

\* The inner loop of a pass goes on, or the outer one does.
Takes(p) ==
  /\ pass = p /\ unit <= Len(units) /\ item <= Len(Items)
  /\ item' = item + 1
  /\ UNCHANGED <<vars, text, pass, unit>>
NextUnit ==
  /\ pass \in Walks /\ unit <= Len(units) /\ item > Len(Items)
  /\ unit' = unit + 1 /\ item' = 1
  /\ UNCHANGED <<vars, text, pass, tables, numbers, run>>

\* A pass has walked everything and the next one begins.  The errors are looked
\* at when the collector's three passes are over.
Follows ==
  CASE pass = "register" -> "imports"
    [] pass = "imports"  -> "bodies"
    [] pass = "bodies"   -> IF errors # {} THEN "rejected" ELSE "number"
    [] pass = "number"   -> "initialise"

NextPass ==
  /\ pass \in Walks /\ unit > Len(units)
  /\ pass' = Follows
  /\ unit' = 1 /\ item' = 1
  /\ slots' = IF pass = "number" THEN [k \in 0..Len(allGlobalVars) - 1 |-> Unset] ELSE slots
  /\ UNCHANGED <<vars, text, tables, numbers, reads>>

\* pass1aRegisterNames: the first declaration of a name keeps it.  A second one
\* is an error when it is a function's; a second global passes in silence.
Register ==
  /\ Takes("register")
  /\ LET n == Item.name IN
       \/ symbols[n] = Unset /\ symbols' = [symbols EXCEPT ![n] = Unit] /\ UNCHANGED errors
       \/ /\ symbols[n] # Unset
          /\ errors' = IF Item.kind = "global" THEN errors
                       ELSE errors \cup {[code |-> "E002", file |-> Unit, name |-> n]}
          /\ UNCHANGED symbols
  /\ UNCHANGED <<visible, numbers, run>>

\* Whether the first declaration of n in g is exported.
Exported(g, n) ==
  \E i \in DOMAIN text[g].decls :
    /\ text[g].decls[i].name = n /\ text[g].decls[i].exported
    /\ \A j \in 1..i - 1 : text[g].decls[j].name # n

\* The unit an import is taken to name: the first whose path ends with its text.
SourceOf(m) ==
  LET ending == {i \in DOMAIN units : units[i] \in m.ends}
  IN  IF ending = {} THEN Unset ELSE units[CHOOSE i \in ending : \A j \in ending : i <= j]

\* A wrong variant: export is not asked for.
BindHidden(f, m) ==
  /\ visible' = IF SourceOf(m) # Unset /\ symbols[m.name] = SourceOf(m)
                THEN [visible EXCEPT ![f] = @ \cup {m.as}] ELSE visible
  /\ UNCHANGED errors

\* One name of one import of the file f.
Bind(f, m) ==
  LET source == SourceOf(m)
      Refuse(code) == /\ errors' = errors \cup {[code |-> code, file |-> f, name |-> m.name]}
                      /\ UNCHANGED visible
  IN  \/ source = Unset /\ UNCHANGED <<visible, errors>>
      \/ source # Unset /\ symbols[m.name] # source /\ Refuse("E_IMPORT_UNKNOWN")
      \/ /\ source # Unset /\ symbols[m.name] = source /\ ~Exported(source, m.name)
         /\ Refuse("E_IMPORT_NOT_EXPORTED")
      \/ /\ source # Unset /\ symbols[m.name] = source /\ Exported(source, m.name)
         /\ visible' = [visible EXCEPT ![f] = @ \cup {m.as}]
         /\ UNCHANGED errors

ValidateImport ==
  /\ Takes("imports")
  /\ Bind(Unit, Item)
  /\ UNCHANGED <<symbols, numbers, run>>

\* pass2Bodies: every name a declaration reads is declared, and imported when
\* another file declares it.
CheckBody ==
  /\ Takes("bodies")
  /\ LET E(code, S) == {[code |-> code, file |-> Unit, name |-> n] : n \in S}
     IN  errors' = errors
           \cup E("E001", {n \in Item.reads : symbols[n] = Unset})
           \cup E("E_SYMBOL_NOT_IMPORTED",
                  {n \in Item.reads : symbols[n] \notin {Unset, Unit} /\ n \notin visible[Unit]})
  /\ UNCHANGED <<symbols, visible, numbers, run>>

\* A wrong variant: every file counts its globals from zero.
NumberPerFile ==
  /\ Takes("number")
  /\ IF Item.kind = "global"
     THEN /\ globalOf' = [globalOf EXCEPT ![Item.name] = nextGlobal]
          /\ nextGlobal' = IF item = Len(Items) THEN 0 ELSE nextGlobal + 1
          /\ allGlobalVars' = Append(allGlobalVars, Here)
     ELSE UNCHANGED numbers
  /\ UNCHANGED <<tables, run>>

\* The slots of the globals are counted through all files; a name that is
\* declared again is moved to its new slot.
Number ==
  /\ Takes("number")
  /\ IF Item.kind = "global"
     THEN /\ globalOf' = [globalOf EXCEPT ![Item.name] = nextGlobal]
          /\ nextGlobal' = nextGlobal + 1
          /\ allGlobalVars' = Append(allGlobalVars, Here)
     ELSE UNCHANGED numbers
  /\ UNCHANGED <<tables, run>>

\* The initialiser of the declaration at p is evaluated and stored.
Stores(p) ==
  LET d == DeclAt(p)
      known == {n \in d.reads : globalOf[n] # -1}
  IN  /\ reads' = reads \cup {[by |-> p, name |-> n, got |-> slots[globalOf[n]]] : n \in known}
      /\ slots' = [slots EXCEPT ![globalOf[d.name]] = p]

\* A wrong variant: the initialisers run from the last one to the first.
InitialiseBackwards ==
  /\ pass = "initialise" /\ item <= Len(allGlobalVars)
  /\ Stores(allGlobalVars[Len(allGlobalVars) + 1 - item])
  /\ item' = item + 1
  /\ UNCHANGED <<vars, text, pass, unit, tables, numbers>>

\* The initialisers of all files, at the head of main.
Initialise ==
  /\ pass = "initialise" /\ item <= Len(allGlobalVars)
  /\ Stores(allGlobalVars[item])
  /\ item' = item + 1
  /\ UNCHANGED <<vars, text, pass, unit, tables, numbers>>

Main ==
  /\ pass = "initialise" /\ item > Len(allGlobalVars)
  /\ pass' = "main"
  /\ UNCHANGED <<vars, text, loops, tables, numbers, run>>

NamesNext ==
  \/ Load \/ Loaded \/ NextUnit \/ NextPass
  \/ Register \/ ValidateImport \/ CheckBody \/ Number \/ Initialise \/ Main

NamesSpec     == NamesInit /\ [][NamesNext]_<<vars, names>>
FairNamesSpec == NamesSpec /\ WF_<<vars, names>>(NamesNext)

-----------------------------------------------------------------------------

Accepted == pass \in {"number", "initialise", "main"}

\* The declarations of the program, and those before one in the text.
Places ==
  {p \in (DOMAIN units) \X (UNION {DOMAIN text[f].decls : f \in Files}) :
     p[2] \in DOMAIN text[units[p[1]]].decls}
Before(p, q)   == p[1] < q[1] \/ (p[1] = q[1] /\ p[2] < q[2])
GlobalAt(p, n) == DeclAt(p).kind = "global" /\ DeclAt(p).name = n

\* No other declaration has the name of the one at p.
DeclaredOnce(p) == \A q \in Places : DeclAt(q).name = DeclAt(p).name => q = p

\* A program that is accepted reads, in every file, only what that file
\* declares, or what an import of that file asks another file for, which exports
\* it (E_SYMBOL_NOT_IMPORTED, E_IMPORT_NOT_EXPORTED; the three passes of
\* collectModuleGraph see one table for all files).  Unless the import renames
\* it, what is read is what that file declares.
ReadsAreImported ==
  Accepted => \A f \in ToSet(units) : \A i \in DOMAIN text[f].decls : \A n \in text[f].decls[i].reads :
    \/ \E j \in DOMAIN text[f].decls : text[f].decls[j].name = n
    \/ \E k \in DOMAIN text[f].imports : LET m == text[f].imports[k] IN
         /\ m.as = n /\ SourceOf(m) # Unset /\ Exported(SourceOf(m), m.name)
         /\ m.name = n => symbols[n] = SourceOf(m)

\* When the body of main begins, every global that no other file declares too
\* has the value of its own initialiser (the slots are counted through all
\* files, and main runs the initialisers of all of them; generateModuleGraph:
\* "main'i barındıran modülden bağımsız").
GlobalsInitialised ==
  pass = "main" => \A p \in Places : LET n == DeclAt(p).name IN
    GlobalAt(p, n) /\ DeclaredOnce(p) => slots[globalOf[n]] = p

\* An initialiser that reads a global declared before it, in its own file or in
\* a file loaded earlier, reads its value (docs/adr-frontend-analiz.md, ADR-011:
\* a global is used in initialisers after its own).
EarlierAreInitialised ==
  \A r \in reads : \A p \in Places :
    GlobalAt(p, r.name) /\ DeclaredOnce(p) /\ Before(p, r.by) => r.got = p
=============================================================================
