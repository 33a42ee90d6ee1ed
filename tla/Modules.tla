------------------------------ MODULE Modules ------------------------------
(***************************************************************************)
(* import and export (compiler.c 7517-8060; mario.c do_module,             *)
(* vm_load_run, handle_module to handle_import_bind) and include.  The     *)
(* compiler turns the statements into instructions that run where they     *)
(* stand.  MODULE evaluates a module on the spot, above the body that      *)
(* imports it, on the same scope stack; a registry keeps one namespace per *)
(* specifier.  `runs` is the C stack: the bodies that wait, the innermost  *)
(* last.  A binding is a name with a value; values are known by the module *)
(* that makes them.                                                        *)
(***************************************************************************)
EXTENDS Integers, Sequences, SequencesExt

CONSTANTS
  Files,      \* the specifiers
  Worlds      \* what is in the files, and what the host loads, in order:
              \* [body: [Files -> sequences of statements], loads: Seq([how, file])]

VARIABLES
  world,
  spaces,     \* vm->modules: the registered namespaces (and the anonymous one)
  included,   \* vm->included
  current,    \* vm->cur_module
  runs,       \* the activations of vm_load_run
  envs,       \* the variable environments, the global object first
  byImport,   \* node->be_import: <<environment, name>> of the bindings an import made
  loads,      \* what the host has still to load
  finished    \* history: the bodies that ended, in order

vars == <<world, spaces, included, current, runs, envs, byImport, loads, finished>>

Anonymous == "@@curmod"
NoModule == "no module"
Missing == <<[op |-> "missing"]>>

Undefined == <<"undefined">>
Made(f, name) == <<"value", f, name>>
Namespace(f) == <<"namespace", f>>

Empty == [n \in {} |-> Undefined]
Bound(env, name, value) == (name :> value) @@ env

----------------------------------------------------------------------------
(* The compiler. *)

\* One MODULE for each byImport name: the registry answers all but the first.
ImportBinding(from, member, as) ==
  << <<"MODULE", from>> >> \o member \o << <<"IMPORT_BIND", as>> >>

CompileImport(s) ==
  CASE s.op = "import" -> ImportBinding(s.from, << <<"GET", s.name>> >>, s.as)
    [] s.op = "importAll" -> ImportBinding(s.from, <<>>, s.as)
    [] s.op = "load" -> << <<"MODULE", s.from>>, <<"POP">> >>

DeclareConst(name) == << <<"CONST", name>>, <<"ASIGN", name>> >>
ExportVar(name) == Append(DeclareConst(name), <<"EXPORT", name>>)

\* The definition of an exported function is hoisted, its EXPORT is not.
CompileExportDeclared(s) ==
  CASE s.op = "exportConst" -> ExportVar(s.name)
    [] s.op = "exportFunction" -> << <<"EXPORT", s.name>> >>
    [] s.op = "exportDefault" -> << <<"PUSH", "default">>, <<"EXPORT_VALUE", "default">> >>

CompileExportList(s) ==
  CASE s.op = "exportAs" -> << <<"LOAD", s.name>>, <<"EXPORT_VALUE", s.as>> >>
    [] s.op = "exportFrom" -> << <<"MODULE", s.from>>, <<"GET", s.name>>, <<"EXPORT_VALUE", s.as>> >>
    [] s.op = "exportAll" -> << <<"MODULE", s.from>>, <<"EXPORT_STAR">> >>
    [] s.op = "exportAllAs" -> << <<"MODULE", s.from>>, <<"EXPORT_VALUE", s.as>> >>

\* The namespace goes through Promise.resolve, and nobody waits for it.
CompileDynamic(from) == << <<"MODULE_V", from>>, <<"POP">> >>

Imports == {"import", "importAll", "load"}
Declares == {"exportConst", "exportFunction", "exportDefault"}
Lists == {"exportAs", "exportFrom", "exportAll", "exportAllAs"}

CompileStatement(s) ==
  CASE s.op \in Imports -> CompileImport(s)
    [] s.op = "dynamic" -> CompileDynamic(s.from)
    [] s.op \in Declares -> CompileExportDeclared(s)
    [] s.op \in Lists -> CompileExportList(s)
    [] s.op = "const" -> DeclareConst(s.name)
    [] s.op = "include" -> << <<"INCLUDE", s.from>> >>
    [] s.op = "throw" -> << <<"THROW">> >>

Hoisted(body) ==
  LET functions == SelectSeq(body, LAMBDA s : s.op = "exportFunction")
  IN  [i \in DOMAIN functions |-> <<"MEMBERN", functions[i].name>>]

Compile(body) ==
  Hoisted(body) \o FlattenSeq([i \in DOMAIN body |-> CompileStatement(body[i])]) \o << <<"END">> >>

\* bc.chunk_is_module.
IsModule(body) == \E i \in DOMAIN body : body[i].op \in Imports \cup Declares \cup Lists

----------------------------------------------------------------------------
(* Running a body. *)

Running == runs # <<>>
Run == Last(runs)
At(opcode) == Running /\ Head(Run.code)[1] = opcode
Operand == Head(Run.code)[2]
Body(f) == world.body[f]

Advanced(value) ==
  [runs EXCEPT ![Len(runs)] = [@ EXCEPT !.code = Tail(@), !.operand = value]]
Advance(value) == runs' = Advanced(value)

\* vm_load_node: the innermost scope that has the name.  The scopes of the bodies that
\* wait are on the stack below that of the running one; they are numbered as they open.
Scopes == {1} \cup {runs[i].env : i \in DOMAIN runs}
Holders(name) == {e \in Scopes : name \in DOMAIN envs[e]}
Holder(name) == CHOOSE e \in Holders(name) : \A d \in Holders(name) : d <= e

Bind(e, name, value) == envs' = [envs EXCEPT ![e] = Bound(@, name, value)]

\* vm_load_run up to vm_run: a body with import or export syntax gets a scope of its
\* own, and a namespace if its caller gave it none.
LoadRun(f, how, home, waiting, known) ==
  LET module == how # "script" /\ IsModule(Body(f))
      anonymous == module /\ home = NoModule
      outer == IF Running THEN Run.env ELSE 1
  IN  /\ runs' = Append(waiting,
                   [file |-> f, how |-> how, code |-> Compile(Body(f)), operand |-> Undefined,
                    env |-> IF module THEN Len(envs) + 1 ELSE outer, saved |-> current])
      /\ envs' = IF module THEN Append(envs, Empty) ELSE envs
      /\ current' = IF anonymous THEN Anonymous ELSE home
      /\ spaces' = IF anonymous THEN Bound(known, Anonymous, Empty) ELSE known

\* The end of vm_load_run, and of do_module or vm_load_run_module around it: an error
\* that nothing in the body caught is reported, and the importer goes on.
Leave(failed) ==
  /\ runs' = Front(runs)
  /\ current' = Run.saved
  /\ finished' = Append(finished, [file |-> Run.file, env |-> Run.env, failed |-> failed])
  /\ UNCHANGED <<world, spaces, included, envs, byImport, loads>>

\* The host: the command line runs its script as it is; an embedder runs the body of
\* a <script type="module">, with its address or without one.
HostLoads ==
  /\ ~Running /\ loads # <<>>
  /\ LET next == Head(loads)
     IN  IF next.how = "module"
         THEN LoadRun(next.file, next.how, next.file, runs,
                      IF next.file \in DOMAIN spaces THEN spaces
                                                     ELSE Bound(spaces, next.file, Empty))
         ELSE LoadRun(next.file, next.how, current, runs, spaces)
  /\ loads' = Tail(loads)
  /\ UNCHANGED <<world, included, byImport, finished>>

\* Mutant of DoModule: a module is known once its body has ended.
DoModule_Late ==
  /\ LET f == Operand
         after == Advanced(Namespace(f))
         known == f \in DOMAIN spaces /\ \A i \in DOMAIN runs : runs[i].file # f
     IN  \/ /\ known
            /\ runs' = after
            /\ UNCHANGED <<spaces, current, envs>>
         \/ /\ ~known /\ Body(f) = Missing
            /\ runs' = after
            /\ spaces' = Bound(spaces, f, Empty)
            /\ UNCHANGED <<current, envs>>
         \/ /\ ~known /\ Body(f) # Missing
            /\ LoadRun(f, "import", f, after, Bound(spaces, f, Empty))
  /\ UNCHANGED <<world, included, byImport, loads, finished>>

\* do_module.
DoModule ==
  /\ LET f == Operand
         after == Advanced(Namespace(f))
     IN  \/ /\ f \in DOMAIN spaces
            /\ runs' = after
            /\ UNCHANGED <<spaces, current, envs>>
         \/ /\ f \notin DOMAIN spaces /\ Body(f) = Missing
            /\ runs' = after
            /\ spaces' = Bound(spaces, f, Empty)
            /\ UNCHANGED <<current, envs>>
         \/ /\ f \notin DOMAIN spaces /\ Body(f) # Missing
            /\ LoadRun(f, "import", f, after, Bound(spaces, f, Empty))
  /\ UNCHANGED <<world, included, byImport, loads, finished>>

HandleModule == At("MODULE") /\ DoModule
HandleModuleV == At("MODULE_V") /\ DoModule

\* do_include: what the file exports goes to the namespace of the body that includes it.
HandleInclude ==
  /\ At("INCLUDE")
  /\ LET f == Operand
         after == Advanced(Undefined)
     IN  IF f \in included \/ Body(f) = Missing
         THEN /\ runs' = after
              /\ UNCHANGED <<spaces, included, current, envs>>
         ELSE /\ included' = included \cup {f}
              /\ LoadRun(f, "include", current, after, spaces)
  /\ UNCHANGED <<world, byImport, loads, finished>>

HandleEnd == At("END") /\ Leave(FALSE)
HandleThrow == At("THROW") /\ Leave(TRUE)

----------------------------------------------------------------------------
(* The instructions on names. *)

OnNames == UNCHANGED <<world, included, current, loads, finished>>

\* A member the namespace does not have (yet) is undefined.
HandleGet ==
  /\ At("GET")
  /\ LET space == spaces[Run.operand[2]]
     IN  Advance(IF Operand \in DOMAIN space THEN space[Operand] ELSE Undefined)
  /\ OnNames /\ UNCHANGED <<spaces, envs, byImport>>

HandlePop == At("POP") /\ Advance(Undefined) /\ OnNames /\ UNCHANGED <<spaces, envs, byImport>>

HandlePush == At("PUSH") /\ Advance(Made(Run.file, Operand)) /\ OnNames /\ UNCHANGED <<spaces, envs, byImport>>

\* Mutant of HandleImportBind: the binding of that name which the body can see.
HandleImportBind_Outward ==
  /\ At("IMPORT_BIND")
  /\ Bind(IF Holders(Operand) = {} THEN Run.env ELSE Holder(Operand), Operand, Run.operand)
  /\ byImport' = byImport \cup {<<Run.env, Operand>>}
  /\ Advance(Undefined)
  /\ OnNames /\ UNCHANGED spaces

\* Into the variable environment of the body, never further out.
HandleImportBind ==
  /\ At("IMPORT_BIND")
  /\ Bind(Run.env, Operand, Run.operand)
  /\ byImport' = byImport \cup {<<Run.env, Operand>>}
  /\ Advance(Undefined)
  /\ OnNames /\ UNCHANGED spaces

\* handle_const: a name that is there already keeps its value, unless an import made it.
HandleConst ==
  /\ At("CONST")
  /\ LET here == <<Run.env, Operand>>
     IN  /\ IF Operand \in DOMAIN envs[Run.env] /\ here \notin byImport
            THEN UNCHANGED envs
            ELSE Bind(Run.env, Operand, Undefined)
         /\ byImport' = byImport \ {here}
  /\ Advance(Undefined)
  /\ OnNames /\ UNCHANGED spaces

HandleAsign ==
  /\ At("ASIGN")
  /\ Bind(Holder(Operand), Operand, Made(Run.file, Operand))
  /\ Advance(Undefined)
  /\ OnNames /\ UNCHANGED <<spaces, byImport>>

HandleMembern ==
  /\ At("MEMBERN")
  /\ Bind(Run.env, Operand, Made(Run.file, Operand))
  /\ Advance(Undefined)
  /\ OnNames /\ UNCHANGED <<spaces, byImport>>

\* handle_load: reading a name that nobody has makes an empty binding of it.
HandleLoad ==
  /\ At("LOAD")
  /\ IF Holders(Operand) # {}
     THEN Advance(envs[Holder(Operand)][Operand]) /\ UNCHANGED envs
     ELSE Advance(Undefined) /\ Bind(Run.env, Operand, Undefined)
  /\ OnNames /\ UNCHANGED <<spaces, byImport>>

Publish(name, value) ==
  spaces' = IF current = NoModule THEN spaces
            ELSE [spaces EXCEPT ![current] = Bound(@, name, value)]

\* The value of now: the namespace does not follow the binding.
HandleExport ==
  /\ At("EXPORT")
  /\ IF Holders(Operand) = {} THEN UNCHANGED spaces
                              ELSE Publish(Operand, envs[Holder(Operand)][Operand])
  /\ Advance(Undefined)
  /\ OnNames /\ UNCHANGED <<envs, byImport>>

HandleExportValue ==
  /\ At("EXPORT_VALUE")
  /\ Publish(Operand, Run.operand)
  /\ Advance(Undefined)
  /\ OnNames /\ UNCHANGED <<envs, byImport>>

HandleExportStar ==
  /\ At("EXPORT_STAR")
  /\ spaces' = IF current = NoModule THEN spaces
               ELSE [spaces EXCEPT ![current] = spaces[Run.operand[2]] @@ @]
  /\ Advance(Undefined)
  /\ OnNames /\ UNCHANGED <<envs, byImport>>

Init ==
  /\ world \in Worlds
  /\ spaces = [f \in {} |-> Empty] /\ included = {} /\ current = NoModule
  /\ runs = <<>> /\ envs = <<Empty>> /\ byImport = {}
  /\ loads = world.loads
  /\ finished = <<>>

Next ==
  \/ HostLoads
  \/ HandleModule \/ HandleModuleV \/ HandleInclude \/ HandleEnd \/ HandleThrow
  \/ HandleGet \/ HandlePop \/ HandlePush \/ HandleImportBind
  \/ HandleConst \/ HandleAsign \/ HandleMembern \/ HandleLoad
  \/ HandleExport \/ HandleExportValue \/ HandleExportStar

Spec == Init /\ [][Next]_vars
=============================================================================
