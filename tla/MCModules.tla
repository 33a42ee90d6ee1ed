----------------------------- MODULE MCModules -----------------------------
(***************************************************************************)
(* Instances of Modules: three modules that import from each other in      *)
(* every direction, a plain script, and the ways a host loads them.        *)
(***************************************************************************)
EXTENDS ModuleMeaning

MCFiles == {"a", "b", "c", "d"}

Stmt(op) == [op |-> op]
Named(op, name) == [op |-> op, name |-> name]
From(op, from) == [op |-> op, from |-> from]
FromAs(op, from, as) == [op |-> op, from |-> from, as |-> as]
NamedAs(op, name, as) == [op |-> op, name |-> name, as |-> as]
NamedFromAs(op, name, from, as) == [op |-> op, name |-> name, from |-> from, as |-> as]

\* What a module takes from another, under a name that others use too.
Takes(g) ==
  { << NamedFromAs("import", "x", g, "z") >>,
    << NamedFromAs("import", "z", g, "x") >>,
    << NamedFromAs("import", "x", g, "z"), NamedAs("exportAs", "z", "z") >>,
    << FromAs("importAll", g, "z"), NamedAs("exportAs", "z", "z") >>,
    << NamedFromAs("exportFrom", "x", g, "z") >>,
    << From("exportAll", g) >>,
    << FromAs("exportAllAs", g, "z") >>,
    << From("load", g) >> }

\* What it gives, itself.
Gives ==
  { << Named("exportConst", "x") >>,
    << Named("exportFunction", "x") >>,
    << Named("const", "y"), NamedAs("exportAs", "y", "x") >>,
    << Stmt("exportDefault"), Named("exportConst", "w") >> }

First(g) == {t \o o : t \in Takes(g), o \in Gives}
Late(g) == {o \o t : o \in Gives, t \in Takes(g)}
Failing(g) == {t \o <<Stmt("throw")>> \o o : t \in Takes(g), o \in Gives}

Outer ==
  { <<Named("const", "x"), NamedFromAs("import", "x", "b", "z")>>,
    <<NamedFromAs("import", "z", "b", "w"), NamedFromAs("import", "x", "c", "v")>>,
    <<From("exportAll", "b"), FromAs("importAll", "c", "v")>>,
    <<From("load", "c"), Named("exportConst", "x"), NamedFromAs("import", "x", "b", "u")>>,
    <<NamedFromAs("import", "default", "b", "x"), From("include", "d"), From("dynamic", "c")>>,
    <<From("include", "d"), From("dynamic", "b"), From("include", "d")>> }

World3(a, b, c) ==
  [f \in MCFiles |-> CASE f = "a" -> a [] f = "b" -> b [] f = "c" -> c
                       [] OTHER -> << Named("const", "q"), Stmt("throw") >>]

\* Without cycles every combination; around a cycle of the last two, or of all three,
\* each takes before it gives or the other way round.
Chains ==
  { World3(a, b, c) : a \in Outer, b \in First("c") \cup Late("c") \cup Failing("c"), c \in Gives }
  \cup { World3(a, b, c) : a \in Outer, b \in First("c"),
                           c \in {<<Stmt("throw")>> \o o : o \in Gives} \cup {Missing} }
Cycles ==
  { World3(<<NamedFromAs("import", "x", s, "u"), Named("exportConst", "x")>>, b, c) :
      s \in {"b", "c"}, b \in First("c"), c \in First("b") \cup Late("b") \cup First("a") \cup Late("a") }

Loaded(how) == << [how |-> how, file |-> "a"] >>
AfterC == << [how |-> "module", file |-> "c"], [how |-> "module", file |-> "a"] >>
MCWorlds ==
  [body : Chains, loads : {Loaded("script"), AfterC}]
  \cup [body : Cycles, loads : {Loaded("module")}]
  \cup [body : {World3(a, b, c) : a \in Outer, b \in First("c"), c \in Gives}, loads : {Loaded("load")}]

MCInit == Init /\ Lawful
MCSpec == MCInit /\ [][Next]_vars

----------------------------------------------------------------------------

Bodies == {runs[i] : i \in DOMAIN runs} \cup {finished[i] : i \in DOMAIN finished}

\* A name may be undefined instead if a module it comes through failed, or is in a
\* cycle, where an importer runs before what it imports.
MayLack(found, f) ==
  LET line == found.through \cup {f}
  IN  \/ \E g \in found.through : Fails(g)
      \/ \E g, h \in line : g # h /\ Cyclic(g, h) /\ Cyclic(h, g)
Agrees(value, found, f) == value = found.value \/ (value = Undefined /\ MayLack(found, f))

Stands(s, f, value) ==
  CASE s.op = "import" -> Agrees(value, Linked(s.from, s.name, {}), f)
    [] s.op = "importAll" -> value = Namespace(s.from)
    [] OTHER -> value \in {Made(f, s.name), Undefined}

\* In every body, at every moment, an imported name is the binding it stands for and a
\* declared one the body's own, whatever bodies with the same names were evaluated in
\* between; a namespace holds what its module exports, and all of it once the module
\* has ended.  (handle_import_bind and do_module: a module evaluated in the middle of
\* another must leave its names and its namespace alone, after an error too.)
LinkedAsWritten ==
  /\ \A r \in Bodies : \A s \in Statements(r.file) : \A n \in BoundBy(s) :
       n \in DOMAIN envs[r.env] => Stands(s, r.file, envs[r.env][n])
  /\ \A f \in DOMAIN spaces \ {Anonymous} : \A n \in DOMAIN spaces[f] :
       n \in Names(f, {}) /\ Agrees(spaces[f][n], Linked(f, n, {}), f)
  /\ \A i \in DOMAIN finished :
       LET r == finished[i]
       IN  ~r.failed =>
             /\ \A s \in Statements(r.file) : BoundBy(s) \subseteq DOMAIN envs[r.env]
             /\ r.file \in DOMAIN spaces =>
                  \A n \in Names(r.file, {}) \ DOMAIN spaces[r.file] : MayLack(Linked(r.file, n, {}), r.file)

\* Every module is evaluated once, after the modules it asks for, however many ask for
\* it and whether or not they fail (do_module: "loading and running its source exactly
\* once"; the includes have a list of their own).
EvaluatedOnceInOrder ==
  /\ IsPrefix([i \in DOMAIN finished |-> finished[i].file], Evaluation)
  /\ ~Running /\ loads = <<>> => Len(finished) = Len(Evaluation)
  /\ \A i, j \in DOMAIN runs : i # j => runs[i].file # runs[j].file
=============================================================================
