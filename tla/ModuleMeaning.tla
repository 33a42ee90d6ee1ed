--------------------------- MODULE ModuleMeaning ---------------------------
(***************************************************************************)
(* What import and export mean, read from the text of the modules alone:   *)
(* which binding an imported name stands for, and the order in which the   *)
(* modules are evaluated.  One thing is this engine's own: an error in a   *)
(* module is reported and its importers go on without what it has not      *)
(* exported.                                                               *)
(***************************************************************************)
EXTENDS Modules, FiniteSets

Statements(f) == {Body(f)[i] : i \in DOMAIN Body(f)}
Ops(f, ops) == {s \in Statements(f) : s.op \in ops}

Fails(f) == Ops(f, {"throw", "missing"}) # {}

Exported(s) ==
  CASE s.op \in {"exportConst", "exportFunction"} -> s.name
    [] s.op = "exportDefault" -> "default"
    [] OTHER -> s.as

Exporting(f) == Ops(f, (Declares \cup Lists) \ {"exportAll"})

\* The modules a file asks for, in the order of the text.
Requests(f) ==
  LET asks == SelectSeq(Body(f), LAMBDA s : s.op \in Imports \cup {"dynamic", "include", "exportFrom", "exportAll", "exportAllAs"})
  IN  [i \in DOMAIN asks |-> asks[i].from]

RECURSIVE Reach(_, _)
Reach(f, seen) ==
  IF f \in seen THEN seen
  ELSE FoldLeft(LAMBDA acc, g : Reach(g, acc), seen \cup {f}, Requests(f))
Cyclic(f, g) == f \in Reach(g, {})

\* The value that name is in module f, and the modules it comes through.
Nothing == [value |-> Undefined, through |-> {}]
Here(f, value) == [value |-> value, through |-> {f}]
Through(f, found) == IF found = Nothing THEN Nothing
                     ELSE [found EXCEPT !.through = @ \cup {f}]

RECURSIVE Linked(_, _, _)
Linked(f, name, seen) ==
  LET Via(from, n) == Through(f, Linked(from, n, seen \cup {<<f, name>>}))
      Local(n) ==
        LET imported == {s \in Ops(f, {"import", "importAll"}) : s.as = n}
        IN  IF imported = {} THEN Here(f, Made(f, n))
            ELSE LET s == CHOOSE s \in imported : TRUE
                 IN  IF s.op = "import" THEN Via(s.from, s.name) ELSE Here(f, Namespace(s.from))
      direct == {s \in Exporting(f) : Exported(s) = name}
      starred == {Via(s.from, name) : s \in Ops(f, {"exportAll"})} \ {Nothing}
      Stands(s) ==
        CASE s.op \in Declares -> Here(f, Made(f, name))
          [] s.op = "exportAs" -> Local(s.name)
          [] s.op = "exportFrom" -> Via(s.from, s.name)
          [] s.op = "exportAllAs" -> Here(f, Namespace(s.from))
  IN  IF <<f, name>> \in seen \/ Body(f) = Missing THEN Nothing
      ELSE IF direct # {} THEN Stands(CHOOSE s \in direct : TRUE)
      ELSE IF starred = {} THEN Nothing
      ELSE CHOOSE found \in starred : TRUE

RECURSIVE Names(_, _)
Names(f, seen) ==
  IF f \in seen THEN {}
  ELSE {Exported(s) : s \in Exporting(f)}
       \cup UNION {Names(s.from, seen \cup {f}) : s \in Ops(f, {"exportAll"})}

\* Depth first, each module once, after those it asks for.
RECURSIVE Visit(_, _)
Visit(st, f) ==
  IF f \in st.seen \/ Body(f) = Missing THEN st
  ELSE LET after == FoldLeft(Visit, [st EXCEPT !.seen = @ \cup {f}], Requests(f))
       IN  [after EXCEPT !.order = Append(@, f)]
Evaluation == FoldLeft(Visit, [seen |-> {}, order |-> <<>>],
                       [i \in DOMAIN world.loads |-> world.loads[i].file]).order

----------------------------------------------------------------------------
(* Worlds in which the engine is to do what the language says. *)

BoundBy(s) == CASE s.op \in {"import", "importAll"} -> {s.as}
                [] s.op \in {"exportConst", "exportFunction", "const"} -> {s.name}
                [] OTHER -> {}

Distinct(f) ==
  \A i, j \in DOMAIN Body(f) :
    i # j => LET s == Body(f)[i]  t == Body(f)[j]
             IN  /\ BoundBy(s) \cap BoundBy(t) = {}
                 /\ s \in Exporting(f) /\ t \in Exporting(f) => Exported(s) # Exported(t)

\* A star export overwrites what stands before it, and takes the default along.
StarsAreClear(f) ==
  \A s \in Ops(f, {"exportAll"}) :
    /\ "default" \notin Names(s.from, {})
    /\ \A t \in Exporting(f) : Exported(t) \notin Names(s.from, {})
    /\ \A t \in Ops(f, {"exportAll"}) \ {s} : Names(t.from, {}) \cap Names(s.from, {}) = {}

\* Nothing is hoisted but functions: a local name is exported after it is bound, and
\* what follows a throw is not evaluated.
InOrder(f) ==
  \A i \in DOMAIN Body(f) :
    /\ Body(f)[i].op = "exportAs" => \E j \in 1 .. i - 1 : Body(f)[i].name \in BoundBy(Body(f)[j])
    /\ Body(f)[i].op = "throw" =>
         \A j \in DOMAIN Body(f) : j > i => Body(f)[j].op \in Declares \cup {"const"}

Resolved(f) ==
  \A s \in Ops(f, {"import", "exportFrom"}) :
    Body(s.from) # Missing => Linked(s.from, s.name, {}) # Nothing

\* The registry and the list of included files know nothing of each other, and neither
\* of the command line's script; a file that is included is a plain script.
Plain(f) == Body(f) # Missing /\ Ops(f, {"const", "throw"}) = Statements(f)
Entries == {world.loads[i].file : i \in DOMAIN world.loads}
Asked(ops) == UNION {{s.from : s \in Ops(f, ops)} : f \in Files}
AskedOnce ==
  LET includes == Asked({"include"})
      modules == Asked(Imports \cup {"dynamic", "exportFrom", "exportAll", "exportAllAs"})
  IN  /\ includes \cap (modules \cup Entries) = {}
      /\ \A f \in includes : Plain(f)
      /\ \A f \in Entries : Body(f) # Missing
      /\ \A i \in DOMAIN world.loads :
           /\ world.loads[i].how # "module" => world.loads[i].file \notin modules
           /\ \A j \in 1 .. i - 1 : world.loads[i].file \notin Reach(world.loads[j].file, {})

Lawful ==
  AskedOnce /\ \A f \in Files : Distinct(f) /\ StarsAreClear(f) /\ InOrder(f) /\ Resolved(f)
=============================================================================
