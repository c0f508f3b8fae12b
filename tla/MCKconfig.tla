----------------------------- MODULE MCKconfig -----------------------------
(***************************************************************************)
(* Small Config.in files for Kconfig.                                      *)
(***************************************************************************)
EXTENDS Kconfig

\* Conditions over names, and entries.
True == {}
On(n) == {{[sym |-> n, val |-> "y", is |-> TRUE]}}
Off(n) == {{[sym |-> n, val |-> "y", is |-> FALSE]}}
Entry(n, t) == [name |-> n, type |-> t, prompt |-> TRUE, menu |-> t = "menu", block |-> "", dep |-> True, if |-> True,
                defaults |-> <<>>, selects |-> {}]
Bool(n) == Entry(n, "bool")
In(b, x) == [x EXCEPT !.block = b]
If(c, x) == [x EXCEPT !.if = c]
Dep(c, x) == [x EXCEPT !.dep = c]
Default(v, c, x) == [x EXCEPT !.defaults = Append(@, [val |-> v, if |-> c])]
Select(n, c, x) == [x EXCEPT !.selects = @ \cup {[sym |-> n, if |-> c]}]
Menu(x) == [x EXCEPT !.menu = TRUE]
Silently(x) == [x EXCEPT !.prompt = FALSE]

\* An architecture, with a value that needs a package, and a version.
Board == <<
    Default(True, True, Bool("A")),
    Default("V2", True, Entry("C", "choice")),
    In("C", Bool("V1")),
    In("C", Dep(On("A"), Bool("V2"))),
    If(On("A"), Default("d", True, Default("x", Off("A"), Entry("X", "string")))),
    Dep(On("V1"), Bool("P"))>>

\* The same a release later: P selects A, V3 is new, X is gone.
NewBoard == <<
    Bool("A"),
    Default("V2", True, Entry("C", "choice")),
    In("C", Bool("V1")),
    In("C", Dep(On("A"), Bool("V2"))),
    In("C", Bool("V3")),
    Select("A", True, Bool("P")),
    Silently(Default(On("P"), Off("V3"), Bool("Q")))>>

\* Menus in menus, one under a menu that is a symbol (menuconfig), and a note.
Nested == <<
    Menu(Bool("A")),
    Dep(On("A"), Entry("M", "menu")),
    In("M", Bool("P")),
    In("M", Entry("N", "menu")),
    In("N", Default(On("P"), True, Bool("Q"))),
    Dep(Off("Q"), Entry("note", "comment"))>>

\* A library that is a menu, is selected, or on by default, where it is not
\* visible, and has a visible option.
Library == <<
    Default(True, True, If(On("A"), Menu(Bool("L")))),
    Dep(On("L"), Bool("O")),
    Select("L", True, Bool("P")),
    Bool("A")>>

\* A selected symbol below one that its selection hides, and below it a symbol
\* that is visible then, where conf does not come.
Deep == <<
    If(Off("P"), Bool("A")),
    Dep(On("A"), Bool("B")),
    Default(Off("P"), True, If(On("B"), Bool("C"))),
    Select("B", True, Bool("P"))>>

Langs == [board |-> Board, newboard |-> NewBoard, nested |-> Nested, library |-> Library,
          deep |-> Deep]

Steps == {<<"board", "newboard">>, <<"newboard", "board">>}

Answers == {"x", "d"}
PackageNames == {"P", "Q"}
BoolFiles(names) == UNION {[d -> {"n", "y"}] : d \in SUBSET names}
Found == [board |-> BoolFiles({"A", "V1"})
                   \cup {[A |-> "y", V1 |-> "y", V2 |-> "y", X |-> "d"],
                         [A |-> "n", V1 |-> "y", X |-> "x", P |-> "n"]},
          newboard |-> BoolFiles({"V1", "P"}),
          nested |-> BoolFiles({"P", "Q"}),
          library |-> BoolFiles({"L", "P"}) \cup {[L |-> "n", O |-> "n", P |-> "y", A |-> "n"]},
          deep |-> {[A |-> "n", C |-> "y", P |-> "n"], [P |-> "y"]}]
=============================================================================
