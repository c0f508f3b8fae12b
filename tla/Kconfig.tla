------------------------------ MODULE Kconfig ------------------------------
(***************************************************************************)
(* The configuration language and its command-line front end                *)
(* (package/config: menu.c, symbol.c, confdata.c, conf.c) under the targets *)
(* config, oldconfig, silentoldconfig, defconfig, savedefconfig and         *)
(* all{yes,no}{,package}config of the Makefile.                             *)
(*                                                                          *)
(* A run of conf reads a file, lets the user or a rule give values to what  *)
(* is new, and writes .config; silentoldconfig, which make itself starts    *)
(* when .config is newer than auto.conf, also writes auto.conf and          *)
(* autoconf.h.  A run may be killed, and the Config.in files may change     *)
(* between two runs.                                                        *)
(*                                                                          *)
(* The Config.in files of this repository have boolean and string symbols,  *)
(* choices that are not optional, menus, symbols that are menus, too        *)
(* (menuconfig), and comments; without modules a tristate is a boolean, and *)
(* without ranges a number is a string.  A condition is a set of clauses,   *)
(* a clause a set of literals [sym, val, is]: sym has the value val, or has *)
(* not.                                                                     *)
(***************************************************************************)
EXTENDS Naturals, Sequences, FiniteSets, FiniteSetsExt

CONSTANTS Languages,   \* Config.in: name -> its entries, in the order of the file
          Texts,       \* values of string symbols
          Packages,    \* names that begin with BR2_PACKAGE_
          Configs,     \* name -> files that the first run may find as .config
          Releases,    \* pairs of names: the second may follow the first
          NoFile, MaxRuns, MaxKills

ASSUME BoundsAssumption == {MaxRuns, MaxKills} \subseteq Nat

Contents == {"", "n", "y"} \cup Texts
ASSUME ConfigsAssumption ==
    \A l \in DOMAIN Languages : \A f \in Configs[l] : \A n \in DOMAIN f : f[n] \in Contents

VARIABLES
    lang,      \* the Config.in files
    e,         \* their entries, as conf_parse leaves them in memory
    config,    \* .config
    minimal,   \* the file savedefconfig wrote
    auto,      \* auto.conf
    header,    \* autoconf.h
    fresh,     \* auto.conf is newer than .config: make does not run silentoldconfig
    touched,   \* symbols whose own header was touched since auto.conf was written
    mode,      \* the target
    phase,     \* where conf is
    mem,       \* what it holds of the symbols
    stack,     \* the calls of check_conf and conf, each with the entries left to it
    again,     \* conf_cnt is not 0
    rootEntry, \* menu that conf was last called for by check_conf
    tmp,       \* .tmpconfig.<pid>
    \* history
    ours,      \* .config was written by a run under these Config.in files
    saved,     \* the .config that minimal was made from, if it was ours
    goal,      \* what this run has to reproduce, NoFile if nothing
    wish,      \* values the file, the user or the target gave
    excused,   \* symbols whose wish is known to be lost (see Answer and Marks)
    runs, kills

source == <<lang, e>>
disk == <<source, config, minimal, auto, header, fresh, touched, ours, saved>>
walk == <<stack, again, rootEntry>>
process == <<mode, phase, mem, walk, tmp, goal, wish, excused>>
vars == <<disk, process, runs, kills>>

Modes == {"config", "oldconfig", "silentoldconfig", "defconfig", "savedefconfig",
          "allyesconfig", "allnoconfig", "allyespackageconfig", "allnopackageconfig"}
AllModes == {"allyesconfig", "allnoconfig", "allyespackageconfig", "allnopackageconfig"}
PackageModes == {"allyespackageconfig", "allnopackageconfig"}
EmptyFile == [n \in {} |-> ""]
\* File f with one more line, and with what g has lines for and f has not.
Line(n, v, f) == [x \in {n} \cup DOMAIN f |-> IF x = n THEN v ELSE f[x]]
Over(f, g) == [n \in DOMAIN f \cup DOMAIN g |-> IF n \in DOMAIN f THEN f[n] ELSE g[n]]

-----------------------------------------------------------------------------
(* What the entries of the Config.in files come to.  A symbol is named by   *)
(* the place of its entry from here on, 0 is rootmenu.  A value of a choice *)
(* depends on the choice, that is on the choice being visible.              *)

Is(s, v) == [sym |-> s, val |-> v, is |-> TRUE]
Yes(s) == {Is(s, "y")}

Pos(raw, n) == CHOOSE i \in 1 .. Len(raw) : raw[i].name = n
Placed(raw, c) == {{[l EXCEPT !.sym = Pos(raw, l.sym)] : l \in k} : k \in c}

\* What an entry depends on, with the blocks around it; and when it is visible.
Depends(raw) ==
    LET Dep[i \in 1 .. Len(raw)] ==
          Placed(raw, raw[i].dep) \cup
          IF raw[i].block = "" THEN {}
          ELSE Dep[Pos(raw, raw[i].block)] \cup Placed(raw, raw[Pos(raw, raw[i].block)].if)
    IN  Dep
Visible(raw, dep, i) == dep[i] \cup Placed(raw, raw[i].if)

\* Entry j becomes a child of symbol i.
Absorbs(raw, dep, i, j) ==
    LET shown == IF raw[j].prompt THEN Visible(raw, dep, j) ELSE dep[j]
    IN  /\ raw[j].block = raw[i].block
        /\ i \in {l.sym : l \in UNION shown}
        /\ \/ Yes(i) \in shown
           \/ raw[i].prompt => Visible(raw, dep, i) \subseteq shown

\* The last entry under symbol i, and under every entry.
Absorbed(raw, dep, last, i) ==
    LET End[j \in i + 1 .. Len(raw) + 1] ==
          IF j <= Len(raw) /\ Absorbs(raw, dep, i, j) THEN End[last[j] + 1] ELSE j - 1
    IN  End[i + 1]
Inside(raw, i) == {j \in 1 .. Len(raw) : raw[j].block = raw[i].name}
Lasts(raw, dep) ==
    LET Last[i \in 1 .. Len(raw)] ==
          CASE raw[i].type \in {"bool", "string"} -> Absorbed(raw, dep, Last, i)
            [] raw[i].type \in {"choice", "menu"} ->
                 Max({i} \cup {Last[j] : j \in Inside(raw, i)})
            [] OTHER -> i
    IN  Last

ValuesOf(raw, i) ==
    {j \in 1 .. Len(raw) : raw[i].type = "choice" /\ raw[j].block = raw[i].name
                           /\ raw[j].type = "bool"}

\* What the entry becomes: the choice it is a value of, its defaults with the
\* conditions of what it is in, and when a select sets it.
FinalChoice(raw, i) ==
    IF \E c \in 1 .. Len(raw) : i \in ValuesOf(raw, c) THEN Pos(raw, raw[i].block) ELSE 0
FinalDefault(raw, dep, i, k) ==
    LET d == raw[i].defaults[k]
    IN  [val |-> CASE raw[i].type = "bool" -> Placed(raw, d.val)
                   [] raw[i].type = "choice" -> Pos(raw, d.val)
                   [] OTHER -> d.val,
         if |-> dep[i] \cup Placed(raw, d.if)]
FinalRev(raw, dep, i) ==
    UNION {{{Yes(j)} \cup dep[j] \cup Placed(raw, d.if) :
              d \in {x \in raw[j].selects : x.sym = raw[i].name}} : j \in 1 .. Len(raw)}

menu_finalize(raw) ==
    LET dep == Depends(raw)
        last == Lasts(raw, dep)
    IN  [i \in 1 .. Len(raw) |->
           [name |-> raw[i].name, type |-> raw[i].type, prompt |-> raw[i].prompt,
            menu |-> raw[i].menu,
            visible |-> Visible(raw, dep, i),
            last |-> IF raw[i].prompt THEN last[i] ELSE i,
            values |-> ValuesOf(raw, i),
            choice |-> FinalChoice(raw, i),
            defaults |-> [k \in DOMAIN raw[i].defaults |-> FinalDefault(raw, dep, i, k)],
            rev |-> FinalRev(raw, dep, i)]]

\* The conditions that say what entry s is, and the symbols it depends on.
Conditions(x, s) ==
    {x[s].visible} \cup x[s].rev \cup {x[v].visible : v \in x[s].values}
    \cup {x[s].defaults[k].if : k \in DOMAIN x[s].defaults}
    \cup {x[s].defaults[k].val : k \in {d \in DOMAIN x[s].defaults : x[s].type = "bool"}}
Syms(c) == {l.sym : l \in UNION c}
Needs(x, s) == (UNION {Syms(c) : c \in Conditions(x, s)}) \cup ({x[s].choice} \ {0})
\* What sym_check_deps calls an error: a value that depends on itself.  conf goes
\* on all the same; this is about Config.in files that it has no error for.
sym_check_deps(x) ==
    \A S \in SUBSET DOMAIN x : S # {} => \E s \in S : Needs(x, s) \cap S = {}

\* The entries of a language: names are different, blocks end in the order the
\* grammar has them end in, a choice or a menu has a prompt, conditions are about
\* booleans and strings.
Literals(names) == [sym : names, val : Contents, is : BOOLEAN]
Known(raw, c) ==
    LET Places == {i \in 1 .. Len(raw) : raw[i].type \in {"bool", "string"}}
    IN  UNION c \subseteq Literals({raw[i].name : i \in Places})
Encloses(raw, j, i) ==
    /\ raw[j].type \in {"choice", "menu"}
    /\ raw[j].name = raw[i].block
    /\ \A k \in j + 1 .. i : \E b \in j .. k - 1 : raw[b].name = raw[k].block
WellFormed(raw) ==
    LET Places == 1 .. Len(raw)
    IN  /\ Len(raw) \in Nat
        /\ \A i, j \in Places : raw[i].name = raw[j].name => i = j
        /\ \A i \in Places :
             /\ raw[i].type \in {"bool", "string", "choice", "menu", "comment"}
             /\ raw[i].prompt \in BOOLEAN /\ raw[i].menu \in BOOLEAN
             /\ raw[i].name # ""
             /\ raw[i].type = "choice" \/ raw[i].menu => raw[i].prompt
             /\ raw[i].type = "menu" => raw[i].menu
             /\ raw[i].type \in {"choice", "comment"} => ~raw[i].menu
             /\ raw[i].block = "" \/ \E j \in 1 .. i - 1 : Encloses(raw, j, i)
             /\ Known(raw, raw[i].dep) /\ Known(raw, raw[i].if)
             /\ DOMAIN raw[i].defaults \subseteq Nat
             /\ \A k \in DOMAIN raw[i].defaults :
                  /\ Known(raw, raw[i].defaults[k].if)
                  /\ raw[i].type = "bool" => Known(raw, raw[i].defaults[k].val)
                  /\ raw[i].type = "string" => raw[i].defaults[k].val \in Contents
             /\ raw[i].selects # {} => raw[i].type = "bool"
             /\ \A x \in raw[i].selects : Known(raw, x.if)
ASSUME LanguagesAssumption ==
    \A l \in DOMAIN Languages : /\ WellFormed(Languages[l])
                                /\ sym_check_deps(menu_finalize(Languages[l]))

\* Nothing lies under a value of a choice, so what is in a choice is its values
\* and comments: no file of the repository has it otherwise, and conf_choice's
\* calls of conf for what is under the value chosen find nothing.
ASSUME ChoicesAssumption ==
    \A l \in DOMAIN Languages :
        LET x == menu_finalize(Languages[l])
        IN  \A v \in DOMAIN x : x[v].choice # 0 => x[v].last = v

\* NoFile is neither a file nor a memory.
Names == UNION {{Languages[l][i].name : i \in 1 .. Len(Languages[l])} : l \in DOMAIN Languages}
Memories(n) ==
    [has : SUBSET (1 .. n), def : [1 .. n -> {NoFile} \cup Contents], pick : [1 .. n -> 0 .. n],
     sol : [1 .. n -> [vis : BOOLEAN, rev : BOOLEAN, write : BOOLEAN, default : Contents,
                       preset : 0 .. n, chosen : 0 .. n, val : Contents]],
     write : SUBSET (1 .. n), changed : BOOLEAN]
ASSUME NoFileAssumption ==
    /\ NoFile \notin Contents
    /\ \A d \in SUBSET Names : NoFile \notin [d -> Contents]
    /\ \A l \in DOMAIN Languages : /\ NoFile \notin Configs[l]
                                /\ NoFile \notin Memories(Len(Languages[l]))

Entries == 1 .. Len(e)
ChoiceSyms == {i \in Entries : e[i].type = "choice"}
Values == {i \in Entries : e[i].choice # 0}
Named == {i \in Entries : e[i].type \in {"bool", "string"}}
Children(i) == {j \in i + 1 .. e[i].last : \A k \in i + 1 .. j - 1 : e[k].last < j}
menu_get_parent_menu(i) ==
    LET above == {k \in 1 .. i : e[k].menu /\ i <= e[k].last}
    IN  IF above = {} THEN 0 ELSE Max(above)

-----------------------------------------------------------------------------
(* The values of the symbols.  mem.has, mem.def and mem.pick are what the   *)
(* user gave: SYMBOL_DEF_USER, def[S_DEF_USER], and def[S_DEF_USER].val of  *)
(* a choice.  mem.sol is what sym_calc_value made of them since they were   *)
(* last declared invalid, mem.write the symbols with SYMBOL_WRITE.          *)

Blank(x, s) == IF x[s].type = "string" THEN "" ELSE "n"
Unset(s) == IF e[s].type = "string" THEN NoFile ELSE "n"

Sat(sol, c) == \A k \in c : \E l \in k : (sol[l.sym].val = l.val) = l.is

sym_calc_visibility(x, sol, s) == x[s].prompt /\ Sat(sol, x[s].visible)
rev_dep(x, sol, s) == \E c \in x[s].rev : Sat(sol, c)
\* The defaults that apply; the first of them is the one that counts.
Defaults(x, sol, s) == {k \in DOMAIN x[s].defaults : Sat(sol, x[s].defaults[k].if)}
sym_get_default(x, sol, s) ==
    LET good == Defaults(x, sol, s)
        d == x[s].defaults[Min(good)].val
    IN  IF good = {} THEN Blank(x, s)
        ELSE IF x[s].type = "string" THEN d ELSE IF Sat(sol, d) THEN "y" ELSE "n"

Choosable(x, sol, c) == {v \in x[c].values : sym_calc_visibility(x, sol, v)}
sym_choice_default(x, sol, c) ==
    LET shown == Choosable(x, sol, c)
        first == {k \in Defaults(x, sol, c) : x[c].defaults[k].val \in shown}
    IN  IF first # {} THEN x[c].defaults[Min(first)].val
        ELSE IF shown # {} THEN Min(shown) ELSE 0
sym_calc_choice(x, m, sol, c) ==
    IF m.pick[c] \in Choosable(x, sol, c) THEN m.pick[c] ELSE sym_choice_default(x, sol, c)

\* What symbol s of the entries x is, if the others are as in sol.
SymValue(x, m, sol, s) ==
    LET vis == sym_calc_visibility(x, sol, s)
        rev == rev_dep(x, sol, s)
        chosen == sym_calc_choice(x, m, sol, s)
        default == sym_get_default(x, sol, s)
    IN  CASE x[s].type = "choice" ->
               [vis |-> vis, rev |-> vis, write |-> vis, default |-> "n",
                preset |-> sym_choice_default(x, sol, s), chosen |-> IF vis THEN chosen ELSE 0,
                val |-> IF vis /\ chosen # 0 THEN "y" ELSE "n"]
          [] x[s].choice # 0 ->
               [vis |-> vis, rev |-> FALSE, write |-> vis, default |-> "n", preset |-> 0, chosen |-> 0,
                val |-> IF vis /\ sol[x[s].choice].chosen = s THEN "y" ELSE "n"]
          [] x[s].type \in {"bool", "string"} /\ x[s].choice = 0 ->
               [vis |-> vis, rev |-> rev, write |-> vis \/ rev \/ Defaults(x, sol, s) # {},
                default |-> IF rev THEN "y" ELSE default, preset |-> 0, chosen |-> 0,
                val |-> CASE rev -> "y"
                          [] ~rev /\ vis /\ s \in m.has -> m.def[s]
                          [] OTHER -> default]
          [] OTHER ->
               [vis |-> vis, rev |-> FALSE, write |-> FALSE, default |-> "n", preset |-> 0, chosen |-> 0,
                val |-> "n"]

sym_calc_value(m) ==
    LET Sol[s \in Entries] == SymValue(e, m, Sol, s)
    IN  [s \in Entries |-> Sol[s]]

\* All values are computed anew; a value of a choice keeps SYMBOL_WRITE until
\* it is written.
Calculated(m, sol) ==
    [m EXCEPT !.sol = sol,
              !.write = {s \in Named : sol[s].write} \cup (@ \cap Values)]
Calc(m) == Calculated(m, sym_calc_value(m))

\* Seeded fault: what was computed stays valid.
sym_clear_none(m) == [m EXCEPT !.changed = TRUE]

sym_clear_all_valid(m) == [Calc(m) EXCEPT !.changed = TRUE]

sym_is_changable(m, s) == m.sol[s].vis /\ ~m.sol[s].rev

\* Seeded fault: the other values of the choice stay new.
sym_set_one_value(m, s, v) ==
    LET c == e[s].choice
        given == [m EXCEPT !.has = @ \cup {s} \cup IF c # 0 /\ v = "y" THEN {c} ELSE {},
                           !.pick = IF c # 0 /\ v = "y" THEN [@ EXCEPT ![c] = s] ELSE @,
                           !.def[s] = v]
    IN  IF m.sol[s].val = v THEN given ELSE sym_clear_all_valid(given)

\* For a value that sym_tristate_within_range admits.
sym_set_tristate_value(m, s, v) ==
    LET c == e[s].choice
        all == c # 0 /\ v = "y"
        shown == {x \in e[c].values : m.sol[x].vis}
        given == [m EXCEPT !.has = @ \cup {s} \cup IF all THEN {c} \cup shown ELSE {},
                           !.pick = IF all THEN [@ EXCEPT ![c] = s] ELSE @,
                           !.def[s] = v]
    IN  IF m.sol[s].val = v THEN given ELSE sym_clear_all_valid(given)

sym_set_string_value(m, s, v) ==
    LET given == [m EXCEPT !.has = @ \cup {s}, !.def[s] = v]
    IN  IF m.def[s] = v THEN given ELSE sym_clear_all_valid(given)

-----------------------------------------------------------------------------
(* Reading.  A file is a function from the names it has a line for to their *)
(* values, "n" for "is not set".  Its lines are in the order of the menus.  *)

\* After conf_parse.
Parsed == [has |-> {}, def |-> [s \in Entries |-> Unset(s)], pick |-> [s \in Entries |-> 0],
           sol |-> [s \in Entries |-> [val |-> "n"]], write |-> {}, changed |-> FALSE]

conf_read_simple(file) ==
    LET named == {s \in Named : e[s].name \in DOMAIN file}
        Val(s) == file[e[s].name]
        Yeses(c) == {v \in e[c].values \cap named : Val(v) = "y"}
    IN  [Parsed EXCEPT
           !.has = named \cup ChoiceSyms,
           !.def = [s \in Entries |-> IF s \in named THEN Val(s) ELSE @[s]],
           !.pick = [c \in Entries |-> IF Yeses(c) = {} THEN 0 ELSE Max(Yeses(c))],
           !.changed = \/ DOMAIN file \ {e[s].name : s \in Named} # {}
                       \/ \E c \in ChoiceSyms : Cardinality(Yeses(c)) > 1]

\* Seeded fault: a symbol without a line in the file does not count.
UnsavedLines(m) == {s \in Named \cap m.has : s \notin m.write \/ m.def[s] # m.sol[s].val}

\* Symbols counted in conf_unsaved.
Unsaved(m) ==
    {s \in Named : IF s \in m.has THEN s \notin m.write \/ m.def[s] # m.sol[s].val
                   ELSE s \in m.write}

\* ChoiceSyms with a value that is new.
Open(m) == {c \in ChoiceSyms : \E v \in e[c].values : m.sol[v].vis /\ v \notin m.has}

\* What is new, and whether .config has to be written.
Judged(m) ==
    LET hidden == {s \in ChoiceSyms \cup (Named \ Values) : ~m.sol[s].vis /\ Unsaved(m) = {}}
    IN  [m EXCEPT !.has = @ \ (Open(m) \cup hidden), !.changed = @ \/ Unsaved(m) # {}]

conf_read(file) == IF file = NoFile THEN [Calc(Parsed) EXCEPT !.changed = TRUE]
                   ELSE Judged(Calc(conf_read_simple(file)))

\* set_all_choice_values included.
conf_set_all_new_symbols(m, v) ==
    LET new == {s \in Entries \ m.has : e[s].type \in {"bool", "choice"} /\ v # "default"}
    IN  sym_clear_all_valid([m EXCEPT
          !.def = [s \in Entries |-> IF s \in new THEN v ELSE @[s]],
          !.has = @ \cup new \cup ChoiceSyms])

WithoutPackages(file) == [n \in DOMAIN file \ Packages |-> file[n]]

-----------------------------------------------------------------------------
(* What is written.                                                         *)

FileOf(m, s) == [n \in {e[i].name : i \in s} |->
                   m.sol[CHOOSE i \in s : e[i].name = n].val]
WrittenAuto(m) == FileOf(m, {s \in Named \cap m.write : m.sol[s].val # "n"})
\* Seeded fault: what is "n" is left out, whatever the default is.
WrittenNotNo(m) ==
    FileOf(m, {s \in Named \cap m.write :
                 /\ sym_is_changable(m, s)
                 /\ m.sol[s].val # "n"
                 /\ s \in Values => m.sol[e[s].choice].preset # s})

WrittenMinimal(m) ==
    FileOf(m, {s \in Named \cap m.write :
                 /\ sym_is_changable(m, s)
                 /\ m.sol[s].val # m.sol[s].default
                 /\ s \in Values => m.sol[e[s].choice].preset # s})

\* A file without the lines for "n".
Positive(file) == [n \in {x \in DOMAIN file : file[x] # "n"} |-> file[n]]
Differ(f, g) == {n \in DOMAIN f \cup DOMAIN g :
                   ~(n \in DOMAIN f /\ n \in DOMAIN g /\ f[n] = g[n])}
OldAuto == IF auto = NoFile THEN EmptyFile ELSE auto

-----------------------------------------------------------------------------
(* A run begins.                                                            *)

Init ==
    /\ lang \in DOMAIN Languages
    /\ e = menu_finalize(Languages[lang])
    /\ config \in Configs[lang] \cup {NoFile}
    /\ minimal = NoFile /\ auto = NoFile /\ header = NoFile
    /\ fresh = FALSE /\ touched = {} /\ ours = FALSE /\ saved = NoFile
    /\ mode = "none" /\ phase = "idle" /\ mem = NoFile
    /\ stack = <<>> /\ again = FALSE /\ rootEntry = 0 /\ tmp = NoFile
    /\ goal = NoFile /\ wish = EmptyFile /\ excused = {}
    /\ runs = 0 /\ kills = 0

Whole(op) == [op |-> op, at |-> 1, to |-> Len(e)]

\* What a file says.
Told(file) == IF file = NoFile THEN EmptyFile ELSE file

Start(md, told, m, first, calls, aim) ==
    /\ phase = "idle"
    /\ runs < MaxRuns
    /\ runs' = runs + 1
    /\ mode' = md
    /\ mem' = m
    /\ phase' = first
    /\ stack' = calls
    /\ goal' = aim
    /\ wish' = told
    /\ UNCHANGED <<disk, again, rootEntry, tmp, excused, kills>>

\* The goal of a run that reads what an earlier one wrote.
Again == IF ours /\ config # NoFile THEN Positive(config) ELSE NoFile

Config == Start("config", Told(config), conf_read(config), "walk", <<Whole("conf")>>, NoFile)
OldConfig == Start("oldconfig", Told(config), conf_read(config), "walk", <<Whole("check")>>, Again)
SilentOldConfig ==
    /\ config # NoFile
    /\ Start("silentoldconfig", Told(config), conf_read(config), "walk", <<Whole("check")>>, Again)
SaveDefConfig == Start("savedefconfig", Told(config), conf_read(config), "minimal", <<>>, NoFile)
DefConfig ==
    /\ minimal # NoFile
    /\ Start("defconfig", Told(minimal), conf_set_all_new_symbols(conf_read(minimal), "default"),
             "write", <<>>, IF saved = NoFile THEN NoFile ELSE Positive(saved))
AllConfig(md) ==
    LET v == IF md \in {"allyesconfig", "allyespackageconfig"} THEN "y" ELSE "n"
        file == IF md \in PackageModes THEN WithoutPackages(config) ELSE EmptyFile
        m == IF md \in PackageModes THEN conf_read_simple(file) ELSE Parsed
    IN  /\ md \in PackageModes => config # NoFile
        /\ Start(md, Over(file, [n \in {e[s].name : s \in {x \in Named : e[x].type = "bool"}} |-> v]),
                 conf_set_all_new_symbols(m, v), "write", <<>>, NoFile)

\* The user, or git, changes the Config.in files.
Upgrade ==
    /\ phase = "idle"
    /\ runs < MaxRuns
    /\ \E l \in DOMAIN Languages : <<lang, l>> \in Releases /\ lang' = l
    /\ e' = menu_finalize(Languages[lang'])
    /\ ours' = FALSE
    /\ saved' = NoFile
    /\ runs' = runs + 1
    /\ UNCHANGED <<config, minimal, auto, header, fresh, touched, process, kills>>

-----------------------------------------------------------------------------
(* check_conf and conf go over the menus.                                   *)

Top == stack[Len(stack)]
Here == Top.at
Goto(n) == [stack EXCEPT ![Len(stack)].at = n]
Walking(op) == phase = "walk" /\ Here <= Top.to /\ Top.op = op

\* menu_is_visible
Seen(m) ==
    LET S[i \in Entries] ==
          e[i].prompt /\ \/ m.sol[i].vis
                         \/ /\ e[i].type # "string" /\ m.sol[i].val = "y"
                            /\ \E j \in Children(i) : S[j]
    IN  S
\* ... gives SYMBOL_DEF_USER to a symbol that is selected, not visible, and
\* has a visible child, whether or not it ever got a value.
Marks(m, i) ==
    LET seen == Seen(m)
        M[j \in Entries] ==
          IF m.sol[j].vis \/ ~seen[j] THEN {}
          ELSE {j} \cup M[Min({k \in Children(j) : seen[k]})]
    IN  M[i]
Marked(m, i) == [m EXCEPT !.has = @ \cup Marks(m, i)]

\* input_mode is oldaskconfig: the first round of config.
AskAll == mode = "config" /\ stack[1].op = "conf"
\* input_mode is silentoldconfig: the other rounds of config, and itself.
Silent == mode = "silentoldconfig" \/ (mode = "config" /\ stack[1].op = "check")

\* The entry is left for entry n, with m in memory.
Leave(m, n) ==
    /\ mem' = m
    /\ stack' = Goto(n)
    /\ excused' = excused \cup (Marks(mem, Here) \ mem.has)
    /\ UNCHANGED <<disk, mode, phase, again, rootEntry, tmp, goal, wish, runs, kills>>

\* Seeded fault: the entry behind the hidden ones is skipped, too.
SkipOneMore ==
    /\ phase = "walk"
    /\ Here <= Top.to
    /\ ~Seen(mem)[Here]
    /\ Leave(mem, e[Here].last + 2)

SkipHidden ==
    /\ phase = "walk"
    /\ Here <= Top.to
    /\ ~Seen(mem)[Here]
    /\ Leave(mem, e[Here].last + 1)

IsNew(m, i) == /\ i \in Named \cup ChoiceSyms
               /\ i \notin m.has
               /\ sym_is_changable(m, i) \/ (i \in ChoiceSyms /\ m.sol[i].val = "y")

CheckOld ==
    /\ Walking("check")
    /\ Seen(mem)[Here]
    /\ ~IsNew(Marked(mem, Here), Here)
    /\ Leave(Marked(mem, Here), Here + 1)

CheckNew ==
    /\ Walking("check")
    /\ Seen(mem)[Here]
    /\ IsNew(mem, Here)
    /\ Marks(mem, Here) = {}
    /\ LET r == menu_get_parent_menu(Here)
       IN  /\ rootEntry' = r
           /\ stack' = Append(Goto(Here + 1), IF r = 0 THEN Whole("conf")
                                              ELSE [op |-> "conf", at |-> r, to |-> e[r].last])
    /\ again' = TRUE
    /\ UNCHANGED <<disk, mode, phase, mem, tmp, goal, wish, excused, runs, kills>>

\* A menu that is only looked through for what is new, unless conf was called
\* for it.
Folded == e[Here].menu /\ Silent /\ rootEntry # Here

ConfText ==
    /\ Walking("conf")
    /\ Seen(mem)[Here]
    /\ e[Here].type \in {"menu", "comment"}
    /\ ~Folded
    /\ Leave(mem, Here + 1)

ConfMenu ==
    /\ Walking("conf")
    /\ Seen(mem)[Here]
    /\ Folded
    /\ mem' = Marked(mem, Here)
    /\ excused' = excused \cup (Marks(mem, Here) \ mem.has)
    /\ stack' = Append(Goto(e[Here].last + 1),
                       [op |-> "check", at |-> Here, to |-> e[Here].last])
    /\ UNCHANGED <<disk, mode, phase, again, rootEntry, tmp, goal, wish, runs, kills>>

\* What conf_askvalue and conf_choice wait for an answer to.
Shown(c) == {v \in e[c].values : mem.sol[v].vis}
Asks(m, i) ==
    IF i \in ChoiceSyms THEN Cardinality(Shown(i)) > 1 /\ (AskAll \/ i \notin m.has)
    ELSE sym_is_changable(m, i) /\ (AskAll \/ i \notin m.has)

ConfOld ==
    /\ Walking("conf")
    /\ Seen(mem)[Here]
    /\ Here \in Named
    /\ ~Folded
    /\ ~Asks(Marked(mem, Here), Here)
    /\ Leave(Marked(mem, Here), Here + 1)

\* An only value, or the one that is chosen, is chosen again.
ConfOldChoice ==
    /\ Walking("conf")
    /\ Seen(mem)[Here]
    /\ Here \in ChoiceSyms
    /\ mem.sol[Here].val = "n" \/ ~Asks(mem, Here)
    /\ Leave(IF mem.sol[Here].val = "n" THEN mem
             ELSE sym_set_tristate_value(mem, mem.sol[Here].chosen, "y"), e[Here].last + 1)

Ask ==
    /\ Walking("conf")
    /\ Seen(mem)[Here]
    /\ Here \in Named \cup ChoiceSyms
    /\ ~Folded
    /\ Asks(Marked(mem, Here), Here)
    /\ Here \in ChoiceSyms => mem.sol[Here].val = "y"
    /\ phase' = "ask"
    /\ UNCHANGED <<disk, mode, mem, walk, tmp, goal, wish, excused, runs, kills>>

Answered(m, i, n, v) ==
    /\ phase' = "walk"
    /\ mem' = m
    /\ wish' = IF i \in Named THEN Line(e[i].name, v, wish) ELSE wish
    /\ stack' = Goto(n)
    /\ UNCHANGED <<disk, mode, again, rootEntry, tmp, goal, runs, kills>>

AnswerBool ==
    /\ phase = "ask"
    /\ e[Here].type = "bool"
    /\ \E v \in {"n", "y"} :
          Answered(sym_set_tristate_value(mem, Here, v), Here, Here + 1, v)
    /\ excused' = excused \ {Here}

\* An answer equal to the text that was read, and not the value now, is lost:
\* sym_set_string_value takes it for no change.
AnswerString ==
    /\ phase = "ask"
    /\ e[Here].type = "string"
    /\ \E v \in Texts :
          /\ Answered(sym_set_string_value(mem, Here, v), Here, Here + 1, v)
          /\ excused' = IF v = mem.def[Here] /\ v # mem.sol[Here].val THEN excused \cup {Here}
                        ELSE excused

AnswerChoice ==
    /\ phase = "ask"
    /\ Here \in ChoiceSyms
    /\ \E v \in Shown(Here) :
          Answered(sym_set_tristate_value(mem, v, "y"), Here, e[Here].last + 1, v)
    /\ UNCHANGED excused

Idle ==
    /\ phase' = "idle" /\ mode' = "none" /\ mem' = NoFile
    /\ stack' = <<>> /\ again' = FALSE /\ rootEntry' = 0 /\ tmp' = NoFile
    /\ goal' = NoFile /\ wish' = EmptyFile /\ excused' = {}

\* check_stdin: silentoldconfig has a question, and there is no terminal.
Abort ==
    /\ phase = "ask"
    /\ mode = "silentoldconfig"
    /\ Idle
    /\ UNCHANGED <<disk, runs, kills>>

\* The end of a call.
Return ==
    /\ phase = "walk"
    /\ Here > Top.to
    /\ IF Len(stack) > 1
       THEN stack' = SubSeq(stack, 1, Len(stack) - 1) /\ UNCHANGED <<phase, again>>
       ELSE IF Top.op = "conf" \/ again
       THEN stack' = <<Whole("check")>> /\ again' = FALSE /\ UNCHANGED phase
       ELSE /\ phase' = IF mode = "silentoldconfig" /\ ~mem.changed THEN "split" ELSE "write"
            /\ stack' = <<>>
            /\ UNCHANGED again
    /\ UNCHANGED <<disk, mode, mem, rootEntry, tmp, goal, wish, excused, runs, kills>>

-----------------------------------------------------------------------------
(* Writing: conf_write up to its second rename.                             *)

\* A value of a choice that is hidden now and was visible before has its line,
\* unless nobody asked for it while it was visible.
WriteTmp ==
    /\ phase = "write"
    /\ LET m == IF mem.changed THEN mem ELSE sym_clear_all_valid(mem)
       IN  /\ \E w \in SUBSET {v \in Values \cap m.write : ~m.sol[v].vis} :
                 tmp' = FileOf(m, (Named \cap m.write) \ w)
           /\ mem' = [m EXCEPT !.write = {}]
    /\ phase' = "old"
    /\ UNCHANGED <<disk, mode, walk, goal, wish, excused, runs, kills>>

RenameOld ==
    /\ phase = "old"
    /\ config' = NoFile
    /\ fresh' = FALSE
    /\ phase' = "new"
    /\ UNCHANGED <<source, minimal, auto, header, touched, ours, saved,
                   mode, mem, walk, tmp, goal, wish, excused, runs, kills>>

RenameNew ==
    /\ phase = "new"
    /\ config' = tmp
    /\ ours' = TRUE
    /\ IF mode = "silentoldconfig"
       THEN /\ phase' = "split"
            /\ mem' = [mem EXCEPT !.changed = FALSE]
            /\ UNCHANGED <<mode, walk, tmp, goal, wish, excused>>
       ELSE Idle
    /\ UNCHANGED <<source, minimal, auto, header, fresh, touched, saved, runs, kills>>

\* conf_write_autoconf
conf_split_config ==
    /\ phase = "split"
    /\ mem' = sym_clear_all_valid(mem)
    /\ touched' = touched \cup Differ(OldAuto, WrittenAuto(mem'))
    /\ phase' = "header"
    /\ UNCHANGED <<source, config, minimal, auto, header, fresh, ours, saved,
                   mode, walk, tmp, goal, wish, excused, runs, kills>>

RenameHeader ==
    /\ phase = "header"
    /\ header' = WrittenAuto(mem)
    /\ phase' = "auto"
    /\ UNCHANGED <<source, config, minimal, auto, fresh, touched, ours, saved,
                   mode, mem, walk, tmp, goal, wish, excused, runs, kills>>

RenameAuto ==
    /\ phase = "auto"
    /\ auto' = WrittenAuto(mem)
    /\ fresh' = TRUE
    /\ touched' = {}
    /\ Idle
    /\ UNCHANGED <<source, config, minimal, header, ours, saved, runs, kills>>

conf_write_defconfig ==
    /\ phase = "minimal"
    /\ minimal' = WrittenMinimal(sym_clear_all_valid(mem))
    /\ saved' = IF ours THEN config ELSE NoFile
    /\ Idle
    /\ UNCHANGED <<source, config, auto, header, fresh, touched, ours, runs, kills>>

\* A file of which so many entries have been written.
Begun(f, k) == [n \in DOMAIN f \cap {e[i].name : i \in 1 .. k} |-> f[n]]

\* Whatever was being written is lost, but what savedefconfig writes is written
\* in place; some headers were touched.
Kill ==
    /\ phase # "idle"
    /\ kills < MaxKills
    /\ kills' = kills + 1
    /\ \/ UNCHANGED <<minimal, saved>>
       \/ /\ phase = "minimal"
          /\ \E k \in 0 .. Len(e) :
                minimal' = Begun(WrittenMinimal(sym_clear_all_valid(mem)), k)
          /\ saved' = NoFile
    /\ IF phase = "split"
       THEN \E t \in SUBSET Differ(OldAuto, WrittenAuto(Calc(mem))) : touched' = touched \cup t
       ELSE UNCHANGED touched
    /\ Idle
    /\ UNCHANGED <<source, config, auto, header, fresh, ours, runs>>

-----------------------------------------------------------------------------

Walk == \/ SkipHidden \/ CheckOld \/ CheckNew \/ ConfText \/ ConfMenu
        \/ ConfOld \/ ConfOldChoice \/ Ask \/ Return
Answer == AnswerBool \/ AnswerString \/ AnswerChoice \/ Abort
Write == \/ WriteTmp \/ RenameOld \/ RenameNew \/ conf_split_config
         \/ RenameHeader \/ RenameAuto \/ conf_write_defconfig
Run == Walk \/ Answer \/ Write
StartSome == \/ Config \/ OldConfig \/ SilentOldConfig \/ SaveDefConfig \/ DefConfig
             \/ \E md \in AllModes : AllConfig(md)

\* Nobody runs anything.
Rest == phase = "idle" /\ UNCHANGED vars

Next == Run \/ StartSome \/ Upgrade \/ Kill \/ Rest

\* conf runs on, and the user answers: WF_vars(Run), spelled out.  Run is enabled
\* when phase is not "idle", and is what leaves runs and kills alone.
Fairness == []<>(phase = "idle") \/ []<><<runs' = runs /\ kills' = kills>>_vars

Spec == Init /\ [][Next]_vars /\ Fairness

-----------------------------------------------------------------------------
(* Properties.                                                              *)

FileOK(f) == f = NoFile \/ \A n \in DOMAIN f : f[n] \in Contents

\* Every variable has its type.
TypeOK ==
    /\ lang \in DOMAIN Languages
    /\ Len(e) = Len(Languages[lang])
    /\ \A f \in {config, minimal, auto, header, saved, goal, tmp, wish} : FileOK(f)
    /\ {fresh, ours, again} \subseteq BOOLEAN
    /\ mode \in Modes \cup {"none"}
    /\ phase \in {"idle", "walk", "ask", "write", "old", "new", "split", "header", "auto", "minimal"}
    /\ IF phase = "idle" THEN mem = NoFile /\ excused = {}
       ELSE /\ mem \in Memories(Len(e))
            /\ \A s \in Entries : mem.pick[s] \in {0} \cup e[s].values
            /\ excused \subseteq Entries
    /\ \A k \in DOMAIN stack : /\ stack[k].op \in {"check", "conf"}
                               /\ stack[k].at \in 1 .. Len(e) + 1
                               /\ stack[k].to \in 0 .. Len(e)
    /\ rootEntry \in {0} \cup Entries
    /\ runs \in 0 .. MaxRuns /\ kills \in 0 .. MaxKills

\* What is written is the solution of the Config.in files for what was said:
\* read in the file itself, a symbol is "y" if something selects it, else what
\* the file read or the user said if it is visible, else its first default that
\* applies; a choice with a visible value has exactly one, the one picked if it
\* is visible; there is a line for what is visible, selected or has a default;
\* and after a walk nothing visible that the walk gets to is left that nobody
\* gave a value.  What is visible below something that is hidden and "n" is not
\* asked for, and may have forgotten what the file said.
Solved ==
    tmp # NoFile =>
    LET Val(s) == IF e[s].name \in DOMAIN tmp THEN tmp[e[s].name] ELSE Blank(e, s)
        Holds(c) == \A k \in c : \E l \in k : (Val(l.sym) = l.val) = l.is
        Vis(s) == e[s].prompt /\ Holds(e[s].visible)
        Selected(s) == \E c \in e[s].rev : Holds(c)
        Good(s) == {k \in DOMAIN e[s].defaults : Holds(e[s].defaults[k].if)}
        First(s) == e[s].defaults[Min(Good(s))].val
        Default(s) == CASE Good(s) = {} -> Blank(e, s)
                        [] Good(s) # {} /\ e[s].type = "string" -> First(s)
                        [] OTHER -> IF Holds(First(s)) THEN "y" ELSE "n"
        Said(s) == e[s].name \in DOMAIN wish
        Walked == mode \in {"config", "oldconfig", "silentoldconfig"}
        Reached(s) == \A i \in 1 .. s - 1 :
                        s <= e[i].last => Vis(i) \/ (e[i].type = "bool" /\ Val(i) = "y")
        Plain == Named \ Values
    IN  /\ DOMAIN tmp \subseteq {e[s].name : s \in Named}
        /\ \A s \in Plain :
             /\ (e[s].name \in DOMAIN tmp) = (Vis(s) \/ Selected(s) \/ Good(s) # {})
             /\ CASE Selected(s) -> Val(s) = "y"
                  [] ~Selected(s) /\ s \in excused -> TRUE
                  [] ~Selected(s) /\ s \notin excused /\ Vis(s) /\ Said(s) ->
                       \/ Val(s) = wish[e[s].name]
                       \/ Walked /\ ~Reached(s) /\ Val(s) = Default(s)
                  [] OTHER -> Val(s) = Default(s)
             /\ Walked /\ Reached(s) /\ Vis(s) /\ ~Selected(s) => Said(s) \/ s \in excused
        /\ \A c \in ChoiceSyms :
             LET shown == {v \in e[c].values : Vis(v)}
                 picked == {v \in e[c].values : Val(v) = "y"}
             IN  /\ picked \subseteq shown
                 /\ Cardinality(picked) = IF shown = {} THEN 0 ELSE 1
                 /\ mem.pick[c] \in shown => picked = {mem.pick[c]}

\* A .config that conf wrote is read back as it is: oldconfig and
\* silentoldconfig have nothing to ask and write the same again.  And what
\* savedefconfig left out of it, defconfig finds again.
Reproduces ==
    goal # NoFile => /\ phase # "ask"
                     /\ tmp # NoFile => Positive(tmp) = goal

\* When make sees no need to run silentoldconfig, auto.conf and autoconf.h say
\* what .config says, whatever was killed before; and when auto.conf changes,
\* the header of each symbol that is different in it has been touched since
\* auto.conf last changed.
AutoFresh ==
    /\ [](fresh => /\ config # NoFile
                   /\ auto = Positive(config)
                   /\ header = auto)
    /\ [][auto' # auto => Differ(OldAuto, auto') \subseteq touched]_vars

\* "Update until a loop caused no more changes" comes to an end, whatever the
\* user answers.
Ends == [](phase # "idle" => <>(phase = "idle"))
=============================================================================
