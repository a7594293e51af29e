----------------------------- MODULE MCPrograms -----------------------------
(***************************************************************************)
(* What a program is given and shares, on small instances: its resources,  *)
(* descriptors and memory image, its session and terminal, signals and     *)
(* restartable sequences; and the tool that configures the kernel.  The    *)
(* state space is the union of theirs: the first state picks one ("part"). *)
(* The variables of Signal stand still in its first state when another     *)
(* part is picked; those of the others are 0.                              *)
(***************************************************************************)
EXTENDS Signal

CONSTANTS reader1, reader2, t1, t2

VARIABLES part,
          state,                                                 \* Resources, Rseq
          leader, vfork, res, prog,                              \* Resources
          files, table, file, using, leak,                       \* FdTable
          phdrs, phdr, next, mem, vmas, layout, args, stack, result,   \* ExecImage
          proc, tty, att, created,                               \* Session
          term, input, reader, typed, got,                       \* Console
          tt, sh, act, ask, count,                               \* a second Signal
          cur, mode, rseq, pc, cs, reg, frame, signal, counter, commits,  \* Rseq
          entry, dep, at, st, last                               \* KconfigExpr, KconfigSymbol

resVars == <<leader, vfork, res, prog>>
fdVars == <<files, table, file, using, leak>>
imageVars == <<phdrs, phdr, next, mem, vmas, layout, args, stack, result>>
sessionVars == <<proc, tty, att, created>>
consoleVars == <<term, input, reader, typed, got>>
maskVars == <<tt, sh, act, ask, count>>
rseqVars == <<cur, mode, rseq, pc, cs, reg, frame, signal, counter, commits>>
configVars == <<entry, dep, at, st, last>>
otherVars == <<state, resVars, fdVars, imageVars, sessionVars, consoleVars, rseqVars,
               configVars>>
allVars == <<part, vars, maskVars, otherVars>>

NoRes == leader = 0 /\ vfork = 0 /\ res = 0 /\ prog = 0
NoFds == files = 0 /\ table = 0 /\ file = 0 /\ using = 0 /\ leak = 0
NoImage == /\ phdrs = 0 /\ phdr = 0 /\ next = 0 /\ mem = 0 /\ vmas = 0
           /\ layout = 0 /\ args = 0 /\ stack = 0 /\ result = 0
NoSession == proc = 0 /\ tty = 0 /\ att = 0 /\ created = 0
NoConsole == term = 0 /\ input = 0 /\ reader = 0 /\ typed = 0 /\ got = 0
NoRseq == /\ cur = 0 /\ mode = 0 /\ rseq = 0 /\ pc = 0 /\ cs = 0
          /\ reg = 0 /\ frame = 0 /\ signal = 0 /\ counter = 0 /\ commits = 0
NoMasks == tt = 0 /\ sh = 0 /\ act = 0 /\ ask = 0 /\ count = 0
NoEntry == entry = 0 /\ dep = 0 /\ at = 0
NoSymbols == st = 0 /\ last = 0

-----------------------------------------------------------------------------
(* The instances.                                                          *)

\* Fork, vfork, threads, and a process that shares its descriptors.
T == INSTANCE Resources WITH
       Task <- {1, 2, 3}, init_task <- 1, Program <- {1, 2},
       CloneFlags <- {{}, {"VM", "VFORK"}, {"VM", "FILES", "FS", "SIGHAND", "THREAD"}, {"FILES"}}

D == INSTANCE FdTable WITH
       Task <- {1, 2}, Table <- {1, 2}, File <- {1, 2}, NR_OPEN <- 2, MaxLeak <- 1

\* Files of seven bytes with one or two segments at every distance from a page
\* boundary, headers that do not load, and lists of strings up to what fits.
Header(type, flags, vaddr, start, filesz, memsz) ==
  [type |-> type, flags |-> flags, vaddr |-> vaddr, offset |-> start, filesz |-> filesz,
   memsz |-> memsz]
Low == {Header("load", flags, vaddr, start, filesz, memsz) :
          flags \in {{"R", "X"}, {"R", "W"}}, vaddr \in 0..3, start \in 0..2, filesz \in 0..5,
          memsz \in {0, 3, 5}}
High == {Header("load", flags, vaddr, 5, filesz, memsz) :
           flags \in {{"R", "X"}, {"R", "W"}}, vaddr \in 5..8, filesz \in {1, 2}, memsz \in {2, 4}}
Odd == {Header("note", {"R"}, 0, 0, 1, 1), Header("interp", {"R"}, 0, 0, 1, 1),
        Header("load", {"W"}, 6, 0, 1, 1)}
X == INSTANCE ExecImage WITH
       PAGE_SIZE <- 2, ImageSize <- 7, PhOff <- 2, PhSize <- 1,
       USER_STACK_BASE <- 10, USER_STACK_SIZE <- 32,
       Headers <- {<<a>> : a \in Low} \cup {<<a, b>> : a \in Low, b \in High \cup Odd},
       Word <- 2, Align <- 4, RandomBytes <- 2, AuxWords <- 2,
       EXEC_MAX_ARGS <- 2, EXEC_MAX_ARG_LEN <- 5,
       Strings <- {<<>>, <<0, 2>>, <<4>>, <<2, 3>>, <<0, 0, 0>>, <<5>>}

S == INSTANCE Session WITH Pid <- {1, 2, 3}, MaxSessions <- 2

\* Line editing, raw input, and settings that change.
canon == [canon |-> TRUE, isig |-> TRUE, echo |-> TRUE, vmin |-> 1]
raw == [canon |-> FALSE, isig |-> FALSE, echo |-> TRUE, vmin |-> 2]
L == INSTANCE Console WITH
       Reader <- {reader1, reader2}, Typed <- {"a", "nl", "eof", "erase", "intr"},
       CONSOLE_INPUT_SIZE <- 3, Modes <- {canon}, Counts <- {1, 3}, MaxTyped <- 5
W == INSTANCE Console WITH
       Reader <- {reader1, reader2}, Typed <- {"a", "nl"}, CONSOLE_INPUT_SIZE <- 3,
       Modes <- {raw}, Counts <- {1, 3}, MaxTyped <- 5
C == INSTANCE Console WITH
       Reader <- {reader1, reader2}, Typed <- {"a", "cr", "eof", "kill", "intr"},
       CONSOLE_INPUT_SIZE <- 3, Modes <- {canon, raw, [raw EXCEPT !.isig = TRUE, !.vmin = 0]}, Counts <- {1, 3},
       MaxTyped <- 3

Handler == [h |-> "user", mask |-> {}, nodefer |-> FALSE, resethand |-> FALSE,
            onstack |-> FALSE]
Handlers == {Handler}
Kinds(all) == {[Handler EXCEPT !.h = "ign"],
               [Handler EXCEPT !.nodefer = TRUE, !.resethand = TRUE],
               [Handler EXCEPT !.mask = all, !.onstack = TRUE]}

\* One thread with handlers of several kinds, which faults and has an alternate
\* stack.
M == INSTANCE Signal WITH
       Thread <- {t1}, Leader <- t1, Sig <- {10, 11}, UserMask <- {{}, {10, 11}},
       Disposition <- Kinds({10, 11}), IsInit <- FALSE, AltStack <- BOOLEAN, Faults <- TRUE,
       MaxSends <- 2,
       th <- tt, shared <- sh, action <- act, asked <- ask, sends <- count

\* PID 1.
I == INSTANCE Signal WITH
       Thread <- {t1}, Leader <- t1, Sig <- {9, 10, 19, 20}, UserMask <- {{9, 10}},
       Disposition <- Kinds({10}), IsInit <- TRUE, AltStack <- {}, Faults <- FALSE,
       MaxSends <- 2,
       th <- tt, shared <- sh, action <- act, asked <- ask, sends <- count

Q == INSTANCE Rseq WITH Thread <- {t1, t2}, Flags <- {}, MaxCommits <- 1

\* Expressions over a bool and a tristate symbol: as dependencies of an entry, as
\* conditions of its prompt, and as what the entry before it depends on.
Sym(s) == [t |-> "sym", s |-> s]
Comp(r, s, c) == [t |-> r, s |-> s, c |-> c]
Not(e) == [t |-> "not", a |-> e]
Two(t, a, b) == [t |-> t, a |-> a, b |-> b]
None == [t |-> "none"]
Atoms == {Sym(s) : s \in {"B", "T", "m", "y", "n"}} \cup {Not(Sym("B")), Not(Sym("T"))}
         \cup {Comp(r, s, c) : r \in {"=", "!="}, s \in {"B", "T"}, c \in {"n", "m", "y"}}
         \cup {Comp("<", "T", "m"), Comp("=", "T", "B")}
Few == {Sym("T"), Not(Sym("B")), Sym("B"), Comp("=", "T", "y"), Comp("!=", "T", "n"),
        Comp("!=", "T", "m")}
Pairs(E, F) == {Two(o, a, b) : o \in {"and", "or"}, a \in E, b \in F}
Written(up, d, cond, type, before) ==
  [up |-> up, dep |-> d, cond |-> cond, type |-> type, sym |-> "T", before |-> before]
Menu ==
  {Written(None, d, None, "tristate", Sym("B")) :
     d \in Atoms \cup Pairs(Atoms \ {Sym("m")}, Atoms) \cup Pairs(Few, Pairs(Few, Few))}
  \cup {Written(None, Not(d), None, "bool", Two("or", Sym("T"), Sym("B"))) :
          d \in Atoms \cup Pairs(Few, Atoms)}
  \cup {Written(up, d, cond, type, before) :
          up \in {None, Sym("B")},
          d \in {Sym("B"), Not(Sym("T"))} \cup Pairs(Few, {Sym("T")}),
          cond \in {None} \cup Few, type \in {"bool", "tristate"},
          before \in {None, Sym("B"), Comp("=", "T", "y")}}
Types == [B |-> "bool", T |-> "tristate", MODULES |-> "bool",
          n |-> "unknown", m |-> "unknown", y |-> "unknown"]
Assigned == [B : {0, 2}, T : 0..2, MODULES : {0, 2}]
K == INSTANCE KconfigExpr WITH TypeOf <- Types, Values <- Assigned, Entries <- Menu

\* A bool and a tristate symbol that depend on A, one of them selected and
\* implied, and a number with ranges.
Plain == [type |-> "bool", prompts |-> <<>>, rev |-> None, imply |-> None, dep |-> None,
          defaults |-> <<>>, members |-> <<>>, of |-> "none", ranges |-> <<>>]
DefaultOf(v, c) == [value |-> v, cond |-> c]
Limit(l, h, c) == [low |-> l, high |-> h, cond |-> c]
Modules == [Plain EXCEPT !.prompts = <<None>>]
Tristate == [Plain EXCEPT !.type = "tristate", !.prompts = <<None>>,
                          !.defaults = <<DefaultOf(Sym("m"), None)>>]
SymbolConf ==
  [MODULES |-> Modules, A |-> Tristate,
   B |-> [Plain EXCEPT !.prompts = <<Sym("A")>>, !.dep = Sym("A"),
            !.defaults = <<DefaultOf(Sym("y"), Comp("=", "A", "y"))>>],
   S |-> [Plain EXCEPT !.type = "tristate", !.prompts = <<Sym("A")>>, !.dep = Sym("A"),
            !.rev = Two("and", Sym("B"), Sym("A")), !.imply = Sym("A"),
            !.defaults = <<DefaultOf(Sym("m"), Sym("B")), DefaultOf(Sym("n"), None)>>],
   N |-> [Plain EXCEPT !.type = "int", !.prompts = <<Sym("A")>>,
            !.ranges = <<Limit(2, 4, Sym("B")), Limit(1, 6, None)>>,
            !.defaults = <<DefaultOf(5, None)>>]]
NoChoice == [c \in {"C"} |-> "none"]
SymbolFiles ==
  {[user |-> {}, def |-> [MODULES |-> 0, A |-> 0, B |-> 0, S |-> 0, N |-> 9],
    choice |-> NoChoice],
   [user |-> {"MODULES", "A", "N"},
    def |-> [MODULES |-> 2, A |-> 2, B |-> 0, S |-> 0, N |-> 1], choice |-> NoChoice]}
SymbolOrder == <<"MODULES", "A", "B", "S", "N">>
Y == INSTANCE KconfigSymbol WITH
       Order <- SymbolOrder, Numbers <- {3, 6, 7}, Conf <- SymbolConf, Loaded <- SymbolFiles

\* A choice of two.
ChoiceConf ==
  [MODULES |-> Modules, A |-> Tristate,
   C |-> [Plain EXCEPT !.type = "tristate", !.prompts = <<Sym("A")>>,
            !.rev = Two("and", Sym("A"), Sym("m")), !.members = <<"V", "W">>,
            !.defaults = <<DefaultOf("W", Comp("=", "A", "y"))>>],
   V |-> [Plain EXCEPT !.type = "tristate", !.of = "C",
            !.prompts = <<Two("and", Sym("C"), Comp("!=", "A", "y"))>>],
   W |-> [Plain EXCEPT !.type = "tristate", !.of = "C",
            !.prompts = <<Two("and", Sym("C"), Sym("A"))>>]]
ChoiceFiles ==
  {[user |-> {}, def |-> [s \in DOMAIN ChoiceConf |-> 0], choice |-> NoChoice],
   [user |-> DOMAIN ChoiceConf, def |-> [MODULES |-> 2, A |-> 2, C |-> 2, V |-> 0, W |-> 0],
    choice |-> [c \in {"C"} |-> "W"]]}
ChoiceOrder == <<"MODULES", "A", "C", "V", "W">>
Z == INSTANCE KconfigSymbol WITH
       Order <- ChoiceOrder, Numbers <- {}, Conf <- ChoiceConf, Loaded <- ChoiceFiles

-----------------------------------------------------------------------------
NoPrograms == NoRes /\ NoFds /\ NoImage /\ NoSession /\ NoConsole /\ NoRseq /\ state = 0
NoConfig == NoEntry /\ NoSymbols

ProgramInit ==
  /\ \/ /\ part = "resources" /\ T!Init
        /\ NoFds /\ NoImage /\ NoSession /\ NoConsole /\ NoRseq
     \/ /\ part = "fds" /\ D!Init
        /\ state = 0 /\ NoRes /\ NoImage /\ NoSession /\ NoConsole /\ NoRseq
     \/ /\ part = "image" /\ X!Init
        /\ state = 0 /\ NoRes /\ NoFds /\ NoSession /\ NoConsole /\ NoRseq
     \/ /\ part = "session" /\ S!Init
        /\ state = 0 /\ NoRes /\ NoFds /\ NoImage /\ NoConsole /\ NoRseq
     \/ /\ part = "lines" /\ L!Init
        /\ state = 0 /\ NoRes /\ NoFds /\ NoImage /\ NoSession /\ NoRseq
     \/ /\ part = "raw" /\ W!Init
        /\ state = 0 /\ NoRes /\ NoFds /\ NoImage /\ NoSession /\ NoRseq
     \/ /\ part = "settings" /\ C!Init
        /\ state = 0 /\ NoRes /\ NoFds /\ NoImage /\ NoSession /\ NoRseq
     \/ /\ part = "rseq" /\ Q!Init
        /\ NoRes /\ NoFds /\ NoImage /\ NoSession /\ NoConsole
  /\ NoConfig

ConfigInit ==
  /\ \/ part = "entry" /\ K!Init /\ NoSymbols
     \/ part = "symbols" /\ Y!Init /\ NoEntry
     \/ part = "choice" /\ Z!Init /\ NoEntry
  /\ NoPrograms

NoOthers == NoPrograms /\ NoConfig

UnionInit ==
  /\ Init
  /\ \/ part = "signals" /\ NoMasks /\ NoOthers
     \/ part = "masks" /\ M!Init /\ NoOthers
     \/ part = "init" /\ I!Init /\ NoOthers
     \/ NoMasks /\ (ProgramInit \/ ConfigInit)

ProgramNext ==
  /\ \/ /\ part = "resources" /\ T!Next
        /\ UNCHANGED <<fdVars, imageVars, sessionVars, consoleVars, rseqVars>>
     \/ /\ part = "fds" /\ D!Next
        /\ UNCHANGED <<state, resVars, imageVars, sessionVars, consoleVars, rseqVars>>
     \/ /\ part = "image" /\ X!Next
        /\ UNCHANGED <<state, resVars, fdVars, sessionVars, consoleVars, rseqVars>>
     \/ /\ part = "session" /\ S!Next
        /\ UNCHANGED <<state, resVars, fdVars, imageVars, consoleVars, rseqVars>>
     \/ /\ part = "lines" /\ L!Next
        /\ UNCHANGED <<state, resVars, fdVars, imageVars, sessionVars, rseqVars>>
     \/ /\ part = "raw" /\ W!Next
        /\ UNCHANGED <<state, resVars, fdVars, imageVars, sessionVars, rseqVars>>
     \/ /\ part = "settings" /\ C!Next
        /\ UNCHANGED <<state, resVars, fdVars, imageVars, sessionVars, rseqVars>>
     \/ /\ part = "rseq" /\ Q!Next
        /\ UNCHANGED <<resVars, fdVars, imageVars, sessionVars, consoleVars>>
  /\ UNCHANGED configVars

ConfigNext ==
  /\ \/ part = "entry" /\ K!Next /\ UNCHANGED <<st, last>>
     \/ part = "symbols" /\ Y!Next /\ UNCHANGED <<entry, dep, at>>
     \/ part = "choice" /\ Z!Next /\ UNCHANGED <<entry, dep, at>>
  /\ UNCHANGED <<state, resVars, fdVars, imageVars, sessionVars, consoleVars, rseqVars>>

UnionNext ==
  /\ \/ part = "signals" /\ Next /\ UNCHANGED <<maskVars, otherVars>>
     \/ part = "masks" /\ M!Next /\ UNCHANGED <<vars, otherVars>>
     \/ part = "init" /\ I!Next /\ UNCHANGED <<vars, otherVars>>
     \/ (ProgramNext \/ ConfigNext) /\ UNCHANGED <<vars, maskVars>>
  /\ UNCHANGED part

UnionSpec == UnionInit /\ [][UnionNext]_allVars

-----------------------------------------------------------------------------
(* Properties.  The modules of the parts say what they mean for the code.  *)


\* execve changes neither the program nor the descriptors of another task, also
\* of one that shared its table or waits for it in vfork (kernel_execve).
ExecAlone ==
  [][/\ part = "resources" => T!ExecStep
     /\ part = "fds" => D!ExecPrivateStep]_allVars

\* A program that is started finds its segments, its headers and its stack where
\* and as the file and the arguments say (load_elf_segment, setup_user_stack).
StartsExact == part = "image" => X!ImageExact /\ X!StackExact

\* Readers of the terminal get what was typed, after editing, once and in order;
\* neither they nor the thread that takes the input wait for each other for ever,
\* and the echo fits its buffer (console_input_pump, console_read).
InputExact ==
  /\ part = "lines" => L!RecordsExact /\ L!ConsoleNoDeadlock /\ L!EchoFits
  /\ part = "raw" => W!RecordsExact /\ W!ConsoleNoDeadlock /\ W!EchoFits
  /\ part = "settings" => C!ConsoleNoDeadlock /\ C!EchoFits

\* A signal handler never runs on top of a restartable sequence that goes on
\* after it, and a sequence that has committed is not started again
\* (rseq_handle_cs).  Handlers with masks and flags of all kinds, and on another
\* stack, leave the mask the program asked for (do_sigreturn); no signal of
\* another process ends PID 1.
SequencesRestart ==
  /\ [](part = "masks" => M!ContextKept)
  /\ [](part = "init" => I!SignalsAnswered)
  /\ [](part = "rseq" => Q!HandlerRestarts)
  /\ [][part = "rseq" => Q!AbortsInsideStep]_allVars

\* The simplifications that menu_finalize applies keep the meaning of the
\* dependencies of an entry, and one that is put below another is shown with it
\* only; symbol values respect visibility, selects, ranges and choices, and what
\* the user sets is what is then computed (sym_calc_value, sym_set_tristate_value).
ConfigExact ==
  /\ part = "entry" => K!TypeOK /\ K!DependenciesKept /\ K!SubmenusNested
  /\ part = "symbols" => Y!TypeOK /\ Y!ValuesConsistent /\ Y!SettingHonoured
  /\ part = "choice" => Z!TypeOK /\ Z!ValuesConsistent /\ Z!SettingHonoured
=============================================================================
