------------------------------- MODULE Shell --------------------------------
(* The built-in shell of kernel/shell.c: the line buffer, the splitting of it*)
(* into words where it lies, and the commands.  A character is a number;     *)
(* names of commands have one letter each, which is all strcmp needs.        *)
EXTENDS CString, SequencesExt

CONSTANTS
    Cap,        \* SHELL_LINE_CAPACITY
    Lines,      \* what may be typed
    MaxLines,   \* bound: lines typed
    Behind      \* what may follow the buffer in memory, before a NUL

SPACE == 32
SLASH == 47

ASSUME ShellAssumption ==
    /\ Cap \in Nat \ {0} /\ MaxLines \in Nat
    /\ Behind \subseteq Nat \ {0} /\ Lines \subseteq Seq(Nat \ {0})

VARIABLES
    buf,        \* shell_input_buf and what is behind it
    rest,       \* what of a line too long is yet to be read, in a sequence
    argv,       \* args_argv: addresses in buf
    wdir,       \* a text of its own, or at: an address in buf
    mode,       \* where the shell is
    shown,      \* what the last command printed
    typed, lines,   \* the last line, and how many
    asked,      \* the directories named since the last absolute one
    overwritten     \* the text wdir points to was read over since
shellVars == <<buf, rest, argv, wdir, mode, shown, typed, lines, asked, overwritten>>

-----------------------------------------------------------------------------
(* shell_init: the list that add_command builds.                             *)
shell_all_cmds ==
    <<"shutdown", "exit", "tree", "cd", "ls", "pwd", "cat", "clock", "rev", "graphics">>
cmd_str(i) == <<100 + i>>

Text(a) == StringAt(buf, a)
WDir == IF wdir.at = NULL THEN wdir.text ELSE Text(wdir.at)
Named(text) == [at |-> NULL, text |-> text]

(* The names in a path, by the order of the places where they start.         *)
Starts(path) == {k \in DOMAIN path : path[k] # SLASH /\ (k = 1 \/ path[k - 1] = SLASH)}
EndOf(path, k) ==
    FirstOf({n \in k..Len(path) : n = Len(path) \/ path[n + 1] = SLASH})
Rank(S, k) == Cardinality({j \in S : j <= k})
Nth(S, n) == CHOOSE k \in S : Rank(S, k) = n
Names(path) ==
    [n \in 1..Cardinality(Starts(path)) |->
        LET k == Nth(Starts(path), n) IN SubSeq(path, k, EndOf(path, k))]

ShellInit ==
    /\ \E b \in Behind \cup {0} : buf = [k \in 0..(Cap + 1) |-> IF k = Cap THEN b ELSE 0]
    /\ rest = <<>> /\ argv = <<>> /\ wdir = Named(<<SLASH>>)
    /\ mode = "prompt" /\ shown = <<>> /\ typed = <<>> /\ lines = 0
    /\ asked = <<>> /\ overwritten = FALSE

-----------------------------------------------------------------------------
(* Mutant: a line that fits is not terminated.                               *)
Stored_Open(line) ==
    [k \in DOMAIN buf |-> IF k < Len(line) /\ k < Cap THEN line[k + 1] ELSE buf[k]]

(* The buffer with a line in it: one that fills it has no NUL.               *)
Stored(line) ==
    [k \in DOMAIN buf |-> IF k >= Cap \/ k > Len(line) THEN buf[k]
                          ELSE IF k = Len(line) THEN 0 ELSE line[k + 1]]

Fits(line) == Len(line) < Cap

(* shell_getline.  E2BIG is ignored by kernel_main: the part read is executed*)
(* and the next call reads the rest of the same line.                        *)
shell_getline ==
    /\ mode = "prompt" /\ mode' = "typed"
    /\ \E line \in IF rest = <<>> THEN Lines ELSE ToSet(rest) :
          /\ rest = <<>> => lines < MaxLines
          /\ buf' = Stored(line) /\ typed' = line
          /\ rest' = IF Fits(line) THEN <<>> ELSE <<SubSeq(line, Cap + 1, Len(line))>>
    /\ lines' = IF rest = <<>> THEN lines + 1 ELSE lines
    /\ overwritten' = (overwritten \/ wdir.at # NULL)
    /\ UNCHANGED <<argv, wdir, shown, asked>>

(* The words strtok_r finds, and the rest, which is the last word.           *)
Token(so, over) ==
    LET r == strtok_r(so.mem, so.save, SPACE, over)
    IN [words |-> IF r.tok = NULL THEN so.words ELSE Append(so.words, r.tok),
        mem |-> r.mem, save |-> r.save]
Tokens(over) ==
    LET found[n \in 0..Cap] ==
            IF n = 0 THEN [words |-> <<>>, mem |-> buf, save |-> 0]
            ELSE Token(found[n - 1], over)
    IN found[Cap]

(* shell_execute_command up to the command; strtok then finds no delimiter   *)
(* that strtok_r did not, and argv0 is the buffer.                           *)
Split ==
    /\ mode = "typed"
    /\ IF strlen(buf, 0) = 0
       THEN mode' = "prompt" /\ UNCHANGED <<buf, argv>>
       ELSE \E tokens \in {Tokens(over) : over \in BOOLEAN} :
              /\ buf' = tokens.mem
              /\ argv' = Append(tokens.words, tokens.save)
              /\ mode' = "split"
    /\ UNCHANGED <<rest, wdir, shown, typed, lines, asked, overwritten>>

-----------------------------------------------------------------------------
argc == Len(argv)

(* The command that is to run: none has the whole name, or the first has.    *)
Commands == {k \in DOMAIN shell_all_cmds : strcmp(Text(0), cmd_str(k)) = 0}
Runs(cmd) ==
    /\ mode = "split" /\ argv' = <<>>
    /\ Commands # {} /\ shell_all_cmds[FirstOf(Commands)] = cmd
    /\ UNCHANGED <<buf, rest, typed, lines>>

Stays == UNCHANGED <<wdir, asked, overwritten>>
Shows(text) == mode' = "prompt" /\ shown' = text /\ Stays

shell_cmd_pwd == Runs("pwd") /\ Shows(WDir)

(* ls is given the directory and its argument, with nothing between them;    *)
(* the rest of it is ExFat's, as are tree's and cat's.                       *)
shell_cmd_ls ==
    /\ Runs("ls")
    /\ Shows(WDir \o (IF argc > 1 THEN Text(argv[2]) ELSE <<>>))

shell_cmd_rev ==
    /\ Runs("rev")
    /\ Shows(FlattenSeq([k \in 1..(argc - 1) |->
                           Append(Reverse(Text(argv[argc + 1 - k])), SPACE)]))

shell_cmd_clock == Runs("clock") /\ Shows(<<>>)
shell_cmd_tree == Runs("tree") /\ Shows(<<>>)
Unknown == mode = "split" /\ Commands = {} /\ Shows(Text(0)) /\ argv' = <<>>
           /\ UNCHANGED <<buf, rest, typed, lines>>

(* cat never leaves a path with a slash behind its first character; its copy *)
(* of the path has no terminator, so that such a slash may also come after.  *)
shell_cmd_cat ==
    /\ Runs("cat") /\ shown' = <<>> /\ Stays
    /\ LET relative == argc > 1 /\ buf[argv[2]] # SLASH
           nested == relative /\ Delimiters(buf, argv[2], SLASH, FALSE) # {}
       IN mode' \in (IF nested THEN {} ELSE {"prompt"})
                    \cup (IF relative THEN {"spinning"} ELSE {})

(* power_off does not return.                                                *)
shell_cmd_shutdown ==
    /\ Runs("shutdown") \/ Runs("exit")
    /\ mode' = "off" /\ shown' = <<>> /\ Stays

(* The frame loop is Graphics; it comes back with Return.                    *)
shell_cmd_graphics == Runs("graphics") /\ mode' = "graphics" /\ shown' = <<>> /\ Stays
Return ==
    /\ mode = "graphics" /\ mode' = "prompt"
    /\ UNCHANGED <<buf, rest, argv, wdir, shown, typed, lines, asked, overwritten>>

-----------------------------------------------------------------------------
(* cd.  The byte before an empty text is read too.                           *)
LastOf(text, a) == IF text # <<>> THEN Last(text) ELSE IF a = NULL THEN 0 ELSE buf[a - 1]

(* Mutant: the separator is added after a slash and nowhere else.            *)
newwdir_Sep(tgt) ==
    LET sep == IF LastOf(WDir, wdir.at) = SLASH THEN <<SLASH>> ELSE <<>>
    IN WDir \o sep \o Text(tgt)

(* The old directory, a separator unless there is one, and the target without*)
(* a slash at its end.                                                       *)
newwdir(tgt) ==
    LET sep == IF LastOf(WDir, wdir.at) = SLASH THEN <<>> ELSE <<SLASH>>
        full == WDir \o sep \o Text(tgt)
    IN IF LastOf(Text(tgt), tgt) # SLASH THEN full ELSE Front(full)

Home == wdir' = Named(<<SLASH>>) /\ asked' = <<>> /\ overwritten' = FALSE
Absolute(tgt) ==
    /\ wdir' = [at |-> tgt, text |-> <<>>]
    /\ asked' = Names(Text(tgt)) /\ overwritten' = FALSE
Relative(tgt) ==
    /\ wdir' = Named(newwdir(tgt))
    /\ asked' = asked \o Names(Text(tgt)) /\ UNCHANGED overwritten

shell_cmd_cd ==
    /\ Runs("cd") /\ mode' = "prompt" /\ shown' = <<>>
    /\ \/ argc = 1 /\ Home
       \/ argc > 2 /\ Stays
       \/ argc = 2 /\ buf[argv[2]] = SLASH /\ Absolute(argv[2])
       \/ argc = 2 /\ buf[argv[2]] # SLASH /\ Relative(argv[2])

ShellNext ==
    \/ shell_getline \/ Split
    \/ shell_cmd_pwd \/ shell_cmd_ls \/ shell_cmd_rev \/ shell_cmd_clock
    \/ shell_cmd_tree \/ shell_cmd_cat \/ shell_cmd_shutdown \/ shell_cmd_cd
    \/ Unknown

-----------------------------------------------------------------------------
(* The words a command gets are the line: none has a space in it, and with   *)
(* single spaces between them they are what was typed, though they lie in a  *)
(* buffer that still holds what earlier lines left.  Lines that fill the     *)
(* buffer or end in a space are another matter.                              *)
WordsAreLine ==
    (mode = "split" /\ Fits(typed) /\ (typed = <<>> \/ Last(typed) # SPACE)) =>
        LET word == [n \in DOMAIN argv |-> Text(argv[n])]
            spaced == [n \in DOMAIN argv |-> IF n = 1 THEN word[n] ELSE <<SPACE>> \o word[n]]
        IN /\ \A n \in DOMAIN word : SPACE \notin Range(word[n])
           /\ FlattenSeq(spaced) = typed

(* The working directory is the one the cd commands ask for, name by name,   *)
(* whatever slashes they are written with; but after an absolute cd the      *)
(* directory is a piece of the line buffer, and the next line is read over   *)
(* it.                                                                       *)
DirectoryIsAsked == ~overwritten => Names(WDir) = asked
=============================================================================
