------------------------------ MODULE MCKernel ------------------------------
(* The kernel with its own test batches, a small display, and a line buffer  *)
(* of eight cells.                                                           *)
EXTENDS Kernel

batch_examples == <<{"passed"}, {"warn"}, {"fail_continue"}, {"fail_fatal"}>>
batch_malloc == [n \in 1..3 |-> {"passed", "fail_continue"}]
batch_emmc == <<{"passed", "warn"}>>
batch_other == <<{"passed", "fail_continue"}, {"warn", "fail_fatal"}, {"passed"}>>

(* The code runs examples, malloc and emmc in this order, so that the fourth *)
(* test ends all batches but for one test each.  They run here with malloc   *)
(* and emmc before it as well as after it, with an empty batch and one that  *)
(* may fail for good in its second test.                                     *)
MCBatches == <<batch_emmc, batch_malloc, batch_other, batch_examples, <<>>,
               batch_malloc, batch_emmc>>

(* The names of the commands are those of shell_all_cmds in Shell, in order. *)
Name(cmd) ==
    100 + CHOOSE k \in 1..10 :
            cmd = <<"shutdown", "exit", "tree", "cd", "ls",
                    "pwd", "cat", "clock", "rev", "graphics">>[k]
C(cmd) == <<Name(cmd)>>
W(cmd, arg) == C(cmd) \o <<32>> \o arg
a == 1
b == 2
s == 47

MCLines == {
    <<>>, C("cd"), W("cd", <<a>>), W("cd", <<a, s, b, s>>), W("cd", <<s>>),
    W("cd", <<s, b>>), W("cd", <<a, 32, b>>), W("cd", <<>>),
    W("rev", <<a, b, 32, b>>), W("ls", <<b>>), W("ls", <<a, b, a, b, s, a, s>>), C("pwd"),
    C("clock"), C("tree"), <<a>>, <<32, a>>,
    W("cat", <<a>>), W("cat", <<a, s, b>>), W("cat", <<s, a>>), C("exit"), C("graphics")}

MCBehind == {b}

(* The counters of the tests are not looked at again once they are printed.  *)
View == <<phase, nr, errno, framebuf_enabled, console_enabled,
          IF phase = "tests" THEN testVars ELSE <<>>, shellVars, graphicsVars>>
=============================================================================
