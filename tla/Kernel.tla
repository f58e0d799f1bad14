------------------------------- MODULE Kernel -------------------------------
(* kernel_main (kernel/main.c): the boot, with the unit tests and the trial  *)
(* system calls, and the shell with the graphics demonstration in it.        *)
EXTENDS TestRunner, Shell, Graphics

CONSTANTS
    NR_syscalls,    \* __NR_syscalls
    FirstCall, CallStep     \* 442 and 53

(* A call with the number NR_syscalls would read past the table.             *)
ASSUME KernelAssumption ==
    {NR_syscalls, FirstCall, CallStep} \subseteq Nat \ {0} /\ FirstCall < NR_syscalls

VARIABLES
    phase,              \* how far kernel_main is
    nr, errno,          \* of the trial system calls
    framebuf_enabled, console_enabled

bootVars == <<phase, nr, errno>>
outputs == <<framebuf_enabled, console_enabled>>
vars == <<bootVars, outputs, testVars, shellVars, graphicsVars>>

Init ==
    /\ phase = "start" /\ nr = FirstCall /\ errno = 0
    /\ framebuf_enabled = FALSE /\ console_enabled = FALSE
    /\ TestsInit /\ ShellInit /\ GraphicsInit

Goes(from, to) == phase = from /\ phase' = to
Booting == UNCHANGED <<testVars, shellVars, graphicsVars>>

(* The consoles; the queries of the firmware go to the serial line only.     *)
Consoles ==
    /\ Goes("start", "display") /\ console_enabled' = TRUE
    /\ UNCHANGED <<nr, errno, framebuf_enabled>> /\ Booting

(* The display and its frame buffer; without them what is typed is echoed.   *)
SetDisplay ==
    /\ Goes("display", "frame buffer") \/ Goes("display", "echo")
    /\ UNCHANGED <<nr, errno, outputs>> /\ Booting

AllocFrameBuffer ==
    /\ \/ Goes("frame buffer", "tests") /\ framebuf_enabled' = TRUE
       \/ Goes("frame buffer", "echo") /\ UNCHANGED framebuf_enabled
    /\ UNCHANGED <<nr, errno, console_enabled>> /\ Booting

test_all ==
    /\ phase = "tests" /\ TestsNext
    /\ UNCHANGED <<bootVars, outputs, shellVars, graphicsVars>>
TestsEnd ==
    /\ Goes("tests", "calls") /\ TestsDone
    /\ UNCHANGED <<nr, errno, outputs>> /\ Booting

(* calls.S compares the number and reads the table, where every entry is     *)
(* sys_ni_syscall.                                                           *)
EINVAL == 22
Invalid(n) == n > NR_syscalls \/ n < 0

(* The calls with a number above 0, and one more.                            *)
syscall ==
    /\ phase = "calls"
    /\ errno' = IF Invalid(nr) THEN EINVAL ELSE errno
    /\ IF nr > 0 THEN nr' = nr - CallStep /\ UNCHANGED phase
                 ELSE phase' = "card" /\ UNCHANGED nr
    /\ UNCHANGED outputs /\ Booting

(* After the trials of malloc: the card and its boot block, without which    *)
(* kernel_main loops for ever, and the process environment.                  *)
sd_card_init ==
    /\ Goes("card", "boot block") \/ Goes("card", "halted")
    /\ UNCHANGED <<nr, errno, outputs>> /\ Booting
exfat_read_boot_block ==
    /\ Goes("boot block", "shell") \/ Goes("boot block", "halted")
    /\ UNCHANGED <<nr, errno, outputs>> /\ Booting

-----------------------------------------------------------------------------
InShell == phase = "shell" /\ UNCHANGED <<bootVars, testVars>>

Command == InShell /\ ShellNext /\ UNCHANGED <<outputs, graphicsVars>>

(* graphics: the console is off while the frame loop runs.                   *)
OpenGraphics ==
    /\ InShell /\ shell_cmd_graphics /\ Open
    /\ console_enabled' = FALSE /\ UNCHANGED framebuf_enabled

Frame ==
    /\ InShell /\ mode = "graphics" /\ UNCHANGED <<outputs, shellVars>>
    /\ Blank \/ ReadKey \/ Draw \/ Move \/ EndFrame

QuitGraphics ==
    /\ InShell /\ Return /\ Quit
    /\ console_enabled' = TRUE /\ UNCHANGED framebuf_enabled

Next ==
    \/ Consoles \/ SetDisplay \/ AllocFrameBuffer
    \/ test_all \/ TestsEnd \/ syscall
    \/ sd_card_init \/ exfat_read_boot_block
    \/ Command \/ OpenGraphics \/ Frame \/ QuitGraphics

Spec == Init /\ [][Next]_vars
=============================================================================
