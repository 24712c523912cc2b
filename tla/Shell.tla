-------------------------------- MODULE Shell --------------------------------
(***************************************************************************)
(* The console, from the keyboard to the command the shell runs.           *)
(*                                                                         *)
(*   keyboard_interrupt_handler -> console::key_handle -> STDIN            *)
(*   stdlib shell::input -> syscall::read_in -> int 0x80 ->                *)
(*       syscall_handler -> dispatcher -> funcs::read_in -> read_line      *)
(*   stdlib shell::shell -> syscall::{read_kv, write_kv, delete_kv}        *)
(*       -> int 0x80 -> dispatcher                                         *)
(*                                                                         *)
(* int 0x80 enters through an interrupt gate, so a system call is one step *)
(* and the keyboard interrupt is taken between two steps of the shell.     *)
(* A key of the model is a newline or the text of one command: what the    *)
(* shell matches is how many commands a line holds, and which.             *)
(***************************************************************************)
EXTENDS Naturals, Sequences

CONSTANTS Commands,   \* the keys that are not the newline
          NL,         \* '\n', byte 10
          Nul,        \* the byte 0 of a fresh buffer
          BufLen,     \* the length of the shell's buffer (256)
          MaxTyped,   \* bound of the model on the keys typed
          Stale       \* what a register holds that the caller did not load

Keys == Commands \cup {NL}

ASSUME /\ NL \notin Commands /\ Nul \notin Keys
       /\ BufLen \in Nat \ {0} /\ MaxTyped \in Nat /\ Stale \subseteq Nat

VARIABLES stdin,    \* console::STDIN
          kernel,   \* "up", or "panic"
          served,   \* what the dispatcher did for the last system call
          pc,       \* where the shell is
          buf,      \* input: buf
          len,      \* input: len
          old_len,  \* input: old_len
          line,     \* shell: input
          typed,    \* history: every key typed
          taken     \* history: every key of the lines input has returned

vars == <<stdin, kernel, served, pc, buf, len, old_len, line, typed, taken>>

\* syscall/numbers.rs, as stdlib/src/syscall.rs numbers the calls
PRINT == 0
READ_KV == 1
WRITE_KV == 2
DELETE_KV == 3
READ_IN == 4
WRITE_KV_PERSIST == 5

\* The registers at int 0x80.  syscall2 loads rax, rdi and rsi; rdx holds
\* what the code before it left there.
syscall2(n, arg1, arg2) ==
    [rax : {n}, rdi : {arg1}, rsi : {arg2}, rdx : Stale]

syscall3(n, arg1, arg2, arg3) ==
    [rax : {n}, rdi : {arg1}, rsi : {arg2}, rdx : {arg3}]

\* stdlib syscall::read_kv, write_kv, write_kv_persist
read_kv(keys) == syscall3(READ_KV, "keys", "vals", keys)
write_kv(keys) == syscall3(WRITE_KV, "keys", "vals", keys)
write_kv_persist(keys) == syscall3(WRITE_KV_PERSIST, "keys", "vals", keys)

\* stdlib syscall::delete_kv
delete_kv(keys) == syscall2(DELETE_KV, "keys", keys)

\* stdlib syscall::read_in
read_in(length) == syscall2(READ_IN, "buf", length)

\* syscall_handler_impl and dispatcher: the function called, and the length
\* it is given
dispatcher(regs) ==
    LET n == regs.rax  arg2 == regs.rsi  arg3 == regs.rdx
    IN  CASE n \in {PRINT, READ_IN} -> [n |-> n, len |-> arg2]
          [] n \in {READ_KV, WRITE_KV, DELETE_KV, WRITE_KV_PERSIST}
                                    -> [n |-> n, len |-> arg3]
          [] OTHER                  -> [n |-> n, len |-> 0]

Served == [n : Nat, len : Nat]

\* mutant of read_line: the line is taken whether it has ended or not
read_line_takes ==
    [line |-> stdin, left |-> <<>>]

\* console::read_line: the line so far, taken from STDIN once it has ended
read_line ==
    [line |-> stdin,
     left |-> IF stdin # <<>> /\ stdin[Len(stdin)] = NL THEN <<>> ELSE stdin]

\* mutant of the loop of funcs::read_in: the copy stops at the buffer's end
copies_all(s, length) == TRUE

\* the loop of funcs::read_in runs to its end: `i > len` stops it one byte
\* late, and s[len] is outside the buffer
copies(s, length) == Len(s) <= length

copy(s, into) ==
    [i \in 1 .. (IF Len(s) > Len(into) THEN Len(s) ELSE Len(into)) |->
        IF i <= Len(s) THEN s[i] ELSE into[i]]

Fresh == [i \in 1 .. BufLen |-> Nul]

\* console::key_handle: the character goes to the end of STDIN
key_handle(key) == Append(stdin, key)

TypeOK ==
    /\ stdin \in Seq(Keys) /\ kernel \in {"up", "panic"} /\ served \in Served
    /\ pc \in {"prompt", "read", "loop", "match", "exited"}
    /\ buf \in [1 .. BufLen -> Keys \cup {Nul}]
    /\ len \in 0 .. BufLen /\ old_len \in 0 .. BufLen
    /\ line \in Seq(Keys) /\ typed \in Seq(Keys) /\ taken \in Seq(Keys)

\* initexec _start and main, up to the call of shell
Init ==
    /\ stdin = <<>> /\ kernel = "up" /\ served = dispatcher([rax |-> PRINT, rsi |-> 0, rdx |-> 0])
    /\ pc = "prompt" /\ buf = Fresh /\ len = 0 /\ old_len = 0
    /\ line = <<>> /\ typed = <<>> /\ taken = <<>>

-----------------------------------------------------------------------------
\* keyboard_interrupt_handler, for a scancode that ends a key with a
\* character, and console::key_handle
KeyPress(key) ==
    /\ kernel = "up" /\ Len(typed) < MaxTyped
    /\ stdin' = key_handle(key)
    /\ typed' = Append(typed, key)
    /\ UNCHANGED <<kernel, served, pc, buf, len, old_len, line, taken>>

\* mutant of Prompt: old_len is what the line before has left
Prompt_keeps_old_len ==
    /\ pc = "prompt" /\ kernel = "up"
    /\ \E regs \in syscall2(PRINT, "prompt", 1) : served' = dispatcher(regs)
    /\ buf' = Fresh /\ pc' = "read"
    /\ UNCHANGED <<stdin, kernel, len, old_len, line, typed, taken>>

\* shell::input: the prompt and a fresh buffer
Prompt ==
    /\ pc = "prompt" /\ kernel = "up"
    /\ \E regs \in syscall2(PRINT, "prompt", 1) : served' = dispatcher(regs)
    /\ buf' = Fresh /\ old_len' = 0 /\ pc' = "read"
    /\ UNCHANGED <<stdin, kernel, len, line, typed, taken>>

\* syscall::read_in, from int 0x80 to iretq: funcs::read_in takes the line
\* and copies it
ReadIn ==
    /\ pc = "read" /\ kernel = "up"
    /\ \E regs \in read_in(BufLen) :
          LET call == dispatcher(regs) IN
          /\ served' = call
          /\ stdin' = read_line.left
          /\ IF copies(read_line.line, call.len)
             THEN /\ buf' = copy(read_line.line, buf)
                  /\ len' = Len(read_line.line)
                  /\ pc' = "loop" /\ UNCHANGED kernel
             ELSE kernel' = "panic" /\ UNCHANGED <<buf, len, pc>>
    /\ UNCHANGED <<old_len, line, typed, taken>>

\* shell::input: the body of the loop after read_in
Input ==
    /\ pc = "loop" /\ kernel = "up"
    /\ IF len > old_len /\ buf[len] = NL
       THEN /\ line' = SubSeq(buf, 1, len - 1)
            /\ taken' = taken \o SubSeq(buf, 1, len)
            /\ pc' = "match" /\ UNCHANGED old_len
       ELSE /\ old_len' = len /\ pc' = "read"
            /\ UNCHANGED <<line, taken>>
    /\ UNCHANGED <<stdin, kernel, served, buf, len, typed>>

\* input.split_whitespace(): the commands of the line
parts == SelectSeq(line, LAMBDA key : key # NL)

\* shell::shell: read_kv, write_kv and delete_kv of one key
KV == [read_kv   |-> read_kv(1), write_kv |-> write_kv(1),
       delete_kv |-> delete_kv(1)]

KVCommand(c) ==
    /\ pc = "match" /\ kernel = "up" /\ parts = <<c>>
    /\ \E regs \in KV[c] : served' = dispatcher(regs)
    /\ pc' = "prompt"
    /\ UNCHANGED <<stdin, kernel, buf, len, old_len, line, typed, taken>>

\* shell::shell: echo, help and "Unknown command" print and go on
PrintCommand ==
    /\ pc = "match" /\ kernel = "up"
    /\ \A c \in DOMAIN KV \cup {"exit"} : parts # <<c>>
    /\ \E regs \in syscall2(PRINT, "text", 1) : served' = dispatcher(regs)
    /\ pc' = "prompt"
    /\ UNCHANGED <<stdin, kernel, buf, len, old_len, line, typed, taken>>

\* shell::shell: exit leaves the loop, and main spins
Exit ==
    /\ pc = "match" /\ kernel = "up" /\ parts = <<"exit">>
    /\ \E regs \in syscall2(PRINT, "text", 1) : served' = dispatcher(regs)
    /\ pc' = "exited"
    /\ UNCHANGED <<stdin, kernel, buf, len, old_len, line, typed, taken>>

Next ==
    \/ \E key \in Keys : KeyPress(key)
    \/ Prompt
    \/ ReadIn
    \/ Input
    \/ \E c \in DOMAIN KV : KVCommand(c)
    \/ PrintCommand
    \/ Exit

Spec == Init /\ [][Next]_vars

\* The shell is the one program of user space: between two interrupts the
\* processor runs its next step.  Nothing is assumed of the keyboard.
ShellStep ==
    \/ Prompt \/ ReadIn \/ Input
    \/ \E c \in DOMAIN KV : KVCommand(c)
    \/ PrintCommand \/ Exit

FairSpec == Spec /\ WF_vars(ShellStep)

-----------------------------------------------------------------------------
\* What the shell still holds of a line that read_line has taken.
held == IF pc = "loop" /\ len > 0 /\ buf[len] = NL THEN SubSeq(buf, 1, len)
        ELSE <<>>

\* Nothing typed is lost, doubled or moved on its way to the shell: the
\* lines shell::input has returned, the line it is about to return and what
\* STDIN holds are, in this order, the keys typed.  read_line hands the
\* unfinished line out again at every call and takes it at the newline;
\* input tells by old_len what is new.
InputsAreTyped == kernel = "up" => typed = taken \o held \o stdin

\* the last key typed is a newline
Ended == typed # <<>> /\ typed[Len(typed)] = NL

\* A line that is ended is answered: when the user stops at a newline,
\* shell::input returns all that was typed, unless the shell has left its
\* loop at "exit" or the kernel has stopped.  The loop of input needs
\* old_len for it: read_in returns the unfinished line again at every
\* call, and the newline must make the line longer than what input saw.
EndedLineIsAnswered ==
    Ended ~> (~Ended \/ taken = typed \/ pc = "exited" \/ kernel = "panic")

\* The console is line-oriented: what shell::input returns is one line,
\* as typed.
LineOriented == NL \notin {line[i] : i \in DOMAIN line}

\* No typing stops the kernel: funcs::read_in fills the buffer it is given
\* and no more.
KernelSurvivesTyping == kernel = "up"

\* The kernel works on as many keys as the caller passed: the shell passes
\* one key to read_kv, write_kv and delete_kv.
TakesTheKeysPassed ==
    served.n \in {READ_KV, WRITE_KV, DELETE_KV} => served.len = 1
=============================================================================
