------------------------------ MODULE Console -------------------------------
(***************************************************************************)
(* The command console of the C programming lab, console.c, and the        *)
(* accounting of its memory in report.c: a stack of input files, the       *)
(* reading of command lines, the options, the count of errors and quit.    *)
(*                                                                         *)
(* A file is what is left of it: the complete lines, whether text without  *)
(* a newline follows them, and whether they are in the buffer.  Files are  *)
(* shorter than the buffer.  What a line says is chosen when it is read.   *)
(***************************************************************************)
EXTENDS Integers, Sequences

CONSTANTS MaxFiles     \* bound: files open at a time; open fails beyond it

VARIABLES files,       \* buf_stack, its top first
          err_cnt, err_limit, quit_flag,
          verblevel,
          accounted    \* blocks of malloc_or_fail not yet given back

console == <<files, err_cnt, err_limit, quit_flag, verblevel, accounted>>

File == [lines : Nat, open : BOOLEAN, loaded : BOOLEAN]

(* init_cmd and console_init allocate a block for each of 16 commands and  *)
(* 6 parameters.                                                           *)
Registered == 16 + 6

malloc_or_fail(n) == accounted' = accounted + n
free_block(n) == accounted' = accounted - n

ConsoleInit == /\ files = << >> /\ err_cnt = 0 /\ quit_flag = FALSE
               /\ accounted = Registered

(* push_file: the stack with a new file on top, if it can be opened.       *)
CanOpen == Len(files) < MaxFiles
Pushed(file) == <<[file EXCEPT !.loaded = FALSE]>> \o files

cmd_done == files = << >> \/ quit_flag

read_ready == files # << >> /\ Head(files).loaded /\ Head(files).lines > 0

(* readline on the file on top: a line of the buffer or of what is read    *)
(* into it, the text behind the last newline, or nothing.  At the end of a *)
(* file it is popped.                                                      *)
ReadComplete == /\ files # << >> /\ Head(files).lines > 0
                /\ files' = <<[Head(files) EXCEPT !.lines = @ - 1, !.loaded = TRUE]>> \o Tail(files)
pop_file == files' = Tail(files)
ReadRest == files # << >> /\ Head(files).lines = 0 /\ Head(files).open /\ pop_file
ReadNothing == files # << >> /\ Head(files).lines = 0 /\ ~Head(files).open /\ pop_file

(* record_error, n times; the command quit sets quit_flag by itself.       *)
record_error(n, quit) ==
    /\ err_cnt' = err_cnt + n
    /\ quit_flag' = (quit_flag \/ quit \/ (n > 0 /\ err_cnt + n >= err_limit))

(* do_option_cmd with one name and value.                                  *)
do_option_cmd(name, value) ==
    /\ err_limit' = IF name = "error" THEN value ELSE err_limit
    /\ verblevel' = IF name = "verbose" THEN value ELSE verblevel

(* interpret_cmd allocates an argument vector and its strings, here taken  *)
(* as ArgBlocks blocks, and frees them when the command is done.           *)
ArgBlocks == 2

(* Mutant: the files are not freed.                                        *)
QuitForgetsFiles == free_block(Registered) /\ files' = << >>

(* do_quit_cmd, up to the quit helpers: lists and files are freed.         *)
do_quit_cmd == /\ free_block(Registered + Len(files))
               /\ files' = << >>
=============================================================================
