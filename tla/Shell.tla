------------------------------- MODULE Shell -------------------------------
(***************************************************************************)
(* init and the shell (user/init.c, user/sh.c) as processes: the shell     *)
(* reads a line, forks a child that parses it and runs the command, and    *)
(* waits; the child forks again for pipelines, lists and background        *)
(* commands, wiring their descriptors with pipe(), dup() and close().      *)
(*                                                                         *)
(* The system calls are those of the kernel modules seen from user space:  *)
(* descriptors are given out lowest first, fork() fails when the process   *)
(* table is full, exit() closes and hands the children to init, wait()     *)
(* reaps the first zombie child.  A program is a filter: it may end at any *)
(* time, and does end once its standard input is at end of file.  What is  *)
(* typed is for the shell: a program that reads the console is one that    *)
(* ends without input, or whose user types an end of file at some time.    *)
(***************************************************************************)
EXTENDS ShParse

CONSTANTS
    NPROC,      \* size of the process table
    NBUF,       \* bytes of the shell's line buffer
    Sessions,   \* what may be typed: sequences of characters
    Programs,   \* names exec() finds
    Dirs        \* names chdir() accepts

VARIABLES
    proc,       \* pid -> process
    input,      \* characters still to be typed; "EOF" is an end of file
    files,      \* names of the files that exist
    halted,     \* init has exited: the kernel panics
    failed      \* some fork() or pipe() has failed

shellVars == <<proc, input, files, halted, failed>>

Pid == 1..NPROC

init == 1

Console == <<"console">>

Stdio == [d \in 0..2 |-> Console]

NoCmd == [type |-> "none"]

\* want and bg are history: the standard input and output the command line gives
\* the process, and whether it runs below a "&".
Free ==
    [st |-> "free", parent |-> 0, pc |-> "none", cmd |-> NoCmd, line |-> <<>>,
     fd |-> <<>>, p |-> <<>>, child |-> 0, cwd |-> <<>>, want |-> Stdio, bg |-> FALSE]

\* No session: the kernel is not running.
ShellOff ==
    /\ proc = [q \in Pid |-> Free]
    /\ input = <<>> /\ files = {}
    /\ halted = TRUE /\ failed = FALSE

ShellInit ==
    /\ proc = [q \in Pid |-> IF q = init THEN [Free EXCEPT !.st = "live", !.pc = "fork", !.fd = Stdio]
                             ELSE Free]
    /\ input \in Sessions
    /\ files = {}
    /\ halted = FALSE /\ failed = FALSE

-----------------------------------------------------------------------------
(* System calls.                                                           *)

close(fd, d) == [e \in DOMAIN fd \ {d} |-> fd[e]]

\* The lowest free descriptor (fdalloc), and the table with x there.
fdalloc(fd) == Min({d \in 0..Cardinality(DOMAIN fd) : d \notin DOMAIN fd})

opened(fd, x) == [d \in DOMAIN fd \cup {fdalloc(fd)} |-> IF d = fdalloc(fd) THEN x ELSE fd[d]]

Closed(pr, p) ==
    [q \in Pid |->
        IF q = p THEN [Free EXCEPT !.st = "zombie", !.parent = pr[p].parent, !.bg = pr[p].bg]
        ELSE IF pr[q].parent = p THEN [pr[q] EXCEPT !.parent = init] ELSE pr[q]]

exit(p) ==
    IF p = init THEN halted' = TRUE /\ UNCHANGED proc
    ELSE proc' = Closed(proc, p) /\ UNCHANGED halted

FreeSlots == {q \in Pid : proc[q].st = "free"}

\* fork1(): the parent goes on as me, the child as child; panic if it fails.
fork1(p, me, child) ==
    IF FreeSlots = {} THEN exit(p) /\ failed' = TRUE
    ELSE /\ proc' = [proc EXCEPT ![p] = me, ![Min(FreeSlots)] = [child EXCEPT !.parent = p]]
         /\ UNCHANGED <<halted, failed>>

Zombies(p) == {q \in Pid : proc[q].st = "zombie" /\ proc[q].parent = p}

HasChild(p) == \E q \in Pid : proc[q].st # "free" /\ proc[q].parent = p

\* The child that wait() finds, or 0 if p has no children.
Reaped(p) == Min(Zombies(p) \cup (IF HasChild(p) THEN {} ELSE {0}))

\* wait(0), after which p goes on as me.
wait(p, me) ==
    /\ Zombies(p) # {} \/ ~HasChild(p)
    /\ proc' = [q \in Pid |-> IF q = p THEN me ELSE IF q = Reaped(p) THEN Free ELSE proc[q]]

-----------------------------------------------------------------------------
(* init.                                                                   *)

PC(p, pc) == ~halted /\ proc[p].st = "live" /\ proc[p].pc = pc

InitFork(p) ==
    /\ p = init /\ PC(p, "fork")
    /\ IF FreeSlots = {} THEN exit(p)
       ELSE /\ proc' = [proc EXCEPT
                          ![p].pc = "reap", ![p].child = Min(FreeSlots),
                          ![Min(FreeSlots)] = [proc[p] EXCEPT !.parent = p, !.pc = "main"]]
            /\ UNCHANGED halted
    /\ UNCHANGED <<input, files, failed>>

InitWait(p) ==
    /\ PC(p, "reap")
    /\ IF ~HasChild(p) THEN exit(p)
       ELSE /\ wait(p, IF Reaped(p) = proc[p].child THEN [proc[p] EXCEPT !.pc = "fork", !.child = 0]
                   ELSE proc[p])
            /\ UNCHANGED halted
    /\ UNCHANGED <<input, files, failed>>

-----------------------------------------------------------------------------
(* main() of the shell.                                                    *)

\* while((fd = open("console", O_RDWR)) >= 0): descriptors 0, 1 and 2 are open.
ShMain(p) ==
    /\ PC(p, "main")
    /\ proc' = [proc EXCEPT ![p].pc = "getcmd", ![p].fd = @ @@ Stdio]
    /\ UNCHANGED <<input, files, halted, failed>>

\* How many characters gets() stores: up to a newline, an end of file, or NBUF - 1.
gets(in) ==
    LET nl  == FirstIn(in, 1, LAMBDA c : c \in {"\n", "\r", NUL})
        eof == FirstIn(in, 1, LAMBDA c : c \in {"EOF", NUL}) - 1
    IN  Min({nl, eof, NBUF - 1})

GetCmd(p) ==
    /\ PC(p, "getcmd") /\ input # <<>>
    /\ LET n    == gets(input)
           line == SubSeq(input, 1, n)
           dir  == SubSeq(line, 4, n - 1)
           eof  == n < NBUF - 1 /\ At(line, n) \notin {"\n", "\r"}
       IN  /\ input' = SubSeq(input, IF eof THEN n + 2 ELSE n + 1, Len(input))
           /\ IF line = <<>> THEN exit(p) /\ UNCHANGED failed
              ELSE IF IsPrefix(<<"c", "d", " ">>, line)
              THEN /\ proc' = [proc EXCEPT ![p].cwd = IF dir \in Dirs THEN dir ELSE @]
                   /\ UNCHANGED <<halted, failed>>
              ELSE fork1(p, [proc[p] EXCEPT !.pc = "shwait"], [proc[p] EXCEPT !.pc = "parse", !.line = line])
    /\ UNCHANGED files

ShWait(p) ==
    /\ PC(p, "shwait")
    /\ wait(p, [proc[p] EXCEPT !.pc = "getcmd"])
    /\ UNCHANGED <<input, files, halted, failed>>

\* parsecmd() of each line that gets() can cut from a session.
Parsed ==
    LET cuts == UNION {{SubSeq(s, i, j) : i, j \in DOMAIN s} : s \in Sessions}
    IN  [l \in {c \in cuts : Len(c) < NBUF} |-> parsecmd(l)]

\* runcmd(parsecmd(buf)).
Parse(p) ==
    /\ PC(p, "parse")
    /\ LET r == Parsed[proc[p].line]
       IN  IF r.ok THEN /\ proc' = [proc EXCEPT ![p].pc = "run", ![p].cmd = r.val, ![p].line = <<>>]
                        /\ UNCHANGED halted
           ELSE exit(p)
    /\ UNCHANGED <<input, files, failed>>

-----------------------------------------------------------------------------
(* runcmd().                                                               *)

Runs(p, type) == PC(p, "run") /\ proc[p].cmd.type = type

Run(c, cmd) == [c EXCEPT !.pc = "run", !.cmd = cmd]

RunExec(p) ==
    /\ Runs(p, "EXEC")
    /\ LET argv == proc[p].cmd.argv
       IN  IF argv # <<>> /\ argv[1] \in Programs
           THEN proc' = [proc EXCEPT ![p].pc = "program", ![p].cmd = NoCmd] /\ UNCHANGED halted
           ELSE exit(p)
    /\ UNCHANGED <<input, files, failed>>

\* close(rcmd->fd), open(rcmd->file): open() takes the descriptor just closed.
\* It may fail, also after it created the file: there is none, or nothing left
\* to open it with.
RunRedir(p) ==
    /\ Runs(p, "REDIR")
    /\ LET c == proc[p].cmd
           x == <<"file", c.file>>
           makes == IF c.mode = "O_RDONLY" THEN {} ELSE {c.file}
       IN  \/ exit(p) /\ files' \in {files, files \cup makes}
           \/ /\ c.file \in files \cup makes
              /\ proc' = [proc EXCEPT ![p] = [Run(@, c.cmd) EXCEPT
                                                !.fd = opened(close(@, c.fd), x), !.want[c.fd] = x]]
              /\ files' = files \cup makes
              /\ UNCHANGED halted
    /\ UNCHANGED <<input, failed>>

RunList(p) ==
    /\ Runs(p, "LIST")
    /\ fork1(p, [proc[p] EXCEPT !.pc = "list"], Run(proc[p], proc[p].cmd.left))
    /\ UNCHANGED <<input, files>>

ListWait(p) ==
    /\ PC(p, "list")
    /\ wait(p, Run(proc[p], proc[p].cmd.right))
    /\ UNCHANGED <<input, files, halted, failed>>

RunBack(p) ==
    /\ Runs(p, "BACK")
    /\ fork1(p, [proc[p] EXCEPT !.pc = "exit", !.cmd = NoCmd],
                [Run(proc[p], proc[p].cmd.cmd) EXCEPT !.bg = TRUE])
    /\ UNCHANGED <<input, files>>

Exit(p) ==
    /\ PC(p, "exit")
    /\ exit(p)
    /\ UNCHANGED <<input, files, failed>>

OpenFiles == UNION {{proc[q].fd[d] : d \in DOMAIN proc[q].fd} : q \in Pid}

\* pipe(p), which fails when the kernel has no page or no file left.
RunPipe(p) ==
    /\ Runs(p, "PIPE")
    /\ \/ LET k  == Min({i \in Pid : {<<"r", i>>, <<"w", i>>} \cap OpenFiles = {}})
              f0 == opened(proc[p].fd, <<"r", k>>)
              f1 == opened(f0, <<"w", k>>)
          IN  /\ proc' = [proc EXCEPT ![p].pc = "left", ![p].fd = f1,
                                      ![p].p = <<fdalloc(proc[p].fd), fdalloc(f0)>>]
              /\ UNCHANGED <<halted, failed>>
       \/ exit(p) /\ failed' = TRUE
    /\ UNCHANGED <<input, files>>

\* In the child: close(d); dup(p[i]); close(p[0]); close(p[1]).
Plumbed(c, d, i, cmd) ==
    [Run(c, cmd) EXCEPT !.fd = close(close(opened(close(@, d), @[c.p[i]]), c.p[1]), c.p[2]),
                        !.want[d] = c.fd[c.p[i]], !.p = <<>>]

PipeLeft(p) ==
    /\ PC(p, "left")
    /\ fork1(p, [proc[p] EXCEPT !.pc = "right"], Plumbed(proc[p], 1, 2, proc[p].cmd.left))
    /\ UNCHANGED <<input, files>>

\* Mutant: the right-hand child keeps the write end.
PipeRightKeeps(p) ==
    /\ PC(p, "right")
    /\ fork1(p, [proc[p] EXCEPT !.pc = "close"],
                [Plumbed(proc[p], 0, 1, proc[p].cmd.right) EXCEPT !.fd = opened(@, proc[p].fd[proc[p].p[2]])])
    /\ UNCHANGED <<input, files>>

PipeRight(p) ==
    /\ PC(p, "right")
    /\ fork1(p, [proc[p] EXCEPT !.pc = "close"], Plumbed(proc[p], 0, 1, proc[p].cmd.right))
    /\ UNCHANGED <<input, files>>

\* Mutant: the shell between the two does not close the pipe.
PipeCloseNone(p) ==
    /\ PC(p, "close")
    /\ proc' = [proc EXCEPT ![p].pc = "wait1", ![p].p = <<>>, ![p].cmd = NoCmd]
    /\ UNCHANGED <<input, files, halted, failed>>

PipeClose(p) ==
    /\ PC(p, "close")
    /\ proc' = [proc EXCEPT ![p] = [@ EXCEPT !.pc = "wait1", !.p = <<>>, !.cmd = NoCmd,
                                             !.fd = close(close(@, proc[p].p[1]), proc[p].p[2])]]
    /\ UNCHANGED <<input, files, halted, failed>>

PipeWait(p) ==
    /\ PC(p, "wait1") \/ PC(p, "wait2")
    /\ wait(p, [proc[p] EXCEPT !.pc = IF @ = "wait1" THEN "wait2" ELSE "exit"])
    /\ UNCHANGED <<input, files, halted, failed>>

-----------------------------------------------------------------------------
(* A program run by exec().                                                *)

\* Of a pipe, no process has the write end open; a file ends, and so, by the
\* assumption on what is typed, does the console.
AtEof(p) == proc[p].fd[0][1] = "r" => <<"w", proc[p].fd[0][2]>> \notin OpenFiles

Program(p) ==
    /\ PC(p, "program")
    /\ exit(p)
    /\ UNCHANGED <<input, files, failed>>

Step(p) ==
    \/ InitFork(p) \/ InitWait(p)
    \/ ShMain(p) \/ GetCmd(p) \/ ShWait(p) \/ Parse(p)
    \/ RunExec(p) \/ RunRedir(p) \/ RunList(p) \/ ListWait(p) \/ RunBack(p) \/ Exit(p)
    \/ RunPipe(p) \/ PipeLeft(p) \/ PipeRight(p) \/ PipeClose(p) \/ PipeWait(p)
    \/ Program(p)

ShellNext == \E p \in Pid : Step(p)

\* What the kernel's scheduling carries out: while some process can take a step,
\* other than a program waiting for a pipe's writers, one does.  That a program
\* on the console is not waiting for ever is the assumption in AtEof.
Progress == \E p \in Pid : (proc[p].pc = "program" => AtEof(p)) /\ Step(p)

-----------------------------------------------------------------------------
Foreground(q) == proc[q].st = "live" /\ proc[q].pc \notin {"fork", "reap", "main", "getcmd", "shwait"} /\ ~proc[q].bg

\* runcmd() gives each program the descriptors the line says, and only those: a
\* pipe end left over in any process would keep its reader from end of file.
\* When the shell prompts again, it has no child, its own descriptors are as
\* they were, and the foreground processes of the line are gone: wait(0), which
\* takes no pid, is never answered by the wrong child (a fork() or pipe() that
\* fails halfway through a pipeline is the exception: its left half runs on).
JobsSound ==
    \A p \in Pid :
      /\ proc[p].pc = "program" => proc[p].fd = proc[p].want
      /\ proc[p].pc = "getcmd" =>
           /\ ~HasChild(p)
           /\ proc[p].fd = Stdio
           /\ failed \/ ~\E q \in Pid : Foreground(q)

AtPrompt ==
    \A p \in Pid : proc[p].st = "free" \/ proc[p].pc \in {"reap", "getcmd"}

\* If programs that read the console end (AtEof), every session ends at a prompt:
\* whatever pipelines, lists and background commands its lines hold, the shell
\* gets its wait(0) answered, the processes end, and every zombie is reaped,
\* orphans by init.
ShellReturns == <>[](halted \/ AtPrompt)
=============================================================================
