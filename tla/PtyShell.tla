------------------------------ MODULE PtyShell ------------------------------
(***************************************************************************)
(* A shell behind a pseudo-terminal (internal/shell/shell.go) and the      *)
(* calls that share it (the shell tools of internal/mcp/tools_sys.go): the *)
(* goroutine that drains the terminal into a buffer, and callers that run  *)
(* commands or read.  Output is a sequence of chunks, numbered as they are *)
(* printed; each is printed by the command of a caller, by nobody's        *)
(* (the greeting and the prompt), or by what was typed raw.                *)
(***************************************************************************)
EXTENDS Naturals, Sequences, SequencesExt

CONSTANTS
    Callers,     \* calls of Run, with the command of each
    Readers,     \* calls of shell_read
    NobodysOwn,  \* what prints when no command does
    Ceiling,     \* chunks the buffer may hold before its head is dropped
    KeptTail,    \* chunks that are kept then
    MaxChunks    \* bound: chunks printed

ASSUME ShellConstants ==
    /\ NobodysOwn \notin Callers /\ Callers \cap Readers = {}
    /\ Ceiling \in Nat /\ KeptTail \in 0..Ceiling /\ MaxChunks \in Nat

VARIABLES
    open,     \* ShellManager.sessions still has it
    lives,    \* external: the shell process
    stdin,    \* commands written and not read by the shell
    runs,     \* the command it is executing, or NobodysOwn
    pty,      \* printed and not read by the daemon
    printer,  \* whose each chunk is, in the order of printing
    buf,      \* ShellSession.buf
    ptyClosed,\* ShellSession.closed
    caller,   \* where each call is, and whether it has seen output
    acc,      \* what each call has taken out of the buffer for its answer
    trimmed,  \* history: chunks the ceiling cost
    stale     \* history: chunks that were in the buffer when a call began

shellVars == <<open, lives, stdin, runs, pty, printer, buf, ptyClosed, caller, acc, trimmed, stale>>

Calls == Callers \cup Readers

ShellInit ==
    /\ open = TRUE /\ lives = TRUE
    /\ stdin = <<>> /\ runs = NobodysOwn
    /\ pty = <<>> /\ printer = <<>> /\ buf = <<>> /\ ptyClosed = FALSE
    /\ caller = [c \in Calls |-> "away"]
    /\ acc = [c \in Calls |-> <<>>]
    /\ trimmed = {} /\ stale = [c \in Calls |-> {}]

CallerAt(c, pc) == caller' = [caller EXCEPT ![c] = pc]

\* ---- the shell (external) and the goroutine that drains it

ShellReads ==
    /\ lives /\ runs = NobodysOwn /\ stdin # <<>>
    /\ runs' = Head(stdin) /\ stdin' = Tail(stdin)
    /\ UNCHANGED <<open, lives, pty, printer, buf, ptyClosed, caller, acc, trimmed, stale>>

ShellPrints ==
    /\ lives /\ Len(printer) < MaxChunks
    /\ printer' = Append(printer, runs) /\ pty' = Append(pty, Len(printer'))
    /\ UNCHANGED <<open, lives, stdin, runs, buf, ptyClosed, caller, acc, trimmed, stale>>

CommandEnds ==
    /\ lives /\ runs # NobodysOwn /\ runs' = NobodysOwn
    /\ UNCHANGED <<open, lives, stdin, pty, printer, buf, ptyClosed, caller, acc, trimmed, stale>>

ShellDies ==
    /\ lives /\ lives' = FALSE
    /\ UNCHANGED <<open, stdin, runs, pty, printer, buf, ptyClosed, caller, acc, trimmed, stale>>

\* One read: past the ceiling only the tail is kept, before the new chunk is added.
DrainPty ==
    /\ pty # <<>> /\ ~ptyClosed
    /\ LET over == Len(buf) > Ceiling
           kept == IF over THEN SubSeq(buf, Len(buf) - KeptTail + 1, Len(buf)) ELSE buf
       IN  /\ buf' = Append(kept, Head(pty))
           /\ trimmed' = trimmed \cup (ToSet(buf) \ ToSet(kept))
    /\ pty' = Tail(pty)
    /\ UNCHANGED <<open, lives, stdin, runs, printer, ptyClosed, caller, acc, stale>>

DrainEnds ==
    /\ ~ptyClosed /\ (~open \/ (~lives /\ pty = <<>>))
    /\ ptyClosed' = TRUE
    /\ UNCHANGED <<open, lives, stdin, runs, pty, printer, buf, caller, acc, trimmed, stale>>

\* ShellManager.Close: the terminal is closed and the process killed; a call that
\* has the session goes on with it.
CloseShell ==
    /\ open /\ open' = FALSE
    /\ lives' = FALSE
    /\ UNCHANGED <<stdin, runs, pty, printer, buf, ptyClosed, caller, acc, trimmed, stale>>

\* ---- Run

\* What was there is dropped, so that the output is the command's own.
Start(c) ==
    /\ open /\ caller[c] = "away" /\ CallerAt(c, "write")
    /\ stale' = [stale EXCEPT ![c] = ToSet(buf)] /\ buf' = <<>>
    /\ UNCHANGED <<open, lives, stdin, runs, pty, printer, ptyClosed, acc, trimmed>>

\* The error of a terminal that is gone is not looked at.
WriteCommand(c) ==
    /\ caller[c] = "write" /\ CallerAt(c, "poll")
    /\ stdin' = IF lives THEN Append(stdin, c) ELSE stdin
    /\ UNCHANGED <<open, lives, runs, pty, printer, buf, ptyClosed, acc, trimmed, stale>>

\* Drain: the whole buffer, and it is empty after.
\* Slip: it is read and not reset.
TakeAndLeave(c) ==
    /\ acc' = [acc EXCEPT ![c] = @ \o buf]
    /\ UNCHANGED buf

Take(c) ==
    /\ acc' = [acc EXCEPT ![c] = @ \o buf]
    /\ buf' = <<>>

PollBuffer(c) ==
    /\ caller[c] = "poll" /\ buf # <<>>
    /\ Take(c)
    /\ UNCHANGED <<open, lives, stdin, runs, pty, printer, ptyClosed, caller, trimmed, stale>>

\* Some output, and then none for a while: that is all there is to go by, whatever
\* the command does.
FallsQuiet(c) ==
    /\ caller[c] = "poll" /\ buf = <<>> /\ acc[c] # <<>>
    /\ CallerAt(c, "completed")
    /\ UNCHANGED <<open, lives, stdin, runs, pty, printer, buf, ptyClosed, acc, trimmed, stale>>

RunTimesOut(c) ==
    /\ caller[c] = "poll" /\ CallerAt(c, "timed out")
    /\ UNCHANGED <<open, lives, stdin, runs, pty, printer, buf, ptyClosed, acc, trimmed, stale>>

\* ---- shell_read

Read(r) ==
    /\ open /\ caller[r] = "away" /\ CallerAt(r, "completed")
    /\ Take(r)
    /\ UNCHANGED <<open, lives, stdin, runs, pty, printer, ptyClosed, trimmed, stale>>

ShellNext ==
    \/ ShellReads \/ ShellPrints \/ CommandEnds \/ ShellDies \/ DrainPty \/ DrainEnds \/ CloseShell
    \/ \E c \in Callers : Start(c) \/ WriteCommand(c) \/ PollBuffer(c) \/ FallsQuiet(c) \/ RunTimesOut(c)
    \/ \E r \in Readers : Read(r)

ShellSpec == ShellInit /\ [][ShellNext]_shellVars

\* ---- properties

ShellTypeOK ==
    /\ runs \in Callers \cup {NobodysOwn} /\ stdin \in Seq(Callers)
    /\ \A s \in {buf, pty} \cup {acc[c] : c \in Calls} : s \in Seq(1..Len(printer))
    /\ Len(buf) <= Ceiling + 1

\* Output reaches one call, once, in order, and not a later one.  A chunk the
\* daemon has is in the buffer or in the answer of one call, in the order of
\* printing; no answer has what was in the buffer before its call began; and
\* what the command of a call has printed while the call goes on is lost to the
\* ceiling only, or to another call on the same shell, which takes what it finds.
OutputReachesOneCall ==
    /\ \A c \in Calls :
         /\ \A i, j \in DOMAIN acc[c] : i < j => acc[c][i] < acc[c][j]
         /\ ToSet(acc[c]) \cap (ToSet(buf) \cup ToSet(pty) \cup stale[c]) = {}
         /\ \A d \in Calls \ {c} : ToSet(acc[c]) \cap ToSet(acc[d]) = {}
    /\ \A c \in Callers : caller[c] = "poll" =>
         \A k \in DOMAIN printer : printer[k] = c =>
            \/ k \in ToSet(pty) \cup ToSet(buf) \cup ToSet(acc[c]) \cup trimmed
            \/ \E d \in Calls \ {c} : k \in ToSet(acc[d]) \cup stale[d]
=============================================================================
