------------------------------ MODULE Terminal ------------------------------
(***************************************************************************)
(* The terminal people and agents share: one pane of one tmux session, the *)
(* shell in it that records how each line ended (deploy/desktop), and the  *)
(* tools terminal_open and terminal_run of internal/mcp/tools_terminal.go. *)
(* A line is the set of the commands on it: two callers that type at the   *)
(* same time type on one line.                                             *)
(***************************************************************************)
EXTENDS Naturals, Sequences, SequencesExt

CONSTANTS
    Runs,      \* calls of terminal_run, each with the command of its name
    Others,    \* commands people type into the pane
    Elsewhere, \* a command in a shell that is not under tmux
    Program,   \* the commands whose process is no shell; a script of bash's is not one
    Ends       \* the commands that end the shell

ASSUME TerminalConstants ==
    /\ Runs \cap Others = {} /\ Elsewhere \notin Runs \cup Others
    /\ Program \cup Ends \subseteq Runs \cup Others /\ Program \cap Ends = {}

VARIABLES
    alive,   \* the tmux session exists
    shown,   \* a graphical terminal is attached to it
    line,    \* what is typed and not entered yet
    queue,   \* lines entered and not read by the shell yet
    doing,   \* the line the shell is executing, {} at the prompt
    ended,   \* commands that have ended
    record,  \* the files of exit codes, the pane's and the shared one: whose code each
             \* holds ({} when there is no file), and the calls it is fresh for
    call,    \* where each call is, its quiet rounds, and what it knows of the text
    result,  \* what each call has answered
    opening, \* terminal_open
    crowded, \* history: calls with whose command another was in the pane
    slow     \* history: calls that settled before the shell had read their line

terminalVars == <<alive, shown, line, queue, doing, ended, record, call, result, opening, crowded, slow>>

Commands == Runs \cup Others
Unasked == [pc |-> "away", quiet |-> 0, changed |-> FALSE, differs |-> FALSE]
NoFile == [of |-> {}, fresh |-> {}]
Active == {r \in Runs : call[r].pc \in {"text", "enter", "poll", "lost"}}
InPane == line \cup doing \cup UNION ToSet(queue)

TerminalInit ==
    /\ alive = FALSE /\ shown = FALSE
    /\ line = {} /\ queue = <<>> /\ doing = {} /\ ended = {}
    /\ record = [pane |-> NoFile, shared |-> NoFile]
    /\ call = [r \in Runs |-> Unasked]
    /\ result = [r \in Runs |-> [finished |-> FALSE, code |-> {}, borrowed |-> FALSE]]
    /\ opening = "away"
    /\ crowded = {} /\ slow = {}

\* The text of the pane changes: every call at work on it will see that.
TextChanges(calls) ==
    [r \in Runs |-> IF r \in Active THEN [calls[r] EXCEPT !.changed = TRUE, !.differs = TRUE] ELSE calls[r]]

\* A code is written: it is fresh for every call that has begun.
Written(file, commands) ==
    record' = [record EXCEPT ![file] = [of |-> commands, fresh |-> Active]]

Crowd(commands) ==
    crowded' = crowded \cup {r \in Active : commands \ {r} # {}}

\* ---- the pane (external: tmux and the shell)

\* Somebody types a whole line into it.
PersonTypes(c) ==
    /\ alive /\ c \notin InPane \cup ended
    /\ queue' = Append(queue, line \cup {c}) /\ line' = {}
    /\ call' = TextChanges(call) /\ Crowd({c})
    /\ UNCHANGED <<alive, shown, doing, ended, record, result, opening, slow>>

\* The shell reads a line. While it runs no program of its own, it is the
\* foreground process itself.
PaneReads ==
    /\ alive /\ doing = {} /\ queue # <<>>
    /\ doing' = Head(queue) /\ queue' = Tail(queue)
    /\ UNCHANGED <<alive, shown, line, ended, record, call, result, opening, crowded, slow>>

PanePrints ==
    /\ doing # {}
    /\ call' = TextChanges(call)
    /\ UNCHANGED <<alive, shown, line, queue, doing, ended, record, result, opening, crowded, slow>>

\* __sd_report, and the prompt.
PaneEnds ==
    /\ doing # {} /\ doing \cap Ends = {}
    /\ ended' = ended \cup doing /\ doing' = {}
    /\ Written("pane", doing)
    /\ call' = TextChanges(call)
    /\ UNCHANGED <<alive, shown, line, queue, result, opening, crowded, slow>>

\* exit: the last pane closes, and the session with it. A call that has not
\* pressed Return fails; one that has goes on looking for its pane.
PaneExits ==
    /\ doing \cap Ends # {}
    /\ alive' = FALSE /\ shown' = FALSE
    /\ ended' = ended \cup doing /\ doing' = {} /\ line' = {} /\ queue' = <<>>
    /\ call' = [r \in Runs |->
                  CASE call[r].pc = "poll"                       -> [Unasked EXCEPT !.pc = "lost"]
                    [] call[r].pc \in {"before", "text", "enter"} -> [Unasked EXCEPT !.pc = "refused"]
                    [] OTHER                                     -> call[r]]
    /\ UNCHANGED <<record, result, opening, crowded, slow>>

WindowCloses ==
    /\ shown /\ shown' = FALSE
    /\ UNCHANGED <<alive, line, queue, doing, ended, record, call, result, opening, crowded, slow>>

\* A command ends in a shell outside tmux.
ElsewhereEnds ==
    /\ Written("shared", {Elsewhere})
    /\ UNCHANGED <<alive, shown, line, queue, doing, ended, call, result, opening, crowded, slow>>

\* ---- terminal_open

\* Every file of exit codes goes, whoever is waiting for one; then the session is
\* there or it is made, and the window.
OpenRemoves ==
    /\ opening = "away" /\ opening' = "session"
    /\ record' = [pane |-> NoFile, shared |-> NoFile]
    /\ UNCHANGED <<alive, shown, line, queue, doing, ended, call, result, crowded, slow>>

OpenSession ==
    /\ opening = "session"
    /\ alive' = TRUE
    /\ opening' = IF alive /\ shown THEN "away" ELSE "attach"
    /\ UNCHANGED <<shown, line, queue, doing, ended, record, call, result, crowded, slow>>

\* attachWindow: within twenty seconds, or not.
OpenAttaches ==
    /\ opening = "attach" /\ opening' = "away"
    /\ shown' \in {shown, alive}
    /\ UNCHANGED <<alive, line, queue, doing, ended, record, call, result, crowded, slow>>

\* ---- terminal_run

CallAt(r, pc) == call' = [call EXCEPT ![r].pc = pc]

\* activePane, and sessionVisible.
RunStarts(r) ==
    /\ call[r].pc = "away" /\ alive
    /\ CallAt(r, IF shown THEN "before" ELSE "attach")
    /\ UNCHANGED <<alive, shown, line, queue, doing, ended, record, result, opening, crowded, slow>>

RunAttaches(r) ==
    /\ call[r].pc = "attach"
    /\ \E ok \in {FALSE, alive} :
         /\ shown' = (shown \/ ok)
         /\ CallAt(r, IF ok THEN "before" ELSE "refused")
    /\ UNCHANGED <<alive, line, queue, doing, ended, record, result, opening, crowded, slow>>

\* The text as it was before, and the time: what was recorded until now is old.
RunCaptures(r) ==
    /\ call[r].pc = "before"
    /\ call' = [call EXCEPT ![r] = [pc |-> "text", quiet |-> 0, changed |-> TRUE, differs |-> FALSE]]
    /\ crowded' = IF InPane # {} THEN crowded \cup {r} ELSE crowded
    /\ UNCHANGED <<alive, shown, line, queue, doing, ended, record, result, opening, slow>>

\* send-keys: the text, and then Enter.
SendText(r) ==
    /\ call[r].pc = "text"
    /\ line' = line \cup {r}
    /\ call' = [TextChanges(call) EXCEPT ![r].pc = "enter"]
    /\ crowded' = crowded \cup {s \in Active : InPane \cup {r} # {s}}
    /\ UNCHANGED <<alive, shown, queue, doing, ended, record, result, opening, slow>>

SendEnter(r) ==
    /\ call[r].pc = "enter"
    /\ queue' = Append(queue, line) /\ line' = {}
    /\ call' = [TextChanges(call) EXCEPT ![r].pc = "poll"]
    /\ UNCHANGED <<alive, shown, doing, ended, record, result, opening, crowded, slow>>

\* paneIdle: the foreground process bears a shell's name, which that of a command
\* that is a script does while it runs.
PaneIdle == doing \cap Program = {}

\* readExitCode: of the pane's own file, or of the shared one when there is none;
\* what was written before the call began is of no use.
ReadExitCode(r) ==
    LET f == IF record.pane # NoFile THEN "pane" ELSE "shared"
    IN  [code |-> IF r \in record[f].fresh THEN record[f].of ELSE {}, borrowed |-> f = "shared"]

Answer(r, finished) ==
    /\ result' = [result EXCEPT ![r] = [finished |-> finished, code |-> ReadExitCode(r).code,
                                        borrowed |-> ReadExitCode(r).borrowed]]
    /\ call' = [call EXCEPT ![r] = [Unasked EXCEPT !.pc = "returned"]]

\* The second round on end in which nothing changed, the shell in the foreground,
\* and a text that is not the one before.
\* Slip: a text that has come to rest is enough.
TextSettles(r) == ~call[r].changed /\ call[r].quiet = 1 /\ call[r].differs

Settles(r) == ~call[r].changed /\ call[r].quiet = 1 /\ call[r].differs /\ PaneIdle

\* One round of the loop: what is on the screen now?
PollPane(r) ==
    /\ call[r].pc = "poll" /\ ~Settles(r)
    /\ call' = [call EXCEPT ![r].quiet = IF call[r].changed THEN 0 ELSE 1,
                            ![r].changed = FALSE]
    /\ UNCHANGED <<alive, shown, line, queue, doing, ended, record, result, opening, crowded, slow>>

RunSettles(r) ==
    /\ call[r].pc = "poll" /\ Settles(r)
    /\ Answer(r, TRUE)
    /\ slow' = IF r \in UNION ToSet(queue) THEN slow \cup {r} ELSE slow
    /\ UNCHANGED <<alive, shown, line, queue, doing, ended, record, opening, crowded>>

\* The pane is gone, the deadline has passed, or the call is cancelled.
RunEnds(r) ==
    /\ call[r].pc \in {"poll", "lost"}
    /\ Answer(r, FALSE)
    /\ UNCHANGED <<alive, shown, line, queue, doing, ended, record, opening, crowded, slow>>

TerminalNext ==
    \/ \E c \in Others : PersonTypes(c)
    \/ PaneReads \/ PanePrints \/ PaneEnds \/ PaneExits \/ WindowCloses \/ ElsewhereEnds
    \/ OpenRemoves \/ OpenSession \/ OpenAttaches
    \/ \E r \in Runs :
         \/ RunStarts(r) \/ RunAttaches(r) \/ RunCaptures(r) \/ SendText(r) \/ SendEnter(r)
         \/ PollPane(r) \/ RunSettles(r) \/ RunEnds(r)

TerminalSpec == TerminalInit /\ [][TerminalNext]_terminalVars

\* ---- properties

TerminalTypeOK ==
    /\ alive \in BOOLEAN /\ shown \in BOOLEAN
    /\ line \subseteq Commands /\ queue \in Seq(SUBSET Commands) /\ doing \subseteq Commands
    /\ ended \subseteq Commands
    /\ \A r \in Runs : call[r].quiet \in 0..1
    /\ opening \in {"away", "session", "attach"}

\* The outcome a call reports is its own.  When its command is a program, and the
\* shell had read its line by the time the call settled, `finished` says that it
\* has ended, whoever else types into the pane; and an exit code is that of the
\* caller's command, unless another command was in the pane meanwhile, or the
\* pane had no file of its own and a shell elsewhere wrote the shared one.
OutcomeIsOwn ==
    \A r \in Runs : call[r].pc = "returned" =>
        /\ (result[r].finished /\ r \in Program /\ r \notin slow) => r \in ended
        /\ r \notin crowded => result[r].code \in {{}, {r}} \/ result[r].borrowed
=============================================================================
