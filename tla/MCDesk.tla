------------------------------- MODULE MCDesk -------------------------------
(***************************************************************************)
(* The desk: the watchers of the display, what is held down on it, the     *)
(* shared terminal, the shells and the tunnels.  They share nothing, and   *)
(* are explored one beside the other.                                      *)
(***************************************************************************)
EXTENDS Watch, HeldInput, Terminal, SshTunnels, PtyShell

VARIABLE part

deskVars == <<watchVars, inputVars, terminalVars, sshVars, shellVars, part>>

MCInit ==
    /\ part \in {"watcher", "damage", "input", "terminal", "ssh", "shell"}
    /\ WatcherInit /\ DamageInit /\ InputInit /\ TerminalInit /\ SshInit /\ ShellInit

\* Bound: two of the three have an event or a call between its check and its
\* injection at a time.
AtMostTwo == \E p \in Parties : handler[p] = NoEvent

MCNext ==
    \/ /\ part = "watcher" /\ WatcherNext
       /\ UNCHANGED <<damageVars, inputVars, terminalVars, sshVars, shellVars, part>>
    \/ /\ part = "damage" /\ DamageNext
       /\ UNCHANGED <<watcherVars, inputVars, terminalVars, sshVars, shellVars, part>>
    \/ /\ part = "input" /\ InputNext /\ AtMostTwo'
       /\ UNCHANGED <<watchVars, terminalVars, sshVars, shellVars, part>>
    \/ /\ part = "terminal" /\ TerminalNext
       /\ UNCHANGED <<watchVars, inputVars, sshVars, shellVars, part>>
    \/ /\ part = "ssh" /\ SshNext
       /\ UNCHANGED <<watchVars, inputVars, terminalVars, shellVars, part>>
    \/ /\ part = "shell" /\ ShellNext
       /\ UNCHANGED <<watchVars, inputVars, terminalVars, sshVars, part>>

MCSpec == MCInit /\ [][MCNext]_deskVars

\* The two sessions are alike.
Symmetry == Permutations(Sessions)
=============================================================================
