----------------------------- MODULE SshTunnels -----------------------------
(***************************************************************************)
(* SSH sessions and their tunnels (internal/shell/sshclient.go), as the    *)
(* agents' calls use them (internal/mcp/tools_sys.go).  The calls of       *)
(* several agents are at work at once; a session is found by its id and    *)
(* used after it may have been closed.                                     *)
(***************************************************************************)
CONSTANTS
    Hosts,    \* SSH sessions, each connected once
    Tunnels,  \* calls that open a tunnel, and the tunnel of each
    Closers,  \* calls that close one
    Addrs     \* addresses to listen on

VARIABLES
    listed,    \* SSHManager.sessions
    client,    \* SSHSession.client
    tunnels,   \* SSHSession.tunnels
    ending,    \* how far the Close of each session is
    opener,    \* where each opening call is, and of what
    listener,  \* the listener of each tunnel
    stopped,   \* tunnels whose stop channel is closed
    closer,    \* where each closing call is, and with what
    tooLate    \* history: tunnels stored after the Close of their session had looked

sshVars == <<listed, client, tunnels, ending, opener, listener, stopped, closer, tooLate>>

Unopened == [pc |-> "away", host |-> "", kind |-> "", addr |-> ""]
Unclosed == [pc |-> "away", host |-> "", tunnel |-> ""]

SshInit ==
    /\ listed = {} /\ client = [h \in Hosts |-> "none"]
    /\ tunnels = [h \in Hosts |-> {}] /\ ending = [h \in Hosts |-> "no"]
    /\ opener = [t \in Tunnels |-> Unopened]
    /\ listener = [t \in Tunnels |-> "none"]
    /\ stopped = {} /\ tooLate = {}
    /\ closer = [c \in Closers |-> Unclosed]

\* Connect: registered once the handshake is through.
Connect(h) ==
    /\ client[h] = "none"
    /\ client' = [client EXCEPT ![h] = "up"] /\ listed' = listed \cup {h}
    /\ UNCHANGED <<tunnels, ending, opener, listener, stopped, closer, tooLate>>

\* The far side of a reverse tunnel goes with the connection.
WithoutRemote(h) ==
    [t \in Tunnels |-> IF opener[t].host = h /\ opener[t].kind = "remote" /\ listener[t] = "open"
                       THEN "closed" ELSE listener[t]]

\* The server goes away; nobody looks, and the session stays listed.
LoseServer(h) ==
    /\ client[h] = "up" /\ client' = [client EXCEPT ![h] = "down"]
    /\ listener' = WithoutRemote(h)
    /\ UNCHANGED <<listed, tunnels, ending, opener, stopped, closer, tooLate>>

\* ---- TunnelLocal and TunnelRemote

\* Get, and the call into the session.
OpenTunnel(t, h, kind, addr) ==
    /\ opener[t].pc = "away" /\ h \in listed
    /\ opener' = [opener EXCEPT ![t] = [pc |-> IF kind = "local" THEN "probe" ELSE "listen",
                                        host |-> h, kind |-> kind, addr |-> addr]]
    /\ UNCHANGED <<listed, client, tunnels, ending, listener, stopped, closer, tooLate>>

OpenerAt(t, pc) == opener' = [opener EXCEPT ![t].pc = pc]

\* The server is asked once whether it forwards; only its refusal is final, and
\* a connection that is gone is not one.
Probe(t) ==
    /\ opener[t].pc = "probe"
    /\ \/ OpenerAt(t, "listen")
       \/ client[opener[t].host] = "up" /\ OpenerAt(t, "failed")
    /\ UNCHANGED <<listed, client, tunnels, ending, listener, stopped, closer, tooLate>>

Taken(t) ==
    \E u \in Tunnels \ {t} :
        /\ listener[u] = "open" /\ opener[u].kind = opener[t].kind /\ opener[u].addr = opener[t].addr
        /\ opener[t].kind = "remote" => opener[u].host = opener[t].host

Listen(t) ==
    /\ opener[t].pc = "listen"
    /\ IF Taken(t) \/ (opener[t].kind = "remote" /\ client[opener[t].host] # "up")
       THEN OpenerAt(t, "failed") /\ UNCHANGED listener
       ELSE OpenerAt(t, "store") /\ listener' = [listener EXCEPT ![t] = "open"]
    /\ UNCHANGED <<listed, client, tunnels, ending, stopped, closer, tooLate>>

\* Under the session's lock, whether or not the session is still anybody's.
Store(t) ==
    LET h == opener[t].host
    IN  /\ opener[t].pc = "store" /\ OpenerAt(t, "stored")
        /\ tunnels' = [tunnels EXCEPT ![h] = @ \cup {t}]
        /\ tooLate' = IF ending[h] \in {"swept", "closed"} THEN tooLate \cup {t} ELSE tooLate
        /\ UNCHANGED <<listed, client, ending, listener, stopped, closer>>

\* ---- Close

CloseSession(h) ==
    /\ h \in listed /\ listed' = listed \ {h}
    /\ ending' = [ending EXCEPT ![h] = "removed"]
    /\ UNCHANGED <<client, tunnels, opener, listener, stopped, closer, tooLate>>

Shut(ts) == [t \in Tunnels |-> IF t \in ts /\ listener[t] = "open" THEN "closed" ELSE listener[t]]

\* closeTunnel, of every tunnel stored by now.
\* Slip: the client is closed, and its listeners are left to it.
SweepNothing(h) ==
    /\ ending[h] = "removed" /\ ending' = [ending EXCEPT ![h] = "swept"]
    /\ UNCHANGED <<listed, client, tunnels, opener, listener, stopped, closer, tooLate>>

Sweep(h) ==
    /\ ending[h] = "removed" /\ ending' = [ending EXCEPT ![h] = "swept"]
    /\ listener' = Shut(tunnels[h]) /\ stopped' = stopped \cup tunnels[h]
    /\ UNCHANGED <<listed, client, tunnels, opener, closer, tooLate>>

CloseClient(h) ==
    /\ ending[h] = "swept" /\ ending' = [ending EXCEPT ![h] = "closed"]
    /\ client' = [client EXCEPT ![h] = "down"]
    /\ listener' = WithoutRemote(h)
    /\ UNCHANGED <<listed, tunnels, opener, stopped, closer, tooLate>>

\* ---- CloseTunnel

GetForClose(c, h, t) ==
    /\ closer[c].pc = "away" /\ h \in listed
    /\ closer' = [closer EXCEPT ![c] = [pc |-> "remove", host |-> h, tunnel |-> t]]
    /\ UNCHANGED <<listed, client, tunnels, ending, opener, listener, stopped, tooLate>>

RemoveTunnel(c) ==
    LET h == closer[c].host t == closer[c].tunnel
    IN  /\ closer[c].pc = "remove"
        /\ tunnels' = [tunnels EXCEPT ![h] = @ \ {t}]
        /\ closer' = [closer EXCEPT ![c].pc = IF t \in tunnels[h] THEN "shut" ELSE "no such tunnel"]
        /\ UNCHANGED <<listed, client, ending, opener, listener, stopped, tooLate>>

ShutTunnel(c) ==
    /\ closer[c].pc = "shut"
    /\ listener' = Shut({closer[c].tunnel}) /\ stopped' = stopped \cup {closer[c].tunnel}
    /\ closer' = [closer EXCEPT ![c].pc = "done"]
    /\ UNCHANGED <<listed, client, tunnels, ending, opener, tooLate>>

SshNext ==
    \/ \E h \in Hosts : Connect(h) \/ LoseServer(h) \/ CloseSession(h) \/ Sweep(h) \/ CloseClient(h)
    \/ \E t \in Tunnels :
         \/ \E h \in Hosts, kind \in {"local", "remote"}, addr \in Addrs : OpenTunnel(t, h, kind, addr)
         \/ Probe(t) \/ Listen(t) \/ Store(t)
    \/ \E c \in Closers :
         \/ \E h \in Hosts, t \in Tunnels : GetForClose(c, h, t)
         \/ RemoveTunnel(c) \/ ShutTunnel(c)

SshSpec == SshInit /\ [][SshNext]_sshVars

\* ---- properties

SshTypeOK ==
    /\ listed \subseteq Hosts /\ client \in [Hosts -> {"none", "up", "down"}]
    /\ tunnels \in [Hosts -> SUBSET Tunnels]
    /\ ending \in [Hosts -> {"no", "removed", "swept", "closed"}]
    /\ listener \in [Tunnels -> {"none", "open", "closed"}]
    /\ opener \in [Tunnels -> [pc : {"away", "probe", "listen", "store", "stored", "failed"},
                               host : Hosts \cup {""}, kind : {"", "local", "remote"}, addr : Addrs \cup {""}]]
    /\ closer \in [Closers -> [pc : {"away", "remove", "shut", "no such tunnel", "done"},
                               host : Hosts \cup {""}, tunnel : Tunnels \cup {""}]]
    /\ stopped \subseteq Tunnels /\ tooLate \subseteq Tunnels

\* No port is left open that nobody can close.  An open listener is about to be
\* stored, or its tunnel is in a session somebody can still name or whose Close
\* has not come to it, or a call that removed it is about to shut it; but for a
\* tunnel that was stored after the Close of its session had looked, whose port
\* stays open for the life of the daemon.
PortsAreFreed ==
    \A t \in Tunnels : listener[t] = "open" =>
        LET h == opener[t].host
        IN  \/ opener[t].pc = "store"
            \/ t \in tunnels[h] /\ (h \in listed \/ ending[h] = "removed")
            \/ \E c \in Closers : closer[c].pc = "shut" /\ closer[c].tunnel = t
            \/ t \in tooLate
=============================================================================
