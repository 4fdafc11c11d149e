----------------------------- MODULE ActionLog -----------------------------
(***************************************************************************)
(* The audit trail of the MCP plane (ActionLog in internal/mcp/            *)
(* mcppolicy.go): a ring in memory for the action_log tool, and a file     *)
(* with one previous generation that outlives the process.  Every          *)
(* operation holds ActionLog.mu from end to end, so each is one action.    *)
(*                                                                         *)
(* Entries are numbered in the order of their Add and all have size one.   *)
(* Any write, rename or open may fail: the trail then degrades, and        *)
(* `lost` says which entries did not reach the disk.                       *)
(***************************************************************************)
EXTENDS Naturals, Sequences

CONSTANTS
    RingMax,     \* ActionLog.max
    FileCap,     \* ActionLog.maxSize, 0 when nothing rotates
    MaxEntries,  \* bound: calls recorded in a behaviour
    MaxFaults    \* bound: failures of the file system, and restarts

ASSUME LogAssumption ==
    /\ RingMax \in Nat \ {0} /\ FileCap \in Nat
    /\ MaxEntries \in Nat /\ MaxFaults \in Nat

VARIABLES
    ring,     \* ActionLog.entries
    handle,   \* ActionLog.file is open
    size,     \* ActionLog.size
    current,  \* what is in the file at path
    previous, \* what is in path.1
    added,    \* history: entries so far
    since,    \* history: entries before the last Clear or start
    lost,     \* history: entries that were never written
    faults,   \* failures and restarts so far
    stuck     \* history: renames that failed

logVars == <<ring, handle, size, current, previous, added, since, lost, faults, stuck>>

Entries == 1..MaxEntries

LogTypeOK ==
    /\ ring \in Seq(Entries) /\ current \in Seq(Entries) /\ previous \in Seq(Entries)
    /\ handle \in BOOLEAN
    /\ size \in Nat
    /\ added \in 0..MaxEntries /\ since \in 0..added
    /\ lost \subseteq Entries
    /\ faults \in 0..MaxFaults /\ stuck \in 0..faults

Faulty(n) == faults + n <= MaxFaults /\ faults' = faults + n

\* NewActionLog in a fresh process, over whatever the last one left on the disk.
Opens ==
    \/ handle' = TRUE /\ size' = Len(current) /\ Faulty(1)
    \/ handle' = FALSE /\ size' = 0 /\ Faulty(2)

LogInit ==
    /\ ring = <<>> /\ current = <<>> /\ previous = <<>>
    /\ handle \in BOOLEAN
    /\ size = 0 /\ added = 0 /\ since = 0 /\ lost = {} /\ faults = 0 /\ stuck = 0

Restart ==
    /\ ring' = <<>> /\ since' = added
    /\ Opens
    /\ UNCHANGED <<current, previous, added, lost, stuck>>

Newest(s) == IF Len(s) > RingMax THEN SubSeq(s, Len(s) - RingMax + 1, Len(s)) ELSE s

Remember ==
    /\ added < MaxEntries
    /\ added' = added + 1
    /\ ring' = Newest(Append(ring, added'))
    /\ UNCHANGED since

\* No file: the entry is in the ring only.
AddUnwritten ==
    /\ ~ handle
    /\ Remember
    /\ lost' = lost \cup {added'}
    /\ UNCHANGED <<handle, size, current, previous, faults, stuck>>

\* What the write left behind, n faults so far in this step.
Stays(now, bytes, n) ==
    /\ FileCap = 0 \/ bytes < FileCap
    /\ current' = now /\ size' = bytes
    /\ Faulty(n)
    /\ UNCHANGED <<handle, previous, stuck>>

\* rotateLocked: close, rename, open again. Whichever fails, the file stays
\* closed for the rest of the process.
\* Slip: the file is opened again without having been moved.
RotatesInPlace(now, bytes, n) ==
    /\ FileCap > 0 /\ bytes >= FileCap
    /\ current' = now /\ size' = 0
    /\ Faulty(n)
    /\ UNCHANGED <<handle, previous, stuck>>

Rotates(now, bytes, n) ==
    /\ FileCap > 0 /\ bytes >= FileCap
    /\ size' = 0
    /\ \/ /\ previous' = now /\ current' = <<>>
          /\ \/ handle' = TRUE /\ Faulty(n)
             \/ handle' = FALSE /\ Faulty(n + 1)
          /\ UNCHANGED stuck
       \/ /\ handle' = FALSE /\ stuck' = stuck + 1 /\ Faulty(n + 1)
          /\ current' = now
          /\ UNCHANGED previous

\* The write may fail; the size is looked at all the same.
AddToFile ==
    /\ handle
    /\ Remember
    /\ \/ /\ \/ Stays(Append(current, added'), size + 1, 0)
             \/ Rotates(Append(current, added'), size + 1, 0)
          /\ UNCHANGED lost
       \/ /\ Stays(current, size, 1) \/ Rotates(current, size, 1)
          /\ lost' = lost \cup {added'}

\* action_log with clear: the memory goes, the file does not.
Clear ==
    /\ ring # <<>>
    /\ ring' = <<>> /\ since' = added
    /\ UNCHANGED <<handle, size, current, previous, added, lost, faults, stuck>>

LogNext == AddUnwritten \/ AddToFile \/ Clear \/ Restart

LogSpec == LogInit /\ [][LogNext]_logVars

-----------------------------------------------------------------------------
OnDisk == previous \o current

\* However writes, renames and opens fail and the process restarts: the ring
\* holds exactly the newest entries, the disk an unbroken run of the newest ones
\* that were written at all, and no more of them than "twice the cap" and one
\* for every rename that failed.
TrailKeepsTheNewest ==
    /\ Len(ring) = (IF added - since > RingMax THEN RingMax ELSE added - since)
    /\ \A i \in 1..Len(ring) : ring[i] = added - Len(ring) + i
    /\ \A i \in 1..Len(OnDisk) - 1 : OnDisk[i] < OnDisk[i + 1]
    /\ OnDisk # <<>> =>
         \A e \in OnDisk[1]..added : e \in lost \/ \E i \in 1..Len(OnDisk) : OnDisk[i] = e
    /\ FileCap > 0 => Len(OnDisk) <= 2 * FileCap + stuck
=============================================================================
