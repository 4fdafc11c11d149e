------------------------------ MODULE MCMedia ------------------------------
(***************************************************************************)
(* The external destinations, the recorder and the microphone: three parts *)
(* that share nothing, explored one beside the other.                      *)
(***************************************************************************)
EXTENDS TLC, Restream, Recorder, Microphone

VARIABLE part

\* Two ids that elementTag makes one name of.
MCTag == [id \in Ids |-> "a"]

\* Every id a name of its own.
MCOwnTag == CHOOSE f \in [Ids -> Tags] : \A i, j \in Ids : i # j => f[i] # f[j]

mediaVars == <<restreamVars, recorderVars, micVars, part>>

MCInit ==
    /\ part \in {"restream", "recorder", "microphone"}
    /\ RestreamInit /\ RecorderInit /\ MicInit

MCNext ==
    \/ part = "restream" /\ RestreamNext /\ UNCHANGED <<recorderVars, micVars, part>>
    \/ part = "recorder" /\ RecorderNext /\ UNCHANGED <<restreamVars, micVars, part>>
    \/ part = "microphone" /\ MicNext /\ UNCHANGED <<restreamVars, recorderVars, part>>

MCSpec == MCInit /\ [][MCNext]_mediaVars

MCSymmetry == Permutations(Ids) \cup Permutations(Agents) \cup Permutations(Paths)
=============================================================================
