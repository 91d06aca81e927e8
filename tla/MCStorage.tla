------------------------------ MODULE MCStorage -----------------------------
(* The store of a root, in two small instances: its journal, registry and    *)
(* recovery over lanes that are lines (GatewayStore), and the segments,      *)
(* seals and objects one lane and a commit's object are made of (Lanes).     *)
(* They share no state here, so a behaviour runs one of them, chosen at its  *)
(* start; the other stays as it began.                                       *)
EXTENDS GatewayStore, Lanes, TLC

CONSTANTS l1, l2, Layers

VARIABLE layer

\* A commit with no record, with one, with one on each lane, and with two on
\* one lane.
MCBatches == {<<>>, <<l1>>, <<l1, l2>>, <<l1, l1>>}
MCSizes == {1, 2}

StorageInit == layer \in Layers /\ Init /\ FilesInit

StorageNext ==
    \/ layer = "store" /\ Next /\ UNCHANGED <<layer, filesVars>>
    \/ layer = "files" /\ FilesNext /\ UNCHANGED <<layer, vars>>

\* The fairness of FairSpec, for the store.
StorageSpec ==
    /\ StorageInit /\ [][StorageNext]_<<layer, vars, filesVars>>
    /\ WF_vars(layer = "store" /\ Recover)
    /\ \A c \in Callers : WF_vars(layer = "store" /\ Progress(c))

StoreReopens == layer = "store" => Reopens
=============================================================================
