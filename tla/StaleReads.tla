----------------------------- MODULE StaleReads -----------------------------
(***************************************************************************)
(* What a cache with a time to live promises to those who read through it. *)
(* A source holds a value for each item and changes it without notice. A   *)
(* read returns a value that the source held at some moment of the last    *)
(* MaxStale ticks: never an invented one, and never one from another item. *)
(*                                                                         *)
(* `gone` is the time since the source last held a value, 0 for the one it *)
(* holds now. It stops at Horizon > MaxStale, which stands for "long ago   *)
(* or never".                                                              *)
(***************************************************************************)
EXTENDS Naturals

CONSTANTS Readers, Items, Values, MaxStale, Horizon, NoRead

VARIABLES source, gone, read

vars == <<source, gone, read>>

Init ==
    /\ source \in [Items -> Values]
    /\ gone = [i \in Items |->
                 [v \in Values |-> IF v = source[i] THEN 0 ELSE Horizon]]
    /\ read = [r \in Readers |-> NoRead]

Change(i, v) ==
    /\ source' = [source EXCEPT ![i] = v]
    /\ gone' = [gone EXCEPT ![i][v] = 0]
    /\ UNCHANGED read

Age ==
    /\ gone' = [i \in Items |-> [v \in Values |->
                  IF v = source[i] \/ gone[i][v] = Horizon
                  THEN gone[i][v] ELSE gone[i][v] + 1]]
    /\ UNCHANGED <<source, read>>

Serve(r, i, v) ==
    /\ gone[i][v] <= MaxStale
    /\ read' = [read EXCEPT ![r] = [item |-> i, value |-> v]]
    /\ UNCHANGED <<source, gone>>

\* Readers use what they read at once, or lose it when the process ends.
Forget ==
    /\ \E S \in SUBSET Readers :
          read' = [r \in Readers |-> IF r \in S THEN NoRead ELSE read[r]]
    /\ UNCHANGED <<source, gone>>

Next ==
    \/ \E i \in Items, v \in Values : Change(i, v)
    \/ Age
    \/ \E r \in Readers, i \in Items, v \in Values : Serve(r, i, v)
    \/ Forget

Spec == Init /\ [][Next]_vars
=============================================================================
