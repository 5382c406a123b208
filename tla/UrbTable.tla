------------------------------ MODULE UrbTable ------------------------------
(***************************************************************************)
(* The pending-URB table as a component promises it (spec.md, section      *)
(* 4.3): entries keyed by (device, urb id), each standing for one caller's *)
(* URB.                                                                    *)
(*   - Insert: a URB enters once, under a key no pending entry has.        *)
(*   - Complete: the first completion of a key removes its entry and       *)
(*     completes that entry's URB; a completion with no entry is dropped.  *)
(*   - Discard: the entries of destroyed devices leave the table.          *)
(*                                                                         *)
(* Section 4.3 has purge complete each entry with NoDevice.  The           *)
(* userspace server frees them without a completion (CleanupDevice, the    *)
(* us_silent_drop run), so Discard here removes them silently: this is    *)
(* the table the code can implement, and the rest of the contract          *)
(* (uniqueness, at-most-once, no entry changing its key or URB) is what a  *)
(* refinement to it checks.                                                *)
(***************************************************************************)
EXTENDS Naturals

CONSTANTS
    Devs,   \* device ids
    Ids,    \* urb ids
    Toks    \* the callers' URBs

Entry == [dev : Devs, id : Ids, tok : Toks]

VARIABLES
    table,        \* the pending entries
    inserted,     \* URBs that have ever entered the table
    completions   \* how often each URB was completed

vars == <<table, inserted, completions>>

KeyUsed(d, i) == \E x \in table : x.dev = d /\ x.id = i

Init ==
    /\ table = {}
    /\ inserted = {}
    /\ completions = [t \in Toks |-> 0]

Insert(e) ==
    /\ e.tok \notin inserted
    /\ ~KeyUsed(e.dev, e.id)
    /\ table' = table \cup {e}
    /\ inserted' = inserted \cup {e.tok}
    /\ UNCHANGED completions

Complete(e) ==
    /\ e \in table
    /\ table' = table \ {e}
    /\ completions' = [completions EXCEPT ![e.tok] = @ + 1]
    /\ UNCHANGED inserted

Discard(D) ==
    /\ table' = {x \in table : x.dev \notin D}
    /\ UNCHANGED <<inserted, completions>>

Next ==
    \/ \E e \in Entry : Insert(e) \/ Complete(e)
    \/ \E D \in SUBSET Devs : Discard(D)

Spec == Init /\ [][Next]_vars

TypeOK ==
    /\ table \subseteq Entry
    /\ inserted \subseteq Toks
    /\ completions \in [Toks -> Nat]
=============================================================================
