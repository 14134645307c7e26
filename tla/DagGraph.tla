------------------------------- MODULE DagGraph -------------------------------
(***************************************************************************)
(* The block graph of src/dag/model.rs as a value with the operations      *)
(* add_block, update_status and sort_blocks.  A block keeps what the       *)
(* viewer's behaviour depends on: its number and its status; who its       *)
(* parents are is the same in every answer and event about it.             *)
(* Lists whose order nothing reads (children, tips) are sets.              *)
(*                                                                         *)
(* A definition commented as a variant is no part of the specification:    *)
(* it is the one after it with a plausible slip.                           *)
(***************************************************************************)
EXTENDS Integers, Sequences, FiniteSets

CONSTANTS Hashes,      \* the blocks of the shard
          ParentsOf,   \* the parents of each
          NumberOf     \* the block number of each

ASSUME HashesAssumption == IsFiniteSet(Hashes)
ASSUME ParentsAssumption == ParentsOf \in [Hashes -> SUBSET Hashes]
ASSUME NumbersAssumption == NumberOf \in [Hashes -> Nat]

\* External: the node numbers a block higher than any of its parents.
ASSUME HeightsAssumption ==
    \A h \in Hashes : \A p \in ParentsOf[h] : NumberOf[p] < NumberOf[h]

\* BlockStatus, in the order a block goes through.
Created == 1
Added == 2
Finalized == 3
BlockStatus == Created..Finalized

\* The block number of an event that could not be completed over HTTP.
Unknown == -1

DagBlock == [number : {Unknown} \cup Nat, status : BlockStatus]

EmptyDag == [blocks |-> [h \in {} |-> [number |-> Unknown, status |-> Created]],
             children |-> [h \in Hashes |-> {}],
             tips |-> {}]

Known(dag) == DOMAIN dag.blocks

\* What every value of type Dag is made of.
IsDag(dag) ==
    /\ dag = [blocks |-> dag.blocks, children |-> dag.children, tips |-> dag.tips]
    /\ Known(dag) \subseteq Hashes
    /\ dag.blocks \in [Known(dag) -> DagBlock]
    /\ dag.children \in [Hashes -> SUBSET Hashes]
    /\ dag.tips \subseteq Hashes

\* Variant: only parents that are known get to know their child.
AddBlockToKnown(dag, h, block) ==
    LET isUpdate == h \in Known(dag)
    IN  [blocks |-> [x \in Known(dag) \cup {h} |->
                        IF x = h THEN block ELSE dag.blocks[x]],
         children |-> [p \in Hashes |->
                        IF ~isUpdate /\ p \in ParentsOf[h] \cap Known(dag)
                        THEN dag.children[p] \cup {h} ELSE dag.children[p]],
         tips |-> IF isUpdate THEN dag.tips
                  ELSE (dag.tips \ ParentsOf[h]) \cup {h}]

\* A new block becomes a child of its parents and a tip, and its parents are
\* tips no more; a block known already is replaced and nothing else changes.
AddBlock(dag, h, block) ==
    LET isUpdate == h \in Known(dag)
    IN  [blocks |-> [x \in Known(dag) \cup {h} |->
                        IF x = h THEN block ELSE dag.blocks[x]],
         children |-> [p \in Hashes |->
                        IF ~isUpdate /\ p \in ParentsOf[h]
                        THEN dag.children[p] \cup {h} ELSE dag.children[p]],
         tips |-> IF isUpdate THEN dag.tips
                  ELSE (dag.tips \ ParentsOf[h]) \cup {h}]

\* Ignored for a block that is not known.
UpdateStatus(dag, h, status) ==
    [dag EXCEPT !.blocks = [x \in DOMAIN @ |->
        IF x = h THEN [@[x] EXCEPT !.status = status] ELSE @[x]]]

\* The orders sort_blocks may produce: the highest number first.  Blocks of
\* one number come by their timestamps, which the model does not keep.
Sortings(blocks) ==
    {order \in [1..Cardinality(DOMAIN blocks) -> DOMAIN blocks] :
        /\ \A h \in DOMAIN blocks : \E i \in DOMAIN order : order[i] = h
        /\ \A i, j \in DOMAIN order :
              i < j => blocks[order[i]].number >= blocks[order[j]].number}

-----------------------------------------------------------------------------
(* What holds of every graph built by these operations *)

\* The children map is the inverse of the parents of the known blocks: also
\* when parents become known after their children, or never.
ChildrenMirrorParents(dag) ==
    \A p \in Hashes : dag.children[p] = {c \in Known(dag) : p \in ParentsOf[c]}

\* Every block without known children is among the tips.
ChildlessAreTips(dag) ==
    {h \in Known(dag) : dag.children[h] = {}} \subseteq dag.tips
=============================================================================
