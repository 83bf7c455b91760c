---------------------------- MODULE MC_ModelRoot ----------------------------
(* A home directory, a model in it, and a deck in the model.  The model has  *)
(* the same name in home as its deck has in it.  The deck may be half a      *)
(* model of its own, and home may be a repository.                           *)
EXTENDS ModelRoot

CONSTANTS home, A, deck, same

MCChild == [d \in Dir |-> [n \in Name |->
              CASE d = home -> A [] d = A -> deck [] OTHER -> NULL]]

Committed1 == [index |-> {Meta}, born |-> TRUE]
Model == [git |-> Committed1, files |-> {Meta, DecksMeta}]
Half  == [git |-> NewRepo, files |-> {Meta}]
Other == [git |-> NewRepo, files |-> {}]

Disk(h, k) == [d \in Dir |-> CASE d = home -> h [] d = A -> Model [] d = deck -> k]

MCDisk == {Disk(Nothing, Nothing), Disk(Other, Half)}
=============================================================================
